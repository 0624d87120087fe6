---------------------------- MODULE OutputPipeline ----------------------------
(***************************************************************************)
(* The output pipeline of the KPM read-only collector: a bounded ring of    *)
(* canonical records behind one mutex, filled by FlexRIC callbacks that     *)
(* never wait for it, and a worker thread that writes every record to the   *)
(* durable sinks (CSV, then JSONL) and publishes a Prometheus text file.    *)
(*                                                                          *)
(* A critical section is two steps, taking the mutex and the body with the  *)
(* release, so that a trylock can meet it taken. pthread calls on the       *)
(* initialised mutex, conditions and thread are taken not to fail.          *)
(*                                                                          *)
(* A record is <<indication sequence, position>>; what it holds is left     *)
(* out. This module has the state and the pipeline's steps; KpmCollector    *)
(* has the threads that call them.                                          *)
(***************************************************************************)
EXTENDS Integers, Sequences

CONSTANTS
  Callbacks,          \* FlexRIC threads that may run the callback
  Capacity,           \* TCD_KPM_OUTPUT_QUEUE_CAPACITY
  Sinks,              \* durable sinks configured: 1 is written before 2
  PrometheusEnabled,  \* TCD_KPM_OUTPUT_PROMETHEUS_PATH is set
  Worker, Main, Free, \* the other threads that take the mutex, and nobody
  NoRecord            \* an empty slot

ASSUME PipelineAssumption ==
  /\ Capacity \in Nat \ {0}
  /\ Sinks \in Nat
  /\ PrometheusEnabled \in BOOLEAN
  /\ Sinks > 0 \/ PrometheusEnabled  \* otherwise there is no pipeline
  /\ Worker # Main /\ Worker # Free /\ Main # Free
  /\ Worker \notin Callbacks /\ Main \notin Callbacks /\ Free \notin Callbacks
  /\ NoRecord \notin Nat \X Nat

Sink == 1..Sinks
Slot == 0..(Capacity - 1)
Record == Nat \X Nat

WorkerPc == {"off", "lock", "check", "waiting", "write", "account_lock",
             "account", "publish", "publish_lock", "publish_account",
             "idle_lock", "idle", "done"}

\* What the text file shows: rows written and refused per sink, the queue
\* depth, and the subscription counters.
Snapshot == [ok : [Sink -> Nat], error : [Sink -> Nat], depth : Nat,
             made : Nat, removed : Nat]
NoRows == [s \in Sink |-> 0]
NoSnapshot == [ok |-> NoRows, error |-> NoRows, depth |-> 0, made |-> 0,
               removed |-> 0]

VARIABLES
  mutex,       \* who holds pipeline->mutex
  slots, head, tail, count,  \* the ring
  accepted,    \* the records accepted so far; its length is records_accepted
  dropped, failed,           \* the atomics records_dropped and failed
  stopReq,     \* stop_requested of the pipeline
  wpc, wrec,   \* the worker and the record it holds
  wsink,       \* the sink it writes next
  wrote,       \* wrote[s]: its write to s succeeded
  rows,        \* rows[s]: the rows in the file of s; of a failed sink, the
               \* last one may be incomplete
  sinkFailed,  \* sinkFailed[s]: the sink's failed flag
  metrics,     \* pipeline->prometheus
  shot,        \* the worker's snapshot
  published    \* the text file

ringVars == <<slots, head, tail, count, accepted>>
lossVars == <<dropped, failed>>
workerVars == <<wpc, wrec, wsink, wrote>>
sinkVars == <<rows, sinkFailed>>
metricVars == <<metrics, shot, published>>
pipelineVars == <<mutex, ringVars, lossVars, stopReq, workerVars, sinkVars,
                  metricVars>>

PipelineInit ==
  /\ mutex = Free
  /\ slots = [i \in Slot |-> NoRecord] /\ head = 0 /\ tail = 0 /\ count = 0
  /\ accepted = <<>> /\ dropped = 0 /\ failed = FALSE /\ stopReq = FALSE
  /\ wpc = "off" /\ wrec = NoRecord /\ wsink = 1
  /\ wrote = [s \in Sink |-> TRUE]
  /\ rows = [s \in Sink |-> <<>>] /\ sinkFailed = [s \in Sink |-> FALSE]
  /\ metrics = NoSnapshot /\ shot = NoSnapshot /\ published = NoSnapshot

-----------------------------------------------------------------------------
(* tcd_kpm_output_pipeline_try_submit, called by a callback.                *)

\* records_dropped is incremented and failed is set.
Drop == dropped' = dropped + 1 /\ failed' = TRUE

\* The record does not validate, or the mutex is taken: it is dropped.
SubmitDropped ==
  /\ Drop
  /\ UNCHANGED <<mutex, ringVars, stopReq, workerVars, sinkVars, metricVars>>

SubmitLock(t) ==
  /\ mutex = Free
  /\ mutex' = t
  /\ UNCHANGED <<ringVars, lossVars, stopReq, workerVars, sinkVars, metricVars>>

Refuses == stopReq \/ count >= Capacity

\* pthread_cond_signal and pthread_cond_broadcast on work_condition.
WakeWorker == wpc' = IF wpc = "waiting" THEN "lock" ELSE wpc

\* The record is stored at queue_tail and the worker is signalled.
SubmitStore(t, r) ==
  /\ mutex = t
  /\ ~Refuses
  /\ slots' = [slots EXCEPT ![tail] = r]
  /\ tail' = (tail + 1) % Capacity
  /\ count' = count + 1
  /\ accepted' = Append(accepted, r)
  /\ WakeWorker
  /\ mutex' = Free
  /\ UNCHANGED <<head, lossVars, stopReq, wrec, wsink, wrote, sinkVars,
                 metricVars>>

\* Stopped or full: the mutex is released before the drop is counted.
SubmitRefuse(t) ==
  /\ mutex = t
  /\ Refuses
  /\ mutex' = Free
  /\ UNCHANGED <<ringVars, lossVars, stopReq, workerVars, sinkVars, metricVars>>

-----------------------------------------------------------------------------
(* worker_main and process_record.                                          *)

WorkerLock(from, to) ==
  /\ wpc = from
  /\ mutex = Free
  /\ mutex' = Worker
  /\ wpc' = to
  /\ UNCHANGED <<ringVars, lossVars, stopReq, wrec, wsink, wrote, sinkVars,
                 metricVars>>

\* pthread_cond_wait releases the mutex.
WorkerWait ==
  /\ wpc = "check" /\ mutex = Worker
  /\ count = 0 /\ ~stopReq
  /\ wpc' = "waiting"
  /\ mutex' = Free
  /\ UNCHANGED <<ringVars, lossVars, stopReq, wrec, wsink, wrote, sinkVars,
                 metricVars>>

\* POSIX allows a wait to end without a signal.
WorkerSpurious ==
  /\ wpc = "waiting"
  /\ wpc' = "lock"
  /\ UNCHANGED <<mutex, ringVars, lossVars, stopReq, wrec, wsink, wrote,
                 sinkVars, metricVars>>

\* Mutant: a stop ends the worker whatever is queued.
WorkerEndEarly ==
  /\ wpc = "check" /\ mutex = Worker
  /\ stopReq
  /\ wpc' = "done"
  /\ mutex' = Free
  /\ UNCHANGED <<ringVars, lossVars, stopReq, wrec, wsink, wrote, sinkVars,
                 metricVars>>

\* Stopped and drained.
WorkerEnd ==
  /\ wpc = "check" /\ mutex = Worker
  /\ count = 0 /\ stopReq
  /\ wpc' = "done"
  /\ mutex' = Free
  /\ UNCHANGED <<ringVars, lossVars, stopReq, wrec, wsink, wrote, sinkVars,
                 metricVars>>

\* The record is copied out of the ring; worker_busy is true from here until
\* WorkerIdle.
WorkerTake ==
  /\ wpc = "check" /\ mutex = Worker
  /\ count > 0
  /\ wrec' = slots[head]
  /\ head' = (head + 1) % Capacity
  /\ count' = count - 1
  /\ wpc' = "write"
  /\ wsink' = 1
  /\ mutex' = Free
  /\ UNCHANGED <<slots, tail, accepted, lossVars, stopReq, wrote, sinkVars,
                 metricVars>>

WriteNext ==
  /\ wpc = "write"
  /\ wsink \in Sink
  /\ wsink' = wsink + 1
  /\ UNCHANGED <<mutex, ringVars, lossVars, stopReq, wpc, wrec, metricVars>>

\* Mutant: a failed sink is written again.
SinkWriteAgain ==
  /\ WriteNext
  /\ rows' = [rows EXCEPT ![wsink] = Append(@, wrec)]
  /\ wrote' = [wrote EXCEPT ![wsink] = TRUE]
  /\ UNCHANGED sinkFailed

\* tcd_kpm_file_sink_write: serialised, written and flushed.
SinkWrite ==
  /\ WriteNext
  /\ ~sinkFailed[wsink]
  /\ rows' = [rows EXCEPT ![wsink] = Append(@, wrec)]
  /\ wrote' = [wrote EXCEPT ![wsink] = TRUE]
  /\ UNCHANGED sinkFailed

\* Serialising, writing or flushing fails: nothing, part or all of the row
\* reaches the file, now or at the close.
SinkWriteFails ==
  /\ WriteNext
  /\ ~sinkFailed[wsink]
  /\ rows' \in {rows, [rows EXCEPT ![wsink] = Append(@, wrec)]}
  /\ wrote' = [wrote EXCEPT ![wsink] = FALSE]
  /\ sinkFailed' = [sinkFailed EXCEPT ![wsink] = TRUE]

\* TCD_KPM_FILE_SINK_FAILED: a failed sink takes nothing more.
SinkSkip ==
  /\ WriteNext
  /\ sinkFailed[wsink]
  /\ wrote' = [wrote EXCEPT ![wsink] = FALSE]
  /\ UNCHANGED sinkVars

Written ==
  /\ wpc = "write"
  /\ wsink = Sinks + 1
  /\ wpc' = "account_lock"
  /\ UNCHANGED <<mutex, ringVars, lossVars, stopReq, wrec, wsink, wrote,
                 sinkVars, metricVars>>

\* compose_snapshot_locked: drops are shown as errors of every sink.
Compose(m) ==
  [ok |-> m.ok, error |-> [s \in Sink |-> m.error[s] + dropped],
   depth |-> count, made |-> m.made, removed |-> m.removed]

\* account_file_result for every sink.
Accounted ==
  [ok |-> [s \in Sink |-> metrics.ok[s] + (IF wrote[s] THEN 1 ELSE 0)],
   error |-> [s \in Sink |-> metrics.error[s] + (IF wrote[s] THEN 0 ELSE 1)],
   depth |-> metrics.depth, made |-> metrics.made, removed |-> metrics.removed]

\* Mutant: every attempt is counted as written.
AccountAttempts ==
  /\ wpc = "account" /\ mutex = Worker
  /\ metrics' = [metrics EXCEPT !.ok = [s \in Sink |-> @[s] + 1]]
  /\ failed' = (failed \/ \E s \in Sink : ~wrote[s])
  /\ shot' = Compose(metrics')
  /\ wpc' = IF PrometheusEnabled THEN "publish" ELSE "idle_lock"
  /\ mutex' = Free
  /\ UNCHANGED <<ringVars, dropped, stopReq, wrec, wsink, wrote, sinkVars,
                 published>>

\* The results are counted, then the snapshot is composed.
Account ==
  /\ wpc = "account" /\ mutex = Worker
  /\ metrics' = Accounted
  /\ failed' = (failed \/ \E s \in Sink : ~wrote[s])
  /\ shot' = Compose(Accounted)
  /\ wpc' = IF PrometheusEnabled THEN "publish" ELSE "idle_lock"
  /\ mutex' = Free
  /\ UNCHANGED <<ringVars, dropped, stopReq, wrec, wsink, wrote, sinkVars,
                 published>>

\* tcd_kpm_prometheus_write_atomic renames the complete file into place, or
\* leaves the old one.
Publish ==
  /\ wpc = "publish"
  /\ published' = shot
  /\ wpc' = "publish_lock"
  /\ UNCHANGED <<mutex, ringVars, lossVars, stopReq, wrec, wsink, wrote,
                 sinkVars, metrics, shot>>

\* The failure is marked after the mutex is taken and before it is released;
\* nothing reads the flag in between.
PublishFails ==
  /\ wpc = "publish"
  /\ failed' = TRUE
  /\ wpc' = "publish_lock"
  /\ UNCHANGED <<mutex, ringVars, dropped, stopReq, wrec, wsink, wrote,
                 sinkVars, metricVars>>

\* The mutex is held to count the result (publish_account), then to clear
\* worker_busy (idle).
WorkerUnlock(from, to) ==
  /\ wpc = from /\ mutex = Worker
  /\ mutex' = Free
  /\ wpc' = to
  /\ wrec' = IF to = "lock" THEN NoRecord ELSE wrec
  /\ UNCHANGED <<ringVars, lossVars, stopReq, wsink, wrote, sinkVars,
                 metricVars>>

WorkerRun ==
  \/ WorkerLock("lock", "check") \/ WorkerWait \/ WorkerEnd \/ WorkerTake
  \/ SinkWrite \/ SinkWriteFails \/ SinkSkip \/ Written
  \/ WorkerLock("account_lock", "account") \/ Account
  \/ Publish \/ PublishFails
  \/ WorkerLock("publish_lock", "publish_account")
  \/ WorkerUnlock("publish_account", "idle_lock")
  \/ WorkerLock("idle_lock", "idle") \/ WorkerUnlock("idle", "lock")

-----------------------------------------------------------------------------
(* tcd_kpm_output_pipeline_shutdown_and_destroy, called by main.            *)

MainLock ==
  /\ mutex = Free
  /\ mutex' = Main
  /\ UNCHANGED <<ringVars, lossVars, stopReq, workerVars, sinkVars, metricVars>>

\* set_runtime_counters, holding the mutex.
SetCounters(made, removed) ==
  /\ mutex = Main
  /\ metrics' = [ok |-> metrics.ok, error |-> metrics.error,
                 depth |-> metrics.depth, made |-> made, removed |-> removed]
  /\ mutex' = Free
  /\ UNCHANGED <<ringVars, lossVars, stopReq, workerVars, sinkVars, shot,
                 published>>

\* Mutant: the worker is not woken.
RequestStopSilent ==
  /\ mutex = Main
  /\ stopReq' = TRUE
  /\ mutex' = Free
  /\ UNCHANGED <<ringVars, lossVars, workerVars, sinkVars, metricVars>>

\* stop_requested, and a broadcast to the worker.
RequestStop ==
  /\ mutex = Main
  /\ stopReq' = TRUE
  /\ WakeWorker
  /\ mutex' = Free
  /\ UNCHANGED <<ringVars, lossVars, wrec, wsink, wrote, sinkVars, metricVars>>

\* The sinks are closed after the worker was joined. From here on a record
\* submitted by a late callback is dropped whether it finds the mutex taken
\* or the pipeline stopped, so main's short critical sections are one step.
CloseSinks ==
  /\ mutex = Free
  /\ \E bad \in {FALSE, Sinks > 0} :
       failed' = (failed \/ bad \/ \E s \in Sink : sinkFailed[s])
  /\ UNCHANGED <<mutex, ringVars, dropped, stopReq, workerVars, sinkVars,
                 metricVars>>

\* Mutant: the last snapshot leaves the drops out.
LastSnapshotRaw ==
  /\ mutex = Free
  /\ published' = [metrics EXCEPT !.depth = count]
  /\ UNCHANGED <<mutex, ringVars, lossVars, stopReq, workerVars, sinkVars,
                 metrics, shot>>

\* The last snapshot; not published if disabled or if the write fails.
LastSnapshot ==
  /\ mutex = Free
  /\ \/ /\ PrometheusEnabled
        /\ published' = Compose(metrics)
        /\ UNCHANGED failed
     \/ /\ PrometheusEnabled => failed' = TRUE
        /\ ~PrometheusEnabled => UNCHANGED failed
        /\ UNCHANGED published
  /\ UNCHANGED <<mutex, ringVars, dropped, stopReq, workerVars, sinkVars,
                 metrics, shot>>

\* success of the shutdown.
ShutdownOk == dropped = 0 /\ ~failed
=============================================================================
