----------------------------- MODULE KpmCollector -----------------------------
(***************************************************************************)
(* The KPM read-only collector: its main thread, which subscribes to one    *)
(* E2 node, polls for a bound and shuts everything down again, and the      *)
(* FlexRIC threads that run tcd_kpm_flexric_callback meanwhile.             *)
(*                                                                          *)
(* FlexRIC is external: it may run a callback from the moment it accepted   *)
(* the subscription until try_stop_xapp_api has succeeded, and that call    *)
(* succeeds only when no callback is running. stop_xapp_bounded gives up    *)
(* after TCD_KPM_STOP_TIMEOUT_MS; the context is then destroyed while       *)
(* callbacks may still hold a pointer to it.                                *)
(***************************************************************************)
EXTENDS OutputPipeline, FiniteSets

CONSTANTS
  MaxIndications,  \* TCD_KPM_MAX_INDICATIONS, 0 disables
  HasDuration,     \* TCD_KPM_DURATION_SECONDS is not 0
  MaxRecords,      \* records of one indication (bound)
  MaxSequence      \* indications delivered (bound)

\* tcd_kpm_collector_config_has_finite_limit.
ASSUME CollectorAssumption ==
  /\ MaxIndications \in Nat
  /\ HasDuration \in BOOLEAN
  /\ MaxIndications > 0 \/ HasDuration
  /\ IsFiniteSet(Callbacks)
  /\ MaxRecords \in Nat
  /\ MaxSequence \in Nat

LifecycleState ==
  {"created", "api_initialised", "ric_connected", "node_discovered",
   "node_selected", "subscription_active", "receiving", "stop_requested",
   "subscription_removed", "failed", "stopped"}

MainPc == {"start", "discover", "select", "report", "poll", "poll_stop",
           "remove", "uninstall", "stop_api", "failure", "fail_uninstall",
           "fail_stop", "destroy", "counters", "shutdown", "request", "join",
           "snapshot", "free", "leave", "exited"}
CallbackPc == {"idle", "entered", "record", "submit", "locked", "refused",
               "end"}

VARIABLES
  main,        \* where main is
  lifecycle,   \* lifecycle->state and lifecycle->subscription_active
  code,        \* the exit status main is heading for
  exit,        \* -1 while running, else the exit status; 139 for SIGSEGV
  ric,         \* the xApp API: down, up, subscribed or removed
  handle,      \* subscription_created in main
  made, removed,  \* counters.subscriptions_created, subscriptions_removed
  timedOut,    \* stop_xapp_bounded gave up
  expired,     \* duration_seconds have passed
  active,      \* active_context is not NULL
  context,     \* the callback context: none, live or zeroed
  pointer,     \* context->output_pipeline is not NULL
  sequence,    \* next_indication_sequence, and indications_received
  created,     \* counters.records_created
  stopFlag,    \* stop_requested of the context
  cpc, cseq, cleft  \* per callback: place, its sequence, records to come

ricVars == <<ric, handle, made, removed, timedOut>>
contextVars == <<active, context, pointer>>
indicationVars == <<sequence, created, stopFlag>>
callbackVars == <<cpc, cseq, cleft>>
mainVars == <<main, lifecycle, code, exit>>
vars == <<pipelineVars, mainVars, ricVars, expired, contextVars,
          indicationVars, callbackVars>>

Init ==
  /\ PipelineInit
  /\ main = "start" /\ lifecycle = [state |-> "created", active |-> FALSE]
  /\ code = 0 /\ exit = -1
  /\ ric = "down" /\ handle = FALSE /\ made = 0 /\ removed = 0
  /\ timedOut = FALSE /\ expired = FALSE
  /\ active = FALSE /\ context = "none" /\ pointer = FALSE
  /\ sequence = 0 /\ created = 0 /\ stopFlag = FALSE
  /\ cpc = [c \in Callbacks |-> "idle"]
  /\ cseq = [c \in Callbacks |-> 0] /\ cleft = [c \in Callbacks |-> 0]

-----------------------------------------------------------------------------
(* lifecycle.c                                                              *)

\* tcd_kpm_lifecycle_can_transition.
CanTransition(l, next) ==
  \/ /\ next = "failed"
     /\ l.state \notin {"failed", "subscription_removed", "stopped"}
  \/ /\ next = "stop_requested"
     /\ l.state \in {"api_initialised", "ric_connected", "node_discovered",
                     "node_selected", "subscription_active", "receiving"}
  \/ <<l.state, next>> \in {<<"created", "api_initialised">>,
                            <<"api_initialised", "ric_connected">>,
                            <<"ric_connected", "node_discovered">>,
                            <<"node_discovered", "node_selected">>,
                            <<"node_selected", "subscription_active">>,
                            <<"subscription_active", "receiving">>,
                            <<"subscription_removed", "stopped">>}
  \/ /\ l.state \in {"stop_requested", "failed"}
     /\ \/ next = "subscription_removed" /\ l.active
        \/ next = "stopped" /\ ~l.active

\* tcd_kpm_lifecycle_transition: a refused transition changes nothing.
Moved(l, next) ==
  IF CanTransition(l, next)
  THEN [state |-> next,
        active |-> \/ next = "subscription_active"
                   \/ l.active /\ next # "subscription_removed"]
  ELSE l

\* main's transition(): a refused one goes to the failure label.
MainTransition(next, pc) ==
  /\ lifecycle' = Moved(lifecycle, next)
  /\ main' = IF CanTransition(lifecycle, next) THEN pc ELSE "failure"

-----------------------------------------------------------------------------
(* main, up to the subscription.                                            *)

ConfigError ==
  /\ main = "start"
  /\ main' = "exited" /\ exit' = 64
  /\ UNCHANGED <<pipelineVars, lifecycle, code, ricVars, expired,
                 contextVars, indicationVars, callbackVars>>

\* init_xapp_api and the first two transitions; no other thread runs yet.
ApiInit ==
  /\ main = "start"
  /\ ric' = "up"
  /\ lifecycle' = Moved(Moved(lifecycle, "api_initialised"), "ric_connected")
  /\ main' = "discover"
  /\ UNCHANGED <<pipelineVars, code, exit, handle, made,
                 removed, timedOut, expired, contextVars, indicationVars,
                 callbackVars>>

\* A node appears within discovery_timeout_seconds.
NodeDiscovered ==
  /\ main = "discover"
  /\ MainTransition("node_discovered", "select")
  /\ UNCHANGED <<pipelineVars, code, exit, ricVars, expired, contextVars,
                 indicationVars, callbackVars>>

\* The steps of main that go to the failure label: discovery times out, no or
\* several nodes match, FlexRIC refuses the subscription, the monotonic clock
\* cannot be read.
MainFails ==
  /\ \/ main \in {"discover", "select", "poll", "poll_stop"}
     \/ main = "report" /\ ric = "up"
  /\ main' = "failure"
  /\ UNCHANGED <<pipelineVars, lifecycle, code, exit, ricVars, expired,
                 contextVars, indicationVars, callbackVars>>

\* The node is selected, but the request cannot be built or the context not be
\* initialised (a sink does not open): what was opened is closed again.
SelectedFails ==
  /\ main = "select"
  /\ lifecycle' = Moved(lifecycle, "node_selected")
  /\ main' = "failure"
  /\ UNCHANGED <<pipelineVars, code, exit, ricVars, expired, contextVars,
                 indicationVars, callbackVars>>

\* The node is selected, the context initialised with an open pipeline and a
\* running worker, and the callback installed.
ContextReady ==
  /\ main = "select"
  /\ MainTransition("node_selected", "report")
  /\ context' = "live" /\ pointer' = TRUE /\ active' = TRUE
  /\ wpc' = "lock"
  /\ UNCHANGED <<mutex, ringVars, lossVars, stopReq, wrec, wsink, wrote,
                 sinkVars, metricVars, code, exit, ricVars, expired,
                 indicationVars, callbackVars>>

\* External: FlexRIC accepts the subscription; callbacks may come before
\* report_sm_xapp_api has returned.
RicAccepts ==
  /\ main = "report" /\ ric = "up"
  /\ ric' = "subscribed"
  /\ UNCHANGED <<pipelineVars, mainVars, handle, made, removed, timedOut,
                 expired, contextVars, indicationVars, callbackVars>>

ReportDone ==
  /\ main = "report" /\ ric = "subscribed"
  /\ handle' = TRUE /\ made' = made + 1
  /\ MainTransition("subscription_active", "poll")
  /\ UNCHANGED <<pipelineVars, code, exit, ric, removed, timedOut, expired,
                 contextVars, indicationVars, callbackVars>>

-----------------------------------------------------------------------------
(* main, polling and stopping.                                              *)

\* indications_received is read before the stop flag.
PollReceiving ==
  /\ main = "poll"
  /\ IF sequence > 0 /\ lifecycle.state = "subscription_active"
     THEN MainTransition("receiving", "poll_stop")
     ELSE main' = "poll_stop" /\ UNCHANGED lifecycle
  /\ UNCHANGED <<pipelineVars, code, exit, ricVars, expired, contextVars,
                 indicationVars, callbackVars>>

PollAgain ==
  /\ main = "poll_stop"
  /\ ~stopFlag /\ ~expired
  /\ main' = "poll"
  /\ UNCHANGED <<pipelineVars, lifecycle, code, exit, ricVars, expired,
                 contextVars, indicationVars, callbackVars>>

PollEnds ==
  /\ main = "poll_stop"
  /\ stopFlag \/ expired
  /\ MainTransition("stop_requested", "remove")
  /\ UNCHANGED <<pipelineVars, code, exit, ricVars, expired, contextVars,
                 indicationVars, callbackVars>>

\* The monotonic clock.
DurationPasses ==
  /\ HasDuration /\ ~expired
  /\ main \in {"poll", "poll_stop"}
  /\ expired' = TRUE
  /\ UNCHANGED <<pipelineVars, mainVars, ricVars, contextVars, indicationVars,
                 callbackVars>>

\* rm_report_sm_xapp_api. Indications already received may still be handed
\* to the callback.
RemoveSubscription ==
  /\ main = "remove"
  /\ ric' = "removed" /\ handle' = FALSE /\ removed' = removed + 1
  /\ MainTransition("subscription_removed", "uninstall")
  /\ UNCHANGED <<pipelineVars, code, exit, made, timedOut, expired,
                 contextVars, indicationVars, callbackVars>>

\* active_context becomes NULL; a callback that has loaded it goes on.
Uninstall ==
  /\ main \in {"uninstall", "fail_uninstall"}
  /\ active' = FALSE
  /\ main' = IF main = "uninstall" THEN "stop_api" ELSE "fail_stop"
  /\ UNCHANGED <<pipelineVars, lifecycle, code, exit, ricVars, expired,
                 context, pointer, indicationVars, callbackVars>>

Quiet == \A c \in Callbacks : cpc[c] = "idle"

\* Mutant: try_stop_xapp_api's answer is not awaited.
StopApiImpatient ==
  /\ main = "stop_api"
  /\ ric' = "down"
  /\ lifecycle' = Moved(lifecycle, "stopped")
  /\ code' = IF CanTransition(lifecycle, "stopped") THEN code ELSE 1
  /\ main' = "destroy"
  /\ UNCHANGED <<pipelineVars, exit, handle, made, removed, timedOut,
                 expired, contextVars, indicationVars, callbackVars>>

\* try_stop_xapp_api succeeds; main prints COLLECTOR_RESULT=PASS. A refused
\* transition would go to failure_without_api_stop.
StopApi ==
  /\ main = "stop_api"
  /\ Quiet
  /\ ric' = "down"
  /\ lifecycle' = Moved(lifecycle, "stopped")
  /\ code' = IF CanTransition(lifecycle, "stopped") THEN code ELSE 1
  /\ main' = "destroy"
  /\ UNCHANGED <<pipelineVars, exit, handle, made, removed, timedOut,
                 expired, contextVars, indicationVars, callbackVars>>

\* goto failure_without_api_stop.
StopApiTimeout ==
  /\ main = "stop_api"
  /\ timedOut' = TRUE
  /\ code' = 1
  /\ main' = "destroy"
  /\ UNCHANGED <<pipelineVars, lifecycle, exit, ric, handle, made, removed,
                 expired, contextVars, indicationVars, callbackVars>>

\* failure: the lifecycle fails, then a subscription is removed.
Failure ==
  /\ main = "failure"
  /\ code' = 1
  /\ main' = "fail_uninstall"
  /\ IF handle
     THEN /\ ric' = "removed" /\ handle' = FALSE /\ removed' = removed + 1
          /\ lifecycle' = Moved(Moved(lifecycle, "failed"),
                                "subscription_removed")
     ELSE /\ lifecycle' = Moved(lifecycle, "failed")
          /\ UNCHANGED <<ric, handle, removed>>
  /\ UNCHANGED <<pipelineVars, exit, made, timedOut, expired, contextVars,
                 indicationVars, callbackVars>>

\* stop_xapp_bounded on the failure path: a timeout is reported and ignored.
FailureStop ==
  /\ main = "fail_stop"
  /\ \/ Quiet /\ ric' = "down" /\ UNCHANGED timedOut
     \/ timedOut' = TRUE /\ UNCHANGED ric
  /\ lifecycle' = IF lifecycle.state \in {"failed", "subscription_removed"}
                  THEN Moved(lifecycle, "stopped") ELSE lifecycle
  /\ main' = "destroy"
  /\ UNCHANGED <<pipelineVars, code, exit, handle, made, removed, expired,
                 contextVars, indicationVars, callbackVars>>

-----------------------------------------------------------------------------
(* main, destroying the callback context and leaving.                       *)

Destroying(from, to) ==
  /\ main = from
  /\ main' = to
  /\ UNCHANGED <<lifecycle, code, exit, ricVars, expired, indicationVars,
                 callbackVars>>

NoContext ==
  /\ context = "none"
  /\ Destroying("destroy", "leave")
  /\ UNCHANGED <<pipelineVars, contextVars>>

CountersLock ==
  /\ context = "live"
  /\ MainLock
  /\ Destroying("destroy", "counters")
  /\ UNCHANGED contextVars

\* set_runtime_counters, then shutdown_and_destroy clears the pointer.
CountersSet ==
  /\ SetCounters(made, removed)
  /\ pointer' = FALSE
  /\ Destroying("counters", "shutdown")
  /\ UNCHANGED <<active, context>>

ShutdownLock ==
  /\ MainLock
  /\ Destroying("shutdown", "request")
  /\ UNCHANGED contextVars

ShutdownRequest ==
  /\ RequestStop
  /\ Destroying("request", "join")
  /\ UNCHANGED contextVars

\* pthread_join, then the sinks are closed.
ShutdownJoin ==
  /\ wpc = "done"
  /\ CloseSinks
  /\ Destroying("join", "snapshot")
  /\ UNCHANGED contextVars

ShutdownSnapshot ==
  /\ LastSnapshot
  /\ Destroying("snapshot", "free")
  /\ UNCHANGED contextVars

\* The pipeline is freed and the context zeroed.
Destroy ==
  /\ main = "free"
  /\ code' = IF ShutdownOk THEN code ELSE 1
  /\ main' = "leave"
  /\ context' = "zeroed"
  /\ UNCHANGED <<pipelineVars, lifecycle, exit, ricVars, expired, active,
                 pointer, indicationVars, callbackVars>>

Leave ==
  /\ main = "leave"
  /\ exit' = code
  /\ main' = "exited"
  /\ UNCHANGED <<pipelineVars, lifecycle, code, ricVars, expired,
                 contextVars, indicationVars, callbackVars>>

\* The steps of main that leave the pipeline alone, and the others.
MainControl ==
  \/ ConfigError \/ ApiInit \/ NodeDiscovered \/ MainFails \/ SelectedFails
  \/ ReportDone \/ PollReceiving \/ PollAgain \/ PollEnds
  \/ RemoveSubscription \/ Uninstall \/ StopApi \/ StopApiTimeout
  \/ Failure \/ FailureStop \/ NoContext \/ Destroy \/ Leave

MainShutdown ==
  \/ CountersLock \/ CountersSet \/ ShutdownLock \/ ShutdownRequest
  \/ ShutdownJoin \/ ShutdownSnapshot

MainStep == MainControl \/ ContextReady \/ MainShutdown

-----------------------------------------------------------------------------
(* tcd_kpm_flexric_callback and retain_record.                              *)

Running == main # "exited"

Callback(c, from, to) ==
  /\ Running
  /\ cpc[c] = from
  /\ cpc' = [cpc EXCEPT ![c] = to]
  /\ UNCHANGED <<mainVars, ricVars, expired, contextVars>>

\* After a record: the next one, or the end of the indication.
AfterRecord(c) == IF cleft[c] > 0 THEN "record" ELSE "end"

\* active_context is loaded; a callback that finds NULL returns at once.
CallbackEnter(c) ==
  /\ ric \in {"subscribed", "removed"}
  /\ active
  /\ sequence < MaxSequence
  /\ Callback(c, "idle", "entered")
  /\ UNCHANGED <<pipelineVars, indicationVars, cseq, cleft>>

\* Not a KPM v3 indication: only callback_errors changes.
CallbackReject(c) ==
  /\ context = "live"
  /\ Callback(c, "entered", "idle")
  /\ UNCHANGED <<pipelineVars, indicationVars, cseq, cleft>>

\* The indication takes its number; n records are going to be made of it.
CallbackSequence(c) ==
  /\ context = "live"
  /\ \E n \in 0..MaxRecords :
       /\ Callback(c, "entered", IF n > 0 THEN "record" ELSE "end")
       /\ cleft' = [cleft EXCEPT ![c] = n]
  /\ sequence' = sequence + 1
  /\ cseq' = [cseq EXCEPT ![c] = sequence + 1]
  /\ UNCHANGED <<pipelineVars, created, stopFlag>>

\* retain_record: the record is counted and the pipeline pointer read. The
\* copy kept for the last-record print is left out.
CallbackRecord(c) ==
  /\ context = "live"
  /\ created' = created + 1
  /\ cleft' = [cleft EXCEPT ![c] = @ - 1]
  /\ Callback(c, "record",
              IF pointer THEN "submit"
              ELSE IF cleft[c] > 1 THEN "record" ELSE "end")
  /\ UNCHANGED <<pipelineVars, sequence, stopFlag, cseq>>

CallbackRec(c) == <<cseq[c], cleft[c]>>

\* Validation fails, or pthread_mutex_trylock meets a holder.
CallbackDrops(c) ==
  /\ context = "live"
  /\ SubmitDropped
  /\ Callback(c, "submit", AfterRecord(c))
  /\ UNCHANGED <<indicationVars, cseq, cleft>>

CallbackLock(c) ==
  /\ context = "live"
  /\ SubmitLock(c)
  /\ Callback(c, "submit", "locked")
  /\ UNCHANGED <<indicationVars, cseq, cleft>>

CallbackStore(c) ==
  /\ context = "live"
  /\ SubmitStore(c, CallbackRec(c))
  /\ Callback(c, "locked", AfterRecord(c))
  /\ UNCHANGED <<indicationVars, cseq, cleft>>

CallbackRefused(c) ==
  /\ context = "live"
  /\ SubmitRefuse(c)
  /\ Callback(c, "locked", "refused")
  /\ UNCHANGED <<indicationVars, cseq, cleft>>

CallbackCountsDrop(c) ==
  /\ context = "live"
  /\ SubmitDropped
  /\ Callback(c, "refused", AfterRecord(c))
  /\ UNCHANGED <<indicationVars, cseq, cleft>>

\* The bound is compared with this indication's number; a zeroed context has
\* no bound.
CallbackEnd(c) ==
  /\ Callback(c, "end", "idle")
  /\ stopFlag' = (stopFlag \/ /\ context = "live"
                              /\ MaxIndications > 0
                              /\ cseq[c] >= MaxIndications)
  /\ UNCHANGED <<pipelineVars, sequence, created, cseq, cleft>>

\* A callback that uses the zeroed context dereferences the NULL counters, or
\* uses the freed pipeline: it crashes the process, or main leaves first.
CallbackCrash(c) ==
  /\ Running
  /\ context = "zeroed"
  /\ cpc[c] \notin {"idle", "end"}
  /\ exit' = 139
  /\ main' = "exited"
  /\ UNCHANGED <<pipelineVars, lifecycle, code, ricVars, expired,
                 contextVars, indicationVars, callbackVars>>

CallbackStep(c) ==
  \/ CallbackReject(c) \/ CallbackSequence(c) \/ CallbackRecord(c)
  \/ CallbackDrops(c) \/ CallbackLock(c) \/ CallbackStore(c)
  \/ CallbackRefused(c) \/ CallbackCountsDrop(c) \/ CallbackEnd(c)

\* The process and its worker end together.
WorkerStep ==
  /\ Running
  /\ WorkerRun
  /\ UNCHANGED <<mainVars, ricVars, expired, contextVars, indicationVars,
                 callbackVars>>

WorkerWakes ==
  /\ Running
  /\ WorkerSpurious
  /\ UNCHANGED <<mainVars, ricVars, expired, contextVars, indicationVars,
                 callbackVars>>

Next ==
  \/ MainStep \/ RicAccepts \/ DurationPasses \/ WorkerStep \/ WorkerWakes
  \/ \E c \in Callbacks :
       CallbackEnter(c) \/ CallbackStep(c) \/ CallbackCrash(c)

Spec == Init /\ [][Next]_vars

\* The threads of the process are scheduled, a mutex that is free again and
\* again is granted to main, and the clock advances. Nothing is assumed of
\* FlexRIC: it may never accept, and never call back.
Fairness ==
  /\ SF_vars(CountersLock) /\ SF_vars(ShutdownLock)
  /\ WF_vars(MainStep) /\ WF_vars(WorkerStep) /\ WF_vars(DurationPasses)
  /\ \A c \in Callbacks : WF_vars(CallbackStep(c))

FairSpec == Spec /\ Fairness

-----------------------------------------------------------------------------
(* Properties.                                                              *)

RingTypeOK ==
  /\ slots \in [Slot -> Record \cup {NoRecord}]
  /\ head \in Slot /\ tail \in Slot /\ count \in 0..Capacity
  /\ accepted \in Seq(Record)

WorkerTypeOK ==
  /\ wpc \in WorkerPc /\ wrec \in Record \cup {NoRecord}
  /\ wsink \in 1..(Sinks + 1) /\ wrote \in [Sink -> BOOLEAN]

OutputTypeOK ==
  /\ rows \in [Sink -> Seq(Record)] /\ sinkFailed \in [Sink -> BOOLEAN]
  /\ metrics \in Snapshot /\ shot \in Snapshot /\ published \in Snapshot

PipelineTypeOK ==
  /\ RingTypeOK /\ WorkerTypeOK /\ OutputTypeOK
  /\ mutex \in Callbacks \cup {Worker, Main, Free}
  /\ dropped \in Nat /\ failed \in BOOLEAN /\ stopReq \in BOOLEAN

MainTypeOK ==
  /\ main \in MainPc
  /\ lifecycle \in [state : LifecycleState, active : BOOLEAN]
  /\ code \in {0, 1} /\ exit \in {-1, 0, 1, 64, 139}
  /\ ric \in {"down", "up", "subscribed", "removed"}
  /\ handle \in BOOLEAN /\ made \in Nat /\ removed \in Nat
  /\ timedOut \in BOOLEAN /\ expired \in BOOLEAN

CallbackTypeOK ==
  /\ active \in BOOLEAN /\ context \in {"none", "live", "zeroed"}
  /\ pointer \in BOOLEAN
  /\ sequence \in Nat /\ created \in Nat /\ stopFlag \in BOOLEAN
  /\ cpc \in [Callbacks -> CallbackPc]
  /\ cseq \in [Callbacks -> Nat] /\ cleft \in [Callbacks -> Nat]

\* Types; in particular the ring never holds more than Capacity records and
\* its indexes stay inside it.
TypeOK == PipelineTypeOK /\ MainTypeOK /\ CallbackTypeOK

\* The records the worker has taken out of the ring.
Taken == Len(accepted) - count

\* The ring is a queue: what it holds, from queue_head on, is what was
\* accepted last, in order, whoever stored it and however often the indexes
\* wrapped; and the record the worker holds is the one taken last.
RingIsFifo ==
  /\ tail = (head + count) % Capacity
  /\ \A i \in 0..(count - 1) :
       slots[(head + i) % Capacity] = accepted[Taken + i + 1]
  /\ wrec # NoRecord => Taken > 0 /\ wrec = accepted[Taken]

\* A durable file is a prefix of the accepted records, so it has no gap, no
\* duplicate and no reordering, and a failed sink gains nothing. Unless one
\* has failed, two files are never more than the row being written apart.
SinksHoldPrefix ==
  /\ \A s \in Sink :
       /\ Len(rows[s]) <= Taken
       /\ \A k \in 1..Len(rows[s]) : rows[s][k] = accepted[k]
  /\ \A s, t \in Sink :
       s < t /\ ~sinkFailed[s] /\ ~sinkFailed[t] =>
         Len(rows[s]) - Len(rows[t]) \in {0, 1}

\* Exit status 0 means that every record made of an indication is in every
\* durable file: nothing was dropped, refused, left in the queue or lost by
\* a sink, and no callback was still going to make one.
ExitZeroIsComplete ==
  exit = 0 =>
    /\ Quiet
    /\ \A s \in Sink : ~sinkFailed[s] /\ Len(rows[s]) = created

\* The text file never claims a row that is not in the file of its sink, and
\* after exit status 0 it shows the final counts.
MetricsAreTrue ==
  /\ \A s \in Sink : published.ok[s] <= Len(rows[s])
  /\ exit = 0 /\ PrometheusEnabled =>
       /\ published.depth = 0
       /\ published.made = 1 /\ published.removed = 1
       /\ \A s \in Sink : published.ok[s] = created /\ published.error[s] = 0

\* Snapshots are published in the order they were taken: a counter of the
\* text file never goes back.
MetricsNeverGoBack ==
  [][\A s \in Sink : /\ published.ok[s] <= published'.ok[s]
                     /\ published.error[s] <= published'.error[s]]_vars

\* Whichever way main leaves, the subscription it created is removed, and
\* the lifecycle has ended, short of "stopped" only after a stop timeout.
SubscriptionEnds ==
  exit \in {0, 1} =>
    /\ ric # "subscribed" /\ ~handle /\ made = removed
    /\ ~lifecycle.active
    /\ \/ lifecycle.state = "stopped"
       \/ timedOut /\ lifecycle.state = "subscription_removed"

\* No callback runs on the destroyed context, so none crashes the process,
\* unless stop_xapp_bounded gave up waiting for it; and then, even if main gets
\* to its end over the running callbacks, the collector does not exit 0.
NoCallbackAfterDestroy ==
  /\ context = "zeroed" /\ ~timedOut => Quiet
  /\ exit = 139 => timedOut
  /\ exit = 0 => ~timedOut /\ Quiet

\* The collector ends: polling is bounded, the stop is bounded, and the
\* worker is woken, drains the queue and is joined.
CollectorEnds == <>(main = "exited")
=============================================================================
