----------------------- MODULE ExperimentTransaction -----------------------
(***************************************************************************)
(* The Prompt 12R transaction validator (prompt12r-validate-transaction-   *)
(* transition.py).  An experiment is a chain of JSON records; each call of *)
(* the validator is handed the last accepted record and a proposed one and *)
(* accepts it or fails closed.  The chain is the state; a step is one      *)
(* accepted proposal, a rejected proposal changes nothing.                 *)
(*                                                                         *)
(* A record is proposed part by part (state, failure, trigger tuple,       *)
(* write-once fields, results): a proposal is any combination of values    *)
(* the JSON Schema allows.  The immutable fields are one `identity', but   *)
(* initial_prb_required is kept apart because it is compared.  Decision    *)
(* times only have to increase: they are the order of the chain.           *)
(***************************************************************************)
CONSTANTS Identities,   \* values of the immutable fields but the PRB
          Prbs,         \* initial_prb_required and initial_prb_observed
          Names,        \* values of the write-once identity fields
          Reasons,      \* failure reasons other than "NONE"
          NULL          \* JSON null

ASSUME NullAssumption == NULL \notin Names \union Prbs
ASSUME ReasonAssumption == "NONE" \notin Reasons

VARIABLES rec,          \* the last accepted record
          visited,      \* history: the states of the chain
          admitted      \* history: the write-once fields at PRESTEP_ADMITTED

vars == <<rec, visited, admitted>>

(***************************************************************************)
(* The states, by what a record of that state must already hold.           *)
(***************************************************************************)
Applied == {"APPLIED_VERIFIED", "POSTSTEP_COMPLETE"}
Triggered == {"TRIGGERED_EXACTLY_ONCE"} \union Applied
Admitted == {"PRESTEP_ADMITTED"} \union Triggered
Ready == {"WORKLOAD_READY"} \union Admitted
Armed == {"ACTUATOR_ARMED"} \union Ready
Verified == {"INITIAL_STATE_VERIFIED"} \union Armed
Qualified == {"PLATFORM_QUALIFIED"} \union Verified
ActiveStates == {"NEW", "DEPLOYED"} \union Qualified

FAILURE_STATES == {"ABORTED_PRETRIGGER", "INVALID_POSTTRIGGER"}
PRETRIGGER_STATES == (ActiveStates \ Triggered) \union {"ABORTED_PRETRIGGER"}
ClosedStates == {"CLOSED", "DESTROYED"}
States == ActiveStates \union FAILURE_STATES \union ClosedStates
            \union {"SCIENTIFICALLY_ADJUDICATED"}

LEGAL_TRANSITIONS(s) ==
    CASE s = "NEW" -> {"DEPLOYED", "ABORTED_PRETRIGGER"}
      [] s = "DEPLOYED" -> {"PLATFORM_QUALIFIED", "ABORTED_PRETRIGGER"}
      [] s = "PLATFORM_QUALIFIED" ->
             {"INITIAL_STATE_VERIFIED", "ABORTED_PRETRIGGER"}
      [] s = "INITIAL_STATE_VERIFIED" ->
             {"ACTUATOR_ARMED", "ABORTED_PRETRIGGER"}
      [] s = "ACTUATOR_ARMED" -> {"WORKLOAD_READY", "ABORTED_PRETRIGGER"}
      [] s = "WORKLOAD_READY" -> {"PRESTEP_ADMITTED", "ABORTED_PRETRIGGER"}
      [] s = "PRESTEP_ADMITTED" ->
             {"TRIGGERED_EXACTLY_ONCE", "ABORTED_PRETRIGGER",
              "INVALID_POSTTRIGGER"}
      [] s = "TRIGGERED_EXACTLY_ONCE" ->
             {"APPLIED_VERIFIED", "INVALID_POSTTRIGGER"}
      [] s = "APPLIED_VERIFIED" ->
             {"POSTSTEP_COMPLETE", "INVALID_POSTTRIGGER"}
      [] s = "POSTSTEP_COMPLETE" ->
             {"SCIENTIFICALLY_ADJUDICATED", "INVALID_POSTTRIGGER"}
      [] s = "INVALID_POSTTRIGGER" -> {"SCIENTIFICALLY_ADJUDICATED"}
      [] s = "SCIENTIFICALLY_ADJUDICATED" -> {"CLOSED"}
      [] s = "ABORTED_PRETRIGGER" -> {"CLOSED"}
      [] s = "CLOSED" -> {"DESTROYED"}
      [] OTHER -> {}

(***************************************************************************)
(* The parts of a record.                                                  *)
(***************************************************************************)
WRITE_ONCE_FIELDS == {"platform_qualification_identity",
    "runtime_incarnation_identity", "initial_prb_observed",
    "receiver_workload_identity", "actuator_identity",
    "applied_readback_identity", "closeout_checksum_identity"}

Failures == [class : {"NONE", "PLATFORM_FAILURE", "TOOLING_FAILURE"},
             reason : Reasons \union {"NONE"}]

Triggers == [attempts : {0, 1}, successes : {0, 1},
             consumed : {"NO", "YES", "UNKNOWN"},
             replay : {"NOT_APPLICABLE", "NEVER_REPEAT",
                       "NEVER_AUTOMATICALLY_REPLAY"}]

\* The two gate results are only compared with PASS: FAIL is NOT_EVALUATED too.
Results == [precontrol : {"PASS", "FAIL"}, poststep : {"PASS", "FAIL"},
            adjudication : {"NOT_EVALUATED", "VALID", "INVALID"}]

\* What the schema allows in the write-once fields: null or a nonempty value.
Name == Names \union {NULL}

Fields == [platform_qualification_identity : Name,
           runtime_incarnation_identity : Name,
           initial_prb_observed : Prbs \union {NULL},
           receiver_workload_identity : Name, actuator_identity : Name,
           applied_readback_identity : Name,
           closeout_checksum_identity : Name]

Unset == [platform_qualification_identity |-> NULL,
          runtime_incarnation_identity |-> NULL,
          initial_prb_observed |-> NULL, receiver_workload_identity |-> NULL,
          actuator_identity |-> NULL, applied_readback_identity |-> NULL,
          closeout_checksum_identity |-> NULL]

NOT_TRIGGERED == [attempts |-> 0, successes |-> 0, consumed |-> "NO",
                  replay |-> "NOT_APPLICABLE"]
CONFIRMED == [attempts |-> 1, successes |-> 1, consumed |-> "YES",
              replay |-> "NEVER_REPEAT"]
AMBIGUOUS == [attempts |-> 1, successes |-> 0, consumed |-> "UNKNOWN",
              replay |-> "NEVER_AUTOMATICALLY_REPLAY"]

(***************************************************************************)
(* The schema's conditions on a record of state s, and the validator's     *)
(* (validate_record_state_invariants), part by part.                       *)
(***************************************************************************)
SchemaTrigger(s, t) ==
    /\ s \in PRETRIGGER_STATES =>
           t.attempts = 0 /\ t.successes = 0 /\ t.consumed = "NO"
    /\ s = "NEW" => t = NOT_TRIGGERED
    /\ s \in Triggered => t = CONFIRMED
    /\ s = "INVALID_POSTTRIGGER" => t \in {CONFIRMED, AMBIGUOUS}

SchemaFailure(s, f) ==
    /\ f.class = "NONE" <=> f.reason = "NONE"
    /\ s \in FAILURE_STATES => f.class # "NONE"

StateFailure(s, f) ==
    /\ s \in ActiveStates => f.class = "NONE" /\ f.reason = "NONE"
    /\ s \in FAILURE_STATES => f.class # "NONE" /\ f.reason # "NONE"

StateTrigger(s, t) ==
    /\ s \in PRETRIGGER_STATES => t = NOT_TRIGGERED
    /\ s = "TRIGGERED_EXACTLY_ONCE" => t = CONFIRMED

StateFields(s, prb, i) ==
    /\ s \in Qualified => /\ i.platform_qualification_identity # NULL
                          /\ i.runtime_incarnation_identity # NULL
    /\ s \in Verified => i.initial_prb_observed = prb
    /\ s \in Armed => i.actuator_identity # NULL
    /\ s \in Ready => i.receiver_workload_identity # NULL
    /\ s \in Applied => i.applied_readback_identity # NULL
    /\ s \in ClosedStates => i.closeout_checksum_identity # NULL

StateResults(s, r) ==
    /\ s \in Admitted => r.precontrol = "PASS"
    /\ s = "POSTSTEP_COMPLETE" => r.poststep = "PASS"
    /\ s = "SCIENTIFICALLY_ADJUDICATED" => r.adjudication # "NOT_EVALUATED"

(***************************************************************************)
(* Continuity between the previous record p and the proposed parts.        *)
(***************************************************************************)
\* Mutant: recording a post-trigger failure may rewrite write-once fields.
IdentityContinuityUnlessInvalid(p, s, i) ==
    s # "INVALID_POSTTRIGGER" =>
        \A f \in WRITE_ONCE_FIELDS : p.fields[f] # NULL => i[f] = p.fields[f]

validate_identity_continuity(p, s, i) ==
    \A f \in WRITE_ONCE_FIELDS : p.fields[f] # NULL => i[f] = p.fields[f]

validate_failure_continuity(p, s, f) ==
    IF s \in FAILURE_STATES /\ p.state \notin FAILURE_STATES
    THEN p.failure.class = "NONE"
    ELSE f = p.failure

\* Mutant: an ambiguous write may be recorded as a confirmed one.
TriggerTransitionConfirmed(p, s, t) ==
    IF p.state = "PRESTEP_ADMITTED" /\ s = "TRIGGERED_EXACTLY_ONCE"
    THEN t = CONFIRMED
    ELSE IF p.state = "PRESTEP_ADMITTED" /\ s = "INVALID_POSTTRIGGER"
    THEN t \in {CONFIRMED, AMBIGUOUS}
    ELSE t = p.trigger

validate_trigger_transition(p, s, t) ==
    IF p.state = "PRESTEP_ADMITTED" /\ s = "TRIGGERED_EXACTLY_ONCE"
    THEN t = CONFIRMED
    ELSE IF p.state = "PRESTEP_ADMITTED" /\ s = "INVALID_POSTTRIGGER"
    THEN t = AMBIGUOUS
    ELSE t = p.trigger

\* Mutant: the state before the adjudication is not looked at.
AdjudicationAny(p, s, r) ==
    s = "SCIENTIFICALLY_ADJUDICATED" =>
        r.adjudication \in {"VALID", "INVALID"}

validate_adjudication_transition(p, s, r) ==
    s = "SCIENTIFICALLY_ADJUDICATED" =>
        /\ r.adjudication \in {"VALID", "INVALID"}
        /\ p.state = "INVALID_POSTTRIGGER" => r.adjudication = "INVALID"

-----------------------------------------------------------------------------
(***************************************************************************)
(* One call of the validator that accepts.                                 *)
(***************************************************************************)
\* validate_new_record: the first record has no predecessor.
Init ==
    \E d \in Identities, prb \in Prbs, i \in Fields, r \in Results :
        /\ StateFields("NEW", prb, i)
        /\ StateResults("NEW", r)
        /\ rec = [state |-> "NEW", identity |-> d, prb |-> prb,
                  failure |-> [class |-> "NONE", reason |-> "NONE"],
                  trigger |-> NOT_TRIGGERED, fields |-> i, results |-> r]
        /\ visited = {"NEW"}
        /\ admitted = Unset

\* main with --previous: validate_transition accepts the record.
Accept ==
    \E s \in States \ {"NEW"}, d \in Identities, prb \in Prbs :
      /\ s \in LEGAL_TRANSITIONS(rec.state)
      /\ d = rec.identity /\ prb = rec.prb
      /\ \E f \in Failures :
           /\ SchemaFailure(s, f)
           /\ StateFailure(s, f)
           /\ validate_failure_continuity(rec, s, f)
           /\ \E t \in Triggers :
                /\ SchemaTrigger(s, t)
                /\ StateTrigger(s, t)
                /\ validate_trigger_transition(rec, s, t)
                /\ \E i \in Fields :
                   /\ validate_identity_continuity(rec, s, i)
                   /\ StateFields(s, prb, i)
                   /\ \E r \in Results :
                     /\ StateResults(s, r)
                     /\ validate_adjudication_transition(rec, s, r)
                     /\ rec' = [state |-> s, identity |-> d, prb |-> prb,
                                failure |-> f, trigger |-> t,
                                fields |-> i, results |-> r]
                     /\ visited' = visited \union {s}
                     /\ admitted' = IF s = "PRESTEP_ADMITTED"
                                    THEN i ELSE admitted

Next == Accept

Spec == Init /\ [][Next]_vars

-----------------------------------------------------------------------------
(***************************************************************************)
(* Properties.                                                             *)
(***************************************************************************)
\* Types of the record and of the history variables.
TypeOK ==
    /\ rec \in [state : States, identity : Identities, prb : Prbs,
                failure : Failures, trigger : Triggers,
                fields : Fields, results : Results]
    /\ visited \subseteq States
    /\ admitted \in Fields

\* In every record, to the end of the chain, the trigger tuple tells what
\* happened: confirmed exactly if the chain passed TRIGGERED_EXACTLY_ONCE,
\* ambiguous exactly if it became invalid without passing it, else no trigger.
TriggerTupleHonest ==
    rec.trigger = IF "TRIGGERED_EXACTLY_ONCE" \in visited THEN CONFIRMED
                  ELSE IF "INVALID_POSTTRIGGER" \in visited THEN AMBIGUOUS
                  ELSE NOT_TRIGGERED

\* A record adjudicated VALID comes at the end of a chain that passed every
\* state of the main path and never failed.
ValidMeansComplete ==
    rec.state = "SCIENTIFICALLY_ADJUDICATED"
      /\ rec.results.adjudication = "VALID" =>
        /\ ActiveStates \subseteq visited
        /\ visited \intersect FAILURE_STATES = {}
        /\ rec.failure.class = "NONE"
        /\ rec.trigger = CONFIRMED

\* What was admitted is what is reported: the platform, runtime, actuator and
\* workload identities of the admission, and an initial PRB equal to the
\* required one, are those of every later record, failed and closed ones too.
AdmittedIdentitiesKept ==
    "PRESTEP_ADMITTED" \in visited =>
        /\ admitted.initial_prb_observed = rec.prb
        /\ \A f \in {"platform_qualification_identity",
                     "runtime_incarnation_identity", "initial_prb_observed",
                     "receiver_workload_identity", "actuator_identity"} :
              admitted[f] # NULL /\ rec.fields[f] = admitted[f]

\* A failure that was entered is still told by the last record, and no record
\* tells of a failure that was not entered.
FailureKept ==
    rec.failure.class # "NONE" <=> visited \intersect FAILURE_STATES # {}

\* No state is entered twice and none is entered after a failure but the
\* adjudication and the closing ones; in particular no second trigger.
NeverBack ==
    [][/\ rec'.state \notin visited
       /\ visited \intersect FAILURE_STATES # {} =>
              rec'.state \in ClosedStates
                               \union {"SCIENTIFICALLY_ADJUDICATED"}]_vars

\* docs/12r-experiment-transaction-state-machine.md:587: "Closing a
\* scientifically invalid run does not make it valid."  A record adjudicated
\* INVALID is followed by INVALID records only.
ClosingKeepsInvalid ==
    [][rec.state = "SCIENTIFICALLY_ADJUDICATED"
         /\ rec.results.adjudication = "INVALID" =>
             rec'.results.adjudication = "INVALID"]_vars

=============================================================================
