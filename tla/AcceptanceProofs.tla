-------------------------- MODULE AcceptanceProofs --------------------------
(*************************************************************************)
(* Proofs about the two components that decide whether evidence counts: the *)
(* transaction validator, which accepts a record or refuses it, and the  *)
(* receiver pipelines, which accept throughput samples for a control.    *)
(*                                                                       *)
(* Transactions.  The invariant adds to the properties what the chain    *)
(* passed to be where it is (ChainShape): the transition table alone does *)
(* not say it, and the trigger tuple, the failure and the admitted       *)
(* identities depend on it.                                              *)
(*                                                                       *)
(* Samples.  The invariant relates the two files the wrapper writes to   *)
(* each other and to the sizes a consumer saw (SnapshotInv), and what a  *)
(* consumer decides to the log of the controls (Deciding).               *)
(*************************************************************************)
EXTENDS ExperimentTransaction, ReceiverPipeline, SequenceTheorems,
        NaturalsInduction, WellFoundedInduction, TLAPS

(*************************************************************************)
(* The chains the transaction validator accepts.                         *)
(*************************************************************************)

\* The states passed on the way to an active state.
Prefix(s) ==
    CASE s = "NEW" -> {}
      [] s = "DEPLOYED" -> {"NEW"}
      [] s = "PLATFORM_QUALIFIED" -> {"NEW", "DEPLOYED"}
      [] s = "INITIAL_STATE_VERIFIED" ->
             {"NEW", "DEPLOYED", "PLATFORM_QUALIFIED"}
      [] s = "ACTUATOR_ARMED" -> ActiveStates \ Armed
      [] s = "WORKLOAD_READY" -> ActiveStates \ Ready
      [] s = "PRESTEP_ADMITTED" -> ActiveStates \ Admitted
      [] s = "TRIGGERED_EXACTLY_ONCE" -> ActiveStates \ Triggered
      [] s = "APPLIED_VERIFIED" -> ActiveStates \ Applied
      [] OTHER -> ActiveStates \ {"POSTSTEP_COMPLETE"}

\* A chain that failed after the trigger was (perhaps) written.
FailedAfter(v) ==
    /\ "INVALID_POSTTRIGGER" \in v /\ "PRESTEP_ADMITTED" \in v
    /\ "ABORTED_PRETRIGGER" \notin v

\* A chain that failed before it.
FailedBefore(v) ==
    /\ "ABORTED_PRETRIGGER" \in v /\ "INVALID_POSTTRIGGER" \notin v
    /\ v \intersect Triggered = {}

\* A chain that did not fail.
Completed(v) ==
    /\ ActiveStates \subseteq v /\ v \intersect FAILURE_STATES = {}

\* What the chain has passed when its last record is in state s.
ChainShape ==
    LET s == rec.state IN
    /\ s \in visited
    /\ s \in ActiveStates => visited = Prefix(s) \union {s}
    /\ s = "ABORTED_PRETRIGGER" => FailedBefore(visited)
    /\ s = "INVALID_POSTTRIGGER" => FailedAfter(visited)
    /\ s = "SCIENTIFICALLY_ADJUDICATED" =>
           \/ FailedAfter(visited) /\ rec.results.adjudication = "INVALID"
           \/ Completed(visited)
    /\ s \in ClosedStates =>
           FailedBefore(visited) \/ FailedAfter(visited) \/ Completed(visited)
    /\ s \in ActiveStates \union FAILURE_STATES =>
           visited \intersect ({"SCIENTIFICALLY_ADJUDICATED"}
                                  \union ClosedStates) = {}
    /\ s = "SCIENTIFICALLY_ADJUDICATED" => visited \intersect ClosedStates = {}
    /\ s = "CLOSED" => "DESTROYED" \notin visited

\* The inductive invariant.
IInv == /\ TypeOK
        /\ ChainShape
        /\ TriggerTupleHonest
        /\ FailureKept
        /\ AdmittedIdentitiesKept


\* The first record satisfies the invariant.
LEMMA InitIInv == Init => IInv
<1> SUFFICES ASSUME Init PROVE IInv
  OBVIOUS
<1>1. PICK d \in Identities, prb \in Prbs, i \in Fields, r \in Results :
        /\ rec = [state |-> "NEW", identity |-> d, prb |-> prb,
                  failure |-> [class |-> "NONE", reason |-> "NONE"],
                  trigger |-> NOT_TRIGGERED, fields |-> i, results |-> r]
        /\ visited = {"NEW"}
        /\ admitted = Unset
  BY DEF Init
<1>2. TypeOK
  <2>1. NOT_TRIGGERED \in Triggers /\ Unset \in Fields
    BY DEF NOT_TRIGGERED, Triggers, Unset, Fields, Name
  <2>2. [class |-> "NONE", reason |-> "NONE"] \in Failures
    BY DEF Failures
  <2>3. "NEW" \in States
    BY DEF States, ActiveStates
  <2> QED
    BY <1>1, <2>1, <2>2, <2>3 DEF TypeOK
<1>3. ChainShape
  BY <1>1 DEF ChainShape, Prefix, ActiveStates, FAILURE_STATES, ClosedStates
<1>4. TriggerTupleHonest /\ FailureKept /\ AdmittedIdentitiesKept
  BY <1>1 DEF TriggerTupleHonest, FailureKept, AdmittedIdentitiesKept,
              FAILURE_STATES
<1> QED
  BY <1>2, <1>3, <1>4 DEF IInv

\* What an accepted proposal is, with its parts named.
AcceptParts(s, f, t, i, r) ==
    /\ s \in States \ {"NEW"} /\ f \in Failures /\ t \in Triggers
    /\ i \in Fields /\ r \in Results
    /\ s \in LEGAL_TRANSITIONS(rec.state)
    /\ SchemaFailure(s, f) /\ StateFailure(s, f)
    /\ validate_failure_continuity(rec, s, f)
    /\ SchemaTrigger(s, t) /\ StateTrigger(s, t)
    /\ validate_trigger_transition(rec, s, t)
    /\ validate_identity_continuity(rec, s, i) /\ StateFields(s, rec.prb, i)
    /\ StateResults(s, r) /\ validate_adjudication_transition(rec, s, r)
    /\ rec' = [state |-> s, identity |-> rec.identity, prb |-> rec.prb,
               failure |-> f, trigger |-> t, fields |-> i, results |-> r]
    /\ visited' = visited \union {s}
    /\ admitted' = IF s = "PRESTEP_ADMITTED" THEN i ELSE admitted

\* An accepted proposal has such parts.
LEMMA AcceptHasParts ==
    ASSUME Accept PROVE \E s, f, t, i, r : AcceptParts(s, f, t, i, r)
BY DEF Accept, AcceptParts

\* The types are kept.
LEMMA AcceptType == TypeOK /\ Accept => TypeOK'
<1> SUFFICES ASSUME TypeOK, Accept PROVE TypeOK'
  OBVIOUS
<1>1. PICK s, f, t, i, r : AcceptParts(s, f, t, i, r)
  BY AcceptHasParts
<1>2. rec.identity \in Identities /\ rec.prb \in Prbs
  BY DEF TypeOK
<1>3. rec' \in [state : States, identity : Identities, prb : Prbs,
                failure : Failures, trigger : Triggers,
                fields : Fields, results : Results]
  BY <1>1, <1>2 DEF AcceptParts
<1>4. visited' \subseteq States /\ admitted' \in Fields
  BY <1>1 DEF AcceptParts, TypeOK
<1> QED
  BY <1>3, <1>4 DEF TypeOK

\* The chain keeps its shape, state by state of the previous record.
LEMMA AcceptShape == TypeOK /\ ChainShape /\ Accept => ChainShape'
<1> SUFFICES ASSUME TypeOK, ChainShape, Accept PROVE ChainShape'
  OBVIOUS
<1>1. PICK s, f, t, i, r : AcceptParts(s, f, t, i, r)
  BY AcceptHasParts
<1> DEFINE p == rec.state
<1>2. /\ s \in LEGAL_TRANSITIONS(p)
      /\ rec'.state = s /\ visited' = visited \union {s}
      /\ rec'.results.adjudication = r.adjudication
      /\ p \in States
      /\ s = "SCIENTIFICALLY_ADJUDICATED" /\ p = "INVALID_POSTTRIGGER"
             => r.adjudication = "INVALID"
  BY <1>1 DEF AcceptParts, TypeOK, validate_adjudication_transition
<1>3. CASE p \in ActiveStates
  <2>1. visited = Prefix(p) \union {p}
    BY <1>3 DEF ChainShape
  <2> QED
    BY <1>2, <1>3, <2>1 DEF ChainShape, Prefix, LEGAL_TRANSITIONS,
       FailedBefore, FailedAfter, Completed, FAILURE_STATES, ClosedStates,
       ActiveStates, Qualified, Verified, Armed, Ready, Admitted, Triggered,
       Applied
<1>4. CASE p \notin ActiveStates
  BY <1>2, <1>4 DEF ChainShape, LEGAL_TRANSITIONS, States, FailedBefore,
     FailedAfter, Completed, FAILURE_STATES, ClosedStates, ActiveStates,
     Qualified, Verified, Armed, Ready, Admitted, Triggered, Applied
<1> QED
  BY <1>3, <1>4

\* The trigger tuple keeps telling what happened.
LEMMA AcceptTrigger ==
    TypeOK /\ ChainShape /\ TriggerTupleHonest /\ Accept => TriggerTupleHonest'
<1> SUFFICES ASSUME TypeOK, ChainShape, TriggerTupleHonest, Accept
             PROVE  TriggerTupleHonest'
  OBVIOUS
<1>1. PICK s, f, t, i, r : AcceptParts(s, f, t, i, r)
  BY AcceptHasParts
<1> DEFINE p == rec.state
<1>2. /\ s \in LEGAL_TRANSITIONS(p)
      /\ rec'.trigger = t /\ visited' = visited \union {s}
      /\ p \in States
      /\ validate_trigger_transition(rec, s, t)
  BY <1>1 DEF AcceptParts, TypeOK
<1>3. CASE p = "PRESTEP_ADMITTED"
  <2>1. visited \intersect (Triggered \union FAILURE_STATES) = {}
    BY <1>3 DEF ChainShape, Prefix, ActiveStates, Qualified, Verified, Armed,
       Ready, Admitted, Triggered, Applied, FAILURE_STATES
  <2>2. s \in {"TRIGGERED_EXACTLY_ONCE", "ABORTED_PRETRIGGER",
               "INVALID_POSTTRIGGER"}
    BY <1>2, <1>3 DEF LEGAL_TRANSITIONS
  <2> QED
    BY <1>2, <1>3, <2>1, <2>2 DEF TriggerTupleHonest,
       validate_trigger_transition, Triggered, FAILURE_STATES
<1>4. CASE p # "PRESTEP_ADMITTED"
  <2>1. t = rec.trigger
    BY <1>2, <1>4 DEF validate_trigger_transition
  <2>2. s # "TRIGGERED_EXACTLY_ONCE"
    BY <1>2, <1>4 DEF LEGAL_TRANSITIONS, States, ActiveStates, Qualified,
       Verified, Armed, Ready, Admitted, Triggered, Applied, FAILURE_STATES,
       ClosedStates
  <2>3. s = "INVALID_POSTTRIGGER" => "TRIGGERED_EXACTLY_ONCE" \in visited
    <3>1. s = "INVALID_POSTTRIGGER" => p \in Triggered
      BY <1>2, <1>4 DEF LEGAL_TRANSITIONS, States, ActiveStates, Qualified,
         Verified, Armed, Ready, Admitted, Triggered, Applied,
         FAILURE_STATES, ClosedStates
    <3>2. p \in Triggered => "TRIGGERED_EXACTLY_ONCE" \in visited
      BY DEF ChainShape, Prefix, ActiveStates, Qualified, Verified, Armed,
         Ready, Admitted, Triggered, Applied
    <3> QED
      BY <3>1, <3>2
  <2> QED
    BY <1>2, <2>1, <2>2, <2>3 DEF TriggerTupleHonest
<1> QED
  BY <1>3, <1>4

\* A failure entered stays told, and only a failure entered is.
LEMMA AcceptFailure ==
    TypeOK /\ ChainShape /\ FailureKept /\ Accept => FailureKept'
<1> SUFFICES ASSUME TypeOK, ChainShape, FailureKept, Accept
             PROVE  FailureKept'
  OBVIOUS
<1>1. PICK s, f, t, i, r : AcceptParts(s, f, t, i, r)
  BY AcceptHasParts
<1>2. /\ rec'.failure.class = f.class /\ visited' = visited \union {s}
      /\ StateFailure(s, f) /\ validate_failure_continuity(rec, s, f)
  BY <1>1 DEF AcceptParts
<1>3. CASE s \in FAILURE_STATES
  BY <1>2, <1>3 DEF FailureKept, StateFailure
<1>4. CASE s \notin FAILURE_STATES
  <2>1. f = rec.failure
    BY <1>2, <1>4 DEF validate_failure_continuity
  <2>2. visited' \intersect FAILURE_STATES = visited \intersect FAILURE_STATES
    BY <1>2, <1>4
  <2> QED
    BY <1>2, <2>1, <2>2 DEF FailureKept
<1> QED
  BY <1>3, <1>4

\* The identities of the admission are those of every later record.
LEMMA AcceptAdmitted ==
    TypeOK /\ ChainShape /\ AdmittedIdentitiesKept /\ Accept
        => AdmittedIdentitiesKept'
<1> SUFFICES ASSUME TypeOK, ChainShape, AdmittedIdentitiesKept, Accept
             PROVE  AdmittedIdentitiesKept'
  OBVIOUS
<1>1. PICK s, f, t, i, r : AcceptParts(s, f, t, i, r)
  BY AcceptHasParts
<1> DEFINE Bound == {"platform_qualification_identity",
                     "runtime_incarnation_identity", "initial_prb_observed",
                     "receiver_workload_identity", "actuator_identity"}
<1>2. /\ rec'.fields = i /\ rec'.prb = rec.prb
      /\ visited' = visited \union {s}
      /\ admitted' = IF s = "PRESTEP_ADMITTED" THEN i ELSE admitted
      /\ StateFields(s, rec.prb, i)
      /\ validate_identity_continuity(rec, s, i)
      /\ i \in Fields /\ rec.prb \in Prbs
  BY <1>1 DEF AcceptParts, TypeOK
<1>3. CASE s = "PRESTEP_ADMITTED"
  <2>1. \A g \in Bound : i[g] # NULL
    BY <1>2, <1>3, NullAssumption DEF StateFields, Fields, Qualified,
       Verified, Armed, Ready, Admitted
  <2>2. i.initial_prb_observed = rec.prb
    BY <1>2, <1>3 DEF StateFields, Verified, Armed, Ready, Admitted
  <2> QED
    BY <1>2, <1>3, <2>1, <2>2 DEF AdmittedIdentitiesKept
<1>4. CASE s # "PRESTEP_ADMITTED"
  <2>1. ASSUME "PRESTEP_ADMITTED" \in visited, NEW g \in Bound
        PROVE  i[g] = admitted[g] /\ admitted[g] # NULL
    <3>1. rec.fields[g] = admitted[g] /\ admitted[g] # NULL
      BY <2>1 DEF AdmittedIdentitiesKept
    <3>2. g \in WRITE_ONCE_FIELDS
      BY DEF WRITE_ONCE_FIELDS
    <3> QED
      BY <1>2, <3>1, <3>2 DEF validate_identity_continuity
  <2>2. "PRESTEP_ADMITTED" \in visited' => "PRESTEP_ADMITTED" \in visited
    BY <1>2, <1>4
  <2>3. admitted' = admitted
    BY <1>2, <1>4
  <2> QED
    BY <1>2, <2>1, <2>2, <2>3 DEF AdmittedIdentitiesKept
<1> QED
  BY <1>3, <1>4

\* The invariant is inductive.
LEMMA NextIInv == IInv /\ [Next]_vars => IInv'
<1> SUFFICES ASSUME IInv, [Next]_vars PROVE IInv'
  OBVIOUS
<1>1. CASE Accept
  BY <1>1, AcceptType, AcceptShape, AcceptTrigger, AcceptFailure,
     AcceptAdmitted DEF IInv
<1>2. CASE UNCHANGED vars
  BY <1>2 DEF IInv, vars, TypeOK, ChainShape, TriggerTupleHonest,
     FailureKept, AdmittedIdentitiesKept
<1> QED
  BY <1>1, <1>2 DEF Next

\* Every accepted chain satisfies the invariant.
THEOREM Inductive == Spec => []IInv
BY InitIInv, NextIInv, PTL DEF Spec

\* The records of the chain are well typed.
THEOREM TypeCorrect == Spec => []TypeOK
<1>1. IInv => TypeOK
  BY DEF IInv
<1> QED
  BY <1>1, Inductive, PTL

\* The trigger tuple of every record tells whether the trigger was written.
THEOREM TriggerTupleCorrect == Spec => []TriggerTupleHonest
<1>1. IInv => TriggerTupleHonest
  BY DEF IInv
<1> QED
  BY <1>1, Inductive, PTL

\* A record adjudicated VALID ends a complete chain that never failed.
THEOREM ValidCorrect == Spec => []ValidMeansComplete
<1>1. IInv => ValidMeansComplete
  <2> SUFFICES ASSUME IInv, rec.state = "SCIENTIFICALLY_ADJUDICATED",
                      rec.results.adjudication = "VALID"
               PROVE  /\ ActiveStates \subseteq visited
                      /\ visited \intersect FAILURE_STATES = {}
                      /\ rec.failure.class = "NONE"
                      /\ rec.trigger = CONFIRMED
    BY DEF ValidMeansComplete
  <2>1. Completed(visited)
    BY DEF IInv, ChainShape
  <2>2. "TRIGGERED_EXACTLY_ONCE" \in visited
    BY <2>1 DEF Completed, ActiveStates, Qualified, Verified, Armed, Ready,
       Admitted, Triggered
  <2> QED
    BY <2>1, <2>2 DEF IInv, Completed, FailureKept, TriggerTupleHonest
<1> QED
  BY <1>1, Inductive, PTL

\* The identities of the admission are those of every later record.
THEOREM AdmittedCorrect == Spec => []AdmittedIdentitiesKept
<1>1. IInv => AdmittedIdentitiesKept
  BY DEF IInv
<1> QED
  BY <1>1, Inductive, PTL

\* The record tells of a failure exactly if the chain failed.
THEOREM FailureCorrect == Spec => []FailureKept
<1>1. IInv => FailureKept
  BY DEF IInv
<1> QED
  BY <1>1, Inductive, PTL

\* No state is entered twice, and a failed chain can only be adjudicated and
\* closed.
THEOREM NeverBackCorrect == Spec => NeverBack
<1> DEFINE Step == /\ rec'.state \notin visited
                   /\ visited \intersect FAILURE_STATES # {} =>
                          rec'.state \in ClosedStates
                              \union {"SCIENTIFICALLY_ADJUDICATED"}
<1>1. IInv /\ [Next]_vars => [Step]_vars
  <2> SUFFICES ASSUME IInv, Accept PROVE Step
    BY DEF Next
  <2>1. PICK s, f, t, i, r : AcceptParts(s, f, t, i, r)
    BY AcceptHasParts
  <2> DEFINE p == rec.state
  <2>2. /\ s \in LEGAL_TRANSITIONS(p) /\ rec'.state = s /\ p \in States
        /\ ChainShape
    BY <2>1 DEF AcceptParts, IInv, TypeOK
  <2>3. CASE p \in ActiveStates
    <3>1. visited = Prefix(p) \union {p}
      BY <2>2, <2>3 DEF ChainShape
    <3> QED
      BY <2>2, <2>3, <3>1 DEF Prefix, LEGAL_TRANSITIONS, FAILURE_STATES,
         ActiveStates, Qualified, Verified, Armed, Ready, Admitted,
         Triggered, Applied
  <2>4. CASE p \notin ActiveStates
    BY <2>2, <2>4 DEF ChainShape, LEGAL_TRANSITIONS, States, ClosedStates,
       FAILURE_STATES, ActiveStates, Qualified, Verified, Armed, Ready,
       Admitted, Triggered, Applied
  <2> QED
    BY <2>3, <2>4
<1> QED
  BY <1>1, Inductive, PTL DEF Spec, NeverBack


(*************************************************************************)
(* Sequences, and recursion over their positions.  The loops of the source *)
(* are functions that are defined from their value one place before; that *)
(* such a function exists, and what it returns for any input, is proved by *)
(* the least position at which it would not.                             *)
(*************************************************************************)
\* The order of the natural numbers, as the relation the library speaks of.
LEMMA LessThan == OpToRel(<, Nat) = {ss \in Nat \X Nat : ss[1] < ss[2]}
BY Zenon DEF OpToRel

\* A non-empty set of natural numbers has a least element.
LEMMA LeastElement ==
  ASSUME NEW T \in SUBSET Nat, T # {}
  PROVE  \E x \in T : \A y \in T : x <= y
<1> DEFINE R == {ss \in Nat \X Nat : ss[1] < ss[2]}
<1>1. IsWellFoundedOn(R, Nat)
  BY NatLessThanWellFounded, LessThan, Zenon
<1>2. \A x, y \in Nat : y < x => <<y, x>> \in R
  OBVIOUS
<1>3. T \subseteq Nat
  OBVIOUS
<1> HIDE DEF R
<1>4. \E x \in T : \A y \in T : ~ (<<y, x>> \in R)
  BY <1>1, <1>3, WFMin, Zenon
<1>5. PICK x \in T : \A y \in T : ~ (<<y, x>> \in R)
  BY <1>4, Zenon
<1>6. \A y \in T : ~ (y < x)
  BY <1>2, <1>3, <1>5
<1> QED
  BY <1>3, <1>6

\* What holds of 0 and of the successor of whatever it holds of, up to n.
LEMMA IntervalInduction ==
  ASSUME NEW n \in Nat, NEW T,
         0 \in T,
         \A i \in 1..n : i - 1 \in T => i \in T
  PROVE  \A i \in 0..n : i \in T
<1> DEFINE U == {i \in 0..n : i \notin T}
<1> SUFFICES ASSUME U # {} PROVE FALSE
  OBVIOUS
<1>1. U \in SUBSET Nat
  OBVIOUS
<1>2. PICK x \in U : \A y \in U : x <= y
  <2> HIDE DEF U
  <2> QED  BY <1>1, LeastElement
<1>3. x \in 1..n
  OBVIOUS
<1>4. x - 1 \in U
  BY <1>3
<1> QED
  BY <1>2, <1>3, <1>4

\* The recursion along 1..n that starts with x and has g[i] as its i-th step has
\* a solution.
Solvable(S, x, n, g) ==
    \E f \in [0..n -> S] : f[0] = x /\ \A i \in 1..n : f[i] = g[i][f[i - 1]]

\* A function that is defined from its value one place before exists.
LEMMA RecursionExists ==
  ASSUME NEW S, NEW x \in S, NEW n \in Nat, NEW g \in [1..n -> [S -> S]]
  PROVE  Solvable(S, x, n, g)
<1> DEFINE Solves(f, m) ==
             f[0] = x /\ \A i \in 1..m : f[i] = g[i][f[i - 1]]
           T == {m \in 0..n : \E f \in [0..m -> S] : Solves(f, m)}
<1>1. 0 \in T
  <2>1. [i \in 0..0 |-> x] \in [0..0 -> S]
    OBVIOUS
  <2>2. Solves([i \in 0..0 |-> x], 0)
    OBVIOUS
  <2> HIDE DEF Solves
  <2> QED
    BY <2>1, <2>2
<1>2. ASSUME NEW m \in 1..n, m - 1 \in T
      PROVE  m \in T
  <2>1. PICK f \in [0..(m - 1) -> S] : Solves(f, m - 1)
    BY <1>2
  <2> DEFINE h == [i \in 0..m |-> IF i = m THEN g[m][f[m - 1]] ELSE f[i]]
  <2>2. g[m][f[m - 1]] \in S
    OBVIOUS
  <2>3. h \in [0..m -> S]
    BY <2>2
  <2>4. h[0] = x
    BY <2>1
  <2>5. ASSUME NEW i \in 1..m PROVE h[i] = g[i][h[i - 1]]
    <3>1. i - 1 \in 0..m /\ i - 1 # m
      OBVIOUS
    <3>2. h[i - 1] = f[i - 1]
      BY <3>1
    <3>3. CASE i = m
      BY <3>2, <3>3
    <3>4. CASE i # m
      BY <3>2, <3>4, <2>1
    <3> QED
      BY <3>3, <3>4
  <2>6. Solves(h, m)
    BY <2>4, <2>5
  <2> HIDE DEF h, Solves
  <2> QED
    BY <2>3, <2>6
<1>3. \A i \in 0..n : i \in T
  <2> HIDE DEF T
  <2> QED  BY <1>1, <1>2, IntervalInduction
<1> QED
  BY <1>3 DEF Solvable

\* Kept is the function its definition says.
LEMMA KeptSteps ==
  ASSUME NEW A, NEW s \in Seq(A), NEW P
  PROVE  /\ Kept(s, P) \in [0..Len(s) -> Seq(A)]
         /\ Kept(s, P)[0] = <<>>
         /\ \A i \in 1..Len(s) :
               Kept(s, P)[i] = IF i \in P THEN Append(Kept(s, P)[i - 1], s[i])
                              ELSE Kept(s, P)[i - 1]
<1> DEFINE g == [i \in 1..Len(s) |-> [q \in Seq(A) |->
                   IF i \in P THEN Append(q, s[i]) ELSE q]]
<1>1. Len(s) \in Nat /\ <<>> \in Seq(A)
  OBVIOUS
<1>2. g \in [1..Len(s) -> [Seq(A) -> Seq(A)]]
  OBVIOUS
<1>3. PICK f \in [0..Len(s) -> Seq(A)] :
          f[0] = <<>> /\ \A i \in 1..Len(s) : f[i] = g[i][f[i - 1]]
  <2> DEFINE S == Seq(A)
             e == <<>>
             n == Len(s)
  <2>1. n \in Nat /\ e \in S /\ g \in [1..n -> [S -> S]]
    BY <1>1, <1>2
  <2> HIDE DEF g, S, e, n
  <2>2. Solvable(S, e, n, g)
    BY <2>1, RecursionExists
  <2> QED
    BY <2>2 DEF Solvable, S, e, n
<1>4. \A i \in 1..Len(s) :
          f[i] = IF i \in P THEN Append(f[i - 1], s[i]) ELSE f[i - 1]
  <2> TAKE i \in 1..Len(s)
  <2>1. f[i - 1] \in Seq(A)
    BY <1>3
  <2> QED
    BY <1>3, <2>1
<1>5. f = [i \in 0..Len(s) |-> IF i = 0 THEN <<>>
             ELSE IF i \in P THEN Append(f[i - 1], s[i]) ELSE f[i - 1]]
  <2>1. f = [i \in 0..Len(s) |-> f[i]]
    BY <1>3
  <2>2. ASSUME NEW i \in 0..Len(s)
        PROVE  f[i] = IF i = 0 THEN <<>>
                 ELSE IF i \in P THEN Append(f[i - 1], s[i]) ELSE f[i - 1]
    <3>1. i = 0 \/ i \in 1..Len(s)
      BY <1>1
    <3> QED
      BY <1>3, <1>4, <3>1, Zenon
  <2> QED
    BY <2>1, <2>2, Zenon
<1>6. Kept(s, P) = [i \in 0..Len(s) |-> IF i = 0 THEN <<>>
             ELSE IF i \in P THEN Append(Kept(s, P)[i - 1], s[i])
             ELSE Kept(s, P)[i - 1]]
  BY <1>5, Zenon DEF Kept
<1> DEFINE k == Kept(s, P)
<1>7. k[0] = <<>> /\ \A i \in 1..Len(s) :
          k[i] = IF i \in P THEN Append(k[i - 1], s[i]) ELSE k[i - 1]
  <2> HIDE DEF k
  <2> SUFFICES k = [i \in 0..Len(s) |-> IF i = 0 THEN <<>>
             ELSE IF i \in P THEN Append(k[i - 1], s[i]) ELSE k[i - 1]]
    <3>1. 0 \in 0..Len(s) /\ \A i \in 1..Len(s) : i \in 0..Len(s) /\ i # 0
      BY <1>1
    <3> QED
      BY <3>1, Zenon
  <2> QED
    BY <1>6, Zenon DEF k
<1>8. \A i \in 0..Len(s) : k[i] \in Seq(A)
  <2> DEFINE T == {i \in 0..Len(s) : k[i] \in Seq(A)}
  <2> HIDE DEF k
  <2>1. 0 \in T
    <3>1. 0 \in 0..Len(s)
      BY <1>1
    <3> QED
      BY <1>1, <1>7, <3>1, Zenon
  <2>2. ASSUME NEW i \in 1..Len(s), i - 1 \in T
        PROVE  i \in T
    <3>1. k[i - 1] \in Seq(A) /\ i \in 0..Len(s) /\ s[i] \in A
      BY <1>1, <2>2
    <3>2. k[i] \in Seq(A)
      <4>1. k[i] = IF i \in P THEN Append(k[i - 1], s[i]) ELSE k[i - 1]
        BY <1>7
      <4> HIDE DEF T
      <4> QED  BY <3>1, <4>1
    <3> QED
      BY <3>1, <3>2
  <2>3. \A i \in 0..Len(s) : i \in T
    <3> HIDE DEF T
    <3> QED  BY <1>1, <2>1, <2>2, IntervalInduction
  <2> QED
    BY <2>3
<1>9. k = [i \in 0..Len(s) |-> k[i]]
  BY <1>6
<1> HIDE DEF k
<1>10. k \in [0..Len(s) -> Seq(A)]
  BY <1>8, <1>9
<1> QED
  BY <1>7, <1>10 DEF k

\* What is kept comes from positions of P.
LEMMA KeptFrom ==
  ASSUME NEW A, NEW s \in Seq(A), NEW P
  PROVE  \A c \in 0..Len(s) : \A m \in 1..Len(Kept(s, P)[c]) :
            \E i \in 1..c : i \in P /\ Kept(s, P)[c][m] = s[i]
<1> DEFINE k == Kept(s, P)
           T == {c \in 0..Len(s) : \A m \in 1..Len(k[c]) :
                    \E i \in 1..c : i \in P /\ k[c][m] = s[i]}
<1>1. /\ k \in [0..Len(s) -> Seq(A)] /\ k[0] = <<>>
      /\ \A i \in 1..Len(s) :
            k[i] = IF i \in P THEN Append(k[i - 1], s[i]) ELSE k[i - 1]
  BY KeptSteps
<1> HIDE DEF k
<1>2. Len(s) \in Nat
  OBVIOUS
<1>3. 0 \in T
  BY <1>1, <1>2
<1>4. ASSUME NEW c \in 1..Len(s), c - 1 \in T
      PROVE  c \in T
  <2>1. c - 1 \in 0..Len(s) /\ k[c - 1] \in Seq(A)
    BY <1>1
  <2>2. CASE c \in P
    <3>1. k[c] = Append(k[c - 1], s[c])
      BY <1>1, <2>2
    <3>2. ASSUME NEW m \in 1..Len(k[c])
          PROVE  \E i \in 1..c : i \in P /\ k[c][m] = s[i]
      <4>1. CASE m = Len(k[c - 1]) + 1
        <5>1. k[c][m] = s[c]
          BY <2>1, <3>1, <4>1
        <5> QED
          BY <2>2, <5>1
      <4>2. CASE m \in 1..Len(k[c - 1])
        <5>1. k[c][m] = k[c - 1][m]
          BY <2>1, <3>1, <4>2
        <5>2. PICK i \in 1..(c - 1) : i \in P /\ k[c - 1][m] = s[i]
          BY <1>4, <4>2
        <5> QED
          BY <5>1, <5>2
      <4> QED
        BY <2>1, <3>1, <4>1, <4>2
    <3> QED
      BY <3>2
  <2>3. CASE c \notin P
    <3>1. k[c] = k[c - 1]
      BY <1>1, <2>3
    <3> QED
      BY <1>4, <3>1
  <2> QED
    BY <2>2, <2>3
<1>5. \A c \in 0..Len(s) : c \in T
  <2> HIDE DEF T
  <2> QED  BY <1>2, <1>3, <1>4, IntervalInduction
<1> QED
  BY <1>5 DEF k

\* Positions outside P add nothing.
LEMMA KeptNone ==
  ASSUME NEW A, NEW s \in Seq(A), NEW P, NEW b \in 0..Len(s), NEW c \in b..Len(s),
         \A i \in (b + 1)..c : i \notin P
  PROVE  Kept(s, P)[c] = Kept(s, P)[b]
<1> DEFINE k == Kept(s, P)
           T == {d \in 0..(c - b) : k[b + d] = k[b]}
<1>1. \A i \in 1..Len(s) :
            k[i] = IF i \in P THEN Append(k[i - 1], s[i]) ELSE k[i - 1]
  BY KeptSteps
<1> HIDE DEF k
<1>2. Len(s) \in Nat /\ c - b \in Nat
  OBVIOUS
<1>3. 0 \in T
  BY <1>2
<1>4. ASSUME NEW d \in 1..(c - b), d - 1 \in T
      PROVE  d \in T
  <2>1. b + d \in 1..Len(s) /\ b + d \in (b + 1)..c /\ b + d - 1 = b + (d - 1)
    BY <1>2
  <2>2. k[b + d] = k[b + d - 1]
    BY <1>1, <2>1
  <2> QED
    BY <1>4, <2>1, <2>2
<1>5. \A d \in 0..(c - b) : d \in T
  <2> HIDE DEF T
  <2> QED  BY <1>2, <1>3, <1>4, IntervalInduction
<1>6. c - b \in T
  BY <1>2, <1>5
<1> QED
  BY <1>2, <1>6 DEF k

\* Between the positions b and c everything is kept.
AllAdded(s, P, b, c) ==
    /\ Len(Kept(s, P)[c]) = Len(Kept(s, P)[b]) + (c - b)
    /\ \A m \in 1..(c - b) :
          Kept(s, P)[c][Len(Kept(s, P)[b]) + m] = s[b + m]

\* A stretch of P is appended as it is.
LEMMA KeptAll ==
  ASSUME NEW A, NEW s \in Seq(A), NEW P, NEW b \in 0..Len(s), NEW c \in b..Len(s),
         \A i \in (b + 1)..c : i \in P
  PROVE  AllAdded(s, P, b, c)
<1> DEFINE k == Kept(s, P)
           n == Len(k[b])
           Has(d) == /\ Len(k[b + d]) = n + d
                     /\ \A m \in 1..d : k[b + d][n + m] = s[b + m]
           T == {d \in 0..(c - b) : Has(d)}
<1>1. /\ k \in [0..Len(s) -> Seq(A)]
      /\ \A i \in 1..Len(s) :
            k[i] = IF i \in P THEN Append(k[i - 1], s[i]) ELSE k[i - 1]
  BY KeptSteps
<1> HIDE DEF k
<1>2. Len(s) \in Nat /\ c - b \in Nat /\ n \in Nat
  BY <1>1
<1> HIDE DEF n
<1>3. 0 \in T
  BY <1>2 DEF n
<1>4. ASSUME NEW d \in 1..(c - b), d - 1 \in T
      PROVE  d \in T
  <2>1. /\ b + d \in 1..Len(s) /\ b + d \in (b + 1)..c
        /\ b + d - 1 = b + (d - 1) /\ b + (d - 1) \in 0..Len(s)
    BY <1>2
  <2>2. k[b + (d - 1)] \in Seq(A)
    BY <1>1, <2>1
  <2>3. k[b + d] = Append(k[b + (d - 1)], s[b + d])
    <3>1. b + d \in P
      BY <2>1
    <3>2. k[b + d] = Append(k[b + d - 1], s[b + d])
      <4> DEFINE i == b + d
      <4>1. i \in P /\ i \in 1..Len(s)
        BY <2>1, <3>1
      <4> HIDE DEF i
      <4>2. k[i] = Append(k[i - 1], s[i])
        BY <1>1, <4>1, Zenon
      <4> QED
        BY <4>2 DEF i
    <3> QED
      BY <2>1, <3>2, Zenon
  <2>4. Len(k[b + (d - 1)]) = n + (d - 1)
    BY <1>4
  <2>5. Len(k[b + d]) = n + d
    BY <1>2, <2>2, <2>3, <2>4
  <2>6. ASSUME NEW m \in 1..d
        PROVE  k[b + d][n + m] = s[b + m]
    <3>1. CASE m = d
      BY <1>2, <2>2, <2>3, <2>4, <3>1
    <3>2. CASE m \in 1..(d - 1)
      <4>1. n + m \in 1..Len(k[b + (d - 1)])
        BY <1>2, <2>4, <3>2
      <4>2. k[b + d][n + m] = k[b + (d - 1)][n + m]
        <5> DEFINE q == k[b + (d - 1)]
        <5> HIDE DEF q
        <5>1. q \in Seq(A) /\ n + m \in 1..Len(q) /\ k[b + d] = Append(q, s[b + d])
          BY <2>2, <2>3, <4>1 DEF q
        <5> QED
          BY <5>1 DEF q
      <4> QED
        BY <1>4, <3>2, <4>2
    <3> QED
      BY <3>1, <3>2
  <2> QED
    BY <2>5, <2>6
<1>5. \A d \in 0..(c - b) : d \in T
  <2> HIDE DEF T
  <2> QED  BY <1>2, <1>3, <1>4, IntervalInduction
<1>6. Has(c - b) /\ b + (c - b) = c
  <2>1. c - b \in T /\ b + (c - b) = c
    <3> HIDE DEF T
    <3> QED  BY <1>2, <1>5
  <2> HIDE DEF Has
  <2> QED
    BY <2>1
<1> QED
  BY <1>6 DEF AllAdded, k, n


(*************************************************************************)
(* latest_eligible_run.                                                  *)
(*************************************************************************)
\* A part of a sequence, and the part that is one element longer.
LEMMA SubSeqAppend ==
  ASSUME NEW A, NEW s \in Seq(A), NEW b \in 1..Len(s), NEW n \in b..Len(s)
  PROVE  /\ SubSeq(s, b, n) \in Seq(A)
         /\ Len(SubSeq(s, b, n)) = n - b + 1
         /\ \A i \in 1..(n - b + 1) : SubSeq(s, b, n)[i] = s[b + i - 1]
         /\ SubSeq(s, n, n) = <<s[n]>>
         /\ n + 1 <= Len(s) =>
              Append(SubSeq(s, b, n), s[n + 1]) = SubSeq(s, b, n + 1)
<1>1. Len(s) \in Nat /\ b \in Nat /\ n \in Nat /\ b >= 1 /\ n >= b /\ n <= Len(s)
  OBVIOUS
<1>2. /\ SubSeq(s, b, n) \in Seq(A)
      /\ Len(SubSeq(s, b, n)) = n - b + 1
      /\ \A i \in 1..(n - b + 1) : SubSeq(s, b, n)[i] = s[b + i - 1]
  BY <1>1
<1>3. SubSeq(s, n, n) = <<s[n]>>
  <2>1. SubSeq(s, n, n) \in Seq(A) /\ Len(SubSeq(s, n, n)) = 1
    BY <1>1
  <2>2. SubSeq(s, n, n)[1] = s[n]
    BY <1>1
  <2>3. s[n] \in A /\ <<s[n]>> \in Seq(A) /\ Len(<<s[n]>>) = 1
    BY <1>1
  <2>4. \A i \in 1..Len(SubSeq(s, n, n)) : SubSeq(s, n, n)[i] = <<s[n]>>[i]
    BY <2>1, <2>2
  <2> QED
    BY <2>1, <2>3, <2>4, SeqEqual
<1>4. ASSUME n + 1 <= Len(s)
      PROVE  Append(SubSeq(s, b, n), s[n + 1]) = SubSeq(s, b, n + 1)
  <2>1. SubSeq(s, b, n + 1) \in Seq(A) /\ Len(SubSeq(s, b, n + 1)) = n - b + 2
    BY <1>1, <1>4
  <2>2. /\ Append(SubSeq(s, b, n), s[n + 1]) \in Seq(A)
        /\ Len(Append(SubSeq(s, b, n), s[n + 1])) = n - b + 2
    BY <1>1, <1>2, <1>4
  <2>3. ASSUME NEW i \in 1..(n - b + 2)
        PROVE  Append(SubSeq(s, b, n), s[n + 1])[i] = SubSeq(s, b, n + 1)[i]
    <3>1. SubSeq(s, b, n + 1)[i] = s[b + i - 1]
      <4> DEFINE m == n + 1
      <4>1. m \in Nat /\ b <= m /\ m <= Len(s) /\ i \in 1..(m - b + 1)
        BY <1>1, <1>4
      <4> HIDE DEF m
      <4>2. SubSeq(s, b, m)[i] = s[b + i - 1]
        BY <1>1, <4>1
      <4> QED
        BY <4>2 DEF m
    <3>2. CASE i = n - b + 2
      BY <1>1, <1>2, <3>1, <3>2
    <3>3. CASE i \in 1..(n - b + 1)
      BY <1>1, <1>2, <3>1, <3>3
    <3> QED
      BY <1>1, <3>2, <3>3
  <2> QED
    BY <2>1, <2>2, <2>3, SeqEqual
<1> QED
  BY <1>2, <1>3, <1>4

\* What the loop of latest_eligible_run has after each row.
LEMMA ScanSteps ==
  ASSUME NEW A, NEW rows \in Seq(A), NEW origin
  PROVE  /\ Scan(rows, origin)
              \in [0..Len(rows) -> [closed : Seq(A), current : Seq(A)]]
         /\ Scan(rows, origin)[0] = [closed |-> <<>>, current |-> <<>>]
         /\ \A i \in 1..Len(rows) :
               Scan(rows, origin)[i]
                 = Extended(Scan(rows, origin)[i - 1], rows[i], origin)
<1> DEFINE S == [closed : Seq(A), current : Seq(A)]
           e == [closed |-> <<>>, current |-> <<>>]
           n == Len(rows)
           g == [i \in 1..n |-> [q \in S |-> Extended(q, rows[i], origin)]]
<1>1. n \in Nat /\ e \in S
  OBVIOUS
<1>2. ASSUME NEW q \in S, NEW r \in A PROVE Extended(q, r, origin) \in S
  BY DEF Extended
<1>3. g \in [1..n -> [S -> S]]
  <2> HIDE DEF S
  <2> QED  BY <1>2
<1>4. PICK f \in [0..n -> S] : f[0] = e /\ \A i \in 1..n : f[i] = g[i][f[i - 1]]
  <2> HIDE DEF g, S, e, n
  <2>1. Solvable(S, e, n, g)
    BY <1>1, <1>3, RecursionExists
  <2> QED
    BY <2>1 DEF Solvable
<1>5. \A i \in 1..n : f[i] = Extended(f[i - 1], rows[i], origin)
  <2> TAKE i \in 1..n
  <2>1. f[i - 1] \in S
    <3> HIDE DEF S
    <3> QED  BY <1>1, <1>4
  <2> HIDE DEF S
  <2> QED
    BY <1>4, <2>1
<1>6. f = [i \in 0..n |-> IF i = 0 THEN e
             ELSE Extended(f[i - 1], rows[i], origin)]
  <2> HIDE DEF S, e
  <2>1. f = [i \in 0..n |-> f[i]]
    BY <1>4
  <2>2. ASSUME NEW i \in 0..n
        PROVE  f[i] = IF i = 0 THEN e ELSE Extended(f[i - 1], rows[i], origin)
    <3>1. i = 0 \/ i \in 1..n
      BY <1>1
    <3> QED
      BY <1>4, <1>5, <3>1, Zenon
  <2> QED
    BY <2>1, <2>2, Zenon
<1> DEFINE k == Scan(rows, origin)
<1>7. k = [i \in 0..n |-> IF i = 0 THEN e
             ELSE Extended(k[i - 1], rows[i], origin)]
  BY <1>6, Zenon DEF Scan
<1> HIDE DEF k
<1>8. 0 \in 0..n /\ \A i \in 1..n : i \in 0..n /\ i # 0
  BY <1>1
<1>9. k[0] = e /\ \A i \in 1..n : k[i] = Extended(k[i - 1], rows[i], origin)
  <2> HIDE DEF e, n
  <2> QED  BY <1>7, <1>8, Zenon
<1>10. \A i \in 0..n : k[i] \in S
  <2> DEFINE T == {i \in 0..n : k[i] \in S}
  <2> HIDE DEF S
  <2>1. 0 \in T
    BY <1>1, <1>8, <1>9, Zenon
  <2>2. ASSUME NEW i \in 1..n, i - 1 \in T
        PROVE  i \in T
    <3>1. k[i - 1] \in S /\ i \in 0..n /\ rows[i] \in A
      BY <1>1, <2>2
    <3>2. k[i] \in S
      BY <1>2, <1>9, <3>1
    <3> QED
      BY <3>1, <3>2
  <2>3. \A i \in 0..n : i \in T
    <3> HIDE DEF T
    <3> QED  BY <1>1, <2>1, <2>2, IntervalInduction
  <2> QED
    BY <2>3
<1>11. k \in [0..n -> S]
  <2> HIDE DEF S, e
  <2>1. k = [i \in 0..n |-> k[i]]
    BY <1>7
  <2> QED
    BY <1>10, <2>1
<1> QED
  BY <1>9, <1>11 DEF k

\* A stretch of eligible rows without a gap that starts where it must.
Stretch(rows, origin, b, e) ==
    /\ \A i \in b..e : eligible(rows[i], origin)
    /\ \A i \in (b + 1)..e : contiguous(rows[i - 1], rows[i])
    /\ b > 1 => \/ ~eligible(rows[b - 1], origin)
                \/ ~contiguous(rows[b - 1], rows[b])

\* rows[b] to rows[e] is the last such stretch of the first n rows.
LastStretch(rows, origin, b, e, n) ==
    /\ Stretch(rows, origin, b, e)
    /\ \A i \in (e + 1)..n : ~eligible(rows[i], origin)

\* What the loop holds after n rows.
Held(s, rows, origin, n) ==
    \/ /\ s.current = <<>> /\ s.closed = <<>>
       /\ \A i \in 1..n : ~eligible(rows[i], origin)
    \/ /\ s.current # <<>>
       /\ \E b \in 1..n : /\ LastStretch(rows, origin, b, n, n)
                          /\ s.current = SubSeq(rows, b, n)
    \/ /\ s.current = <<>> /\ n > 0 /\ ~eligible(rows[n], origin)
       /\ \E e \in 1..n : \E b \in 1..e :
             /\ LastStretch(rows, origin, b, e, n)
             /\ s.closed = SubSeq(rows, b, e)

\* What is held while the last stretch of eligible rows is a closed run.
LEMMA HoldsClosed ==
  ASSUME NEW s, NEW rows, NEW origin, NEW n \in Nat, n > 0,
         NEW e \in 1..n, NEW b \in 1..e,
         s.current = <<>>, ~eligible(rows[n], origin),
         LastStretch(rows, origin, b, e, n), s.closed = SubSeq(rows, b, e)
  PROVE  Held(s, rows, origin, n)
BY Zenon DEF Held

\* One more row through the loop keeps what is held of the rows before.
LEMMA ScanStep ==
  ASSUME NEW A, NEW rows \in Seq(A), NEW origin, NEW n \in 1..Len(rows),
         NEW s \in [closed : Seq(A), current : Seq(A)],
         Held(s, rows, origin, n - 1),
         NEW t, t = Extended(s, rows[n], origin)
  PROVE  Held(t, rows, origin, n)
<1> DEFINE ok(i) == eligible(rows[i], origin)
<1>1. Len(rows) \in Nat /\ n \in Nat /\ n >= 1 /\ n <= Len(rows)
  OBVIOUS
<1>2. s.current \in Seq(A) /\ s.closed \in Seq(A)
  OBVIOUS
<1>0. t = Extended(s, rows[n], origin)
  OBVIOUS
<1>3. ASSUME s.current # <<>>
      PROVE  \E b \in 1..(n - 1) : /\ LastStretch(rows, origin, b, n - 1, n - 1)
                                   /\ s.current = SubSeq(rows, b, n - 1)
  BY <1>3 DEF Held
<1>4. CASE ~eligible(rows[n], origin)
  <2>1. t.current = <<>>
    BY <1>0, <1>4 DEF Extended
  <2>2. CASE s.current # <<>>
    <3>1. t.closed = s.current
      BY <1>0, <1>4, <2>2 DEF Extended
    <3>2. PICK b \in 1..(n - 1) : /\ LastStretch(rows, origin, b, n - 1, n - 1)
                                  /\ s.current = SubSeq(rows, b, n - 1)
      BY <1>3, <2>2
    <3>3. LastStretch(rows, origin, b, n - 1, n)
      BY <1>1, <1>4, <3>2 DEF LastStretch
    <3>4. n - 1 \in 1..n
      BY <1>1, <3>2
    <3> QED
      <4>1. n \in Nat /\ n > 0 /\ t.closed = SubSeq(rows, b, n - 1)
        BY <1>1, <3>1, <3>2
      <4> QED
        BY <1>4, <2>1, <3>3, <3>4, <4>1, HoldsClosed, Zenon
  <2>3. CASE s.current = <<>>
    <3>1. t.closed = s.closed
      BY <1>0, <1>4, <2>3 DEF Extended
    <3>2. CASE s.closed = <<>> /\ \A i \in 1..(n - 1) : ~ok(i)
      <4>1. \A i \in 1..n : ~ok(i)
        BY <1>1, <1>4, <3>2
      <4> QED
        BY <2>1, <3>1, <3>2, <4>1 DEF Held
    <3>3. CASE \E e \in 1..(n - 1) : \E b \in 1..e :
                 /\ LastStretch(rows, origin, b, e, n - 1)
                 /\ s.closed = SubSeq(rows, b, e)
      <4>0. PICK e \in 1..(n - 1) : \E b \in 1..e :
                 /\ LastStretch(rows, origin, b, e, n - 1)
                 /\ s.closed = SubSeq(rows, b, e)
        BY <3>3
      <4>1. PICK b \in 1..e : /\ LastStretch(rows, origin, b, e, n - 1)
                              /\ s.closed = SubSeq(rows, b, e)
        BY <4>0
      <4>2. LastStretch(rows, origin, b, e, n)
        BY <1>1, <1>4, <4>1 DEF LastStretch
      <4>3. e \in 1..n
        BY <1>1
      <4> QED
        <5>1. n \in Nat /\ n > 0 /\ t.closed = SubSeq(rows, b, e)
          BY <1>1, <3>1, <4>1
        <5> QED
          BY <1>4, <2>1, <4>2, <4>3, <5>1, HoldsClosed, Zenon
    <3> QED
      BY <2>3, <3>2, <3>3 DEF Held
  <2> QED
    BY <2>2, <2>3
<1>5. CASE eligible(rows[n], origin)
  <2>1. CASE /\ s.current # <<>>
             /\ ~contiguous(s.current[Len(s.current)], rows[n])
    <3>1. t.current = <<rows[n]>>
      BY <1>0, <1>5, <2>1 DEF Extended
    <3>2. PICK b \in 1..(n - 1) : s.current = SubSeq(rows, b, n - 1)
      BY <1>3, <2>1
    <3>3. s.current[Len(s.current)] = rows[n - 1]
      <4>1. n - 1 \in b..Len(rows) /\ b \in 1..Len(rows)
        BY <1>1, <3>2
      <4>2. Len(s.current) = n - b
        BY <1>1, <3>2, <4>1, SubSeqAppend
      <4> QED
        BY <1>1, <3>2, <4>1, <4>2, SubSeqAppend
    <3>4. LastStretch(rows, origin, n, n, n)
      BY <1>1, <1>5, <2>1, <3>3 DEF LastStretch, Stretch
    <3>5. t.current = SubSeq(rows, n, n)
      BY <3>1, SubSeqAppend
    <3>6. t.current # <<>> /\ n \in 1..n
      BY <1>1, <3>1
    <3> QED
      BY <3>4, <3>5, <3>6 DEF Held
  <2>2. CASE /\ s.current # <<>>
             /\ contiguous(s.current[Len(s.current)], rows[n])
    <3>1. t.current = Append(s.current, rows[n])
      BY <1>0, <1>5, <2>2 DEF Extended
    <3>2. PICK b \in 1..(n - 1) : /\ LastStretch(rows, origin, b, n - 1, n - 1)
                                  /\ s.current = SubSeq(rows, b, n - 1)
      BY <1>3, <2>2
    <3>3. n - 1 \in b..Len(rows) /\ b \in 1..Len(rows) /\ (n - 1) + 1 = n
      BY <1>1, <3>2
    <3>4. s.current[Len(s.current)] = rows[n - 1]
      <4>1. Len(s.current) = n - b
        BY <1>1, <3>2, <3>3, SubSeqAppend
      <4> QED
        BY <1>1, <3>2, <3>3, <4>1, SubSeqAppend
    <3>5. LastStretch(rows, origin, b, n, n)
      <4>1. \A i \in b..n : ok(i)
        <5>1. \A i \in b..n : i = n \/ i \in b..(n - 1)
          BY <1>1, <3>2
        <5> QED
          BY <1>5, <3>2, <5>1 DEF LastStretch, Stretch
      <4>2. \A i \in (b + 1)..n : contiguous(rows[i - 1], rows[i])
        <5>1. \A i \in (b + 1)..n : i = n \/ i \in (b + 1)..(n - 1)
          BY <1>1, <3>2
        <5> QED
          BY <2>2, <3>2, <3>4, <5>1 DEF LastStretch, Stretch
      <4> QED
        BY <1>1, <3>2, <4>1, <4>2 DEF LastStretch, Stretch
    <3>6. t.current = SubSeq(rows, b, n)
      <4>1. Append(SubSeq(rows, b, n - 1), rows[(n - 1) + 1])
              = SubSeq(rows, b, (n - 1) + 1)
        BY <1>1, <3>3, SubSeqAppend
      <4> QED
        BY <3>1, <3>2, <3>3, <4>1
    <3>7. t.current # <<>>
      <4>1. rows[n] \in A
        BY <1>1
      <4> QED
        BY <1>2, <3>1, <4>1, AppendProperties
    <3>8. b \in 1..n
      BY <1>1, <3>2
    <3> QED
      BY <3>5, <3>6, <3>7, <3>8 DEF Held
  <2>3. CASE s.current = <<>>
    <3>1. t.current = <<rows[n]>>
      BY <1>0, <1>5, <2>3 DEF Extended
    <3>2. n > 1 => ~eligible(rows[n - 1], origin)
      BY <1>1, <2>3 DEF Held
    <3>3. LastStretch(rows, origin, n, n, n)
      BY <1>1, <1>5, <3>2 DEF LastStretch, Stretch
    <3>4. t.current = SubSeq(rows, n, n)
      BY <3>1, SubSeqAppend
    <3>5. t.current # <<>> /\ n \in 1..n
      BY <1>1, <3>1
    <3> QED
      BY <3>3, <3>4, <3>5 DEF Held
  <2> QED
    BY <2>1, <2>2, <2>3
<1> QED
  BY <1>4, <1>5

\* What latest_eligible_run returns.
LEMMA RunReturned ==
  ASSUME NEW A, NEW rows \in Seq(A), NEW origin
  PROVE  \/ /\ latest_eligible_run(rows, origin) = <<>>
            /\ \A i \in 1..Len(rows) : ~eligible(rows[i], origin)
         \/ \E e \in 1..Len(rows) : \E b \in 1..e :
               /\ LastStretch(rows, origin, b, e, Len(rows))
               /\ latest_eligible_run(rows, origin) = SubSeq(rows, b, e)
<1> DEFINE S == [closed : Seq(A), current : Seq(A)]
           k == Scan(rows, origin)
           n == Len(rows)
           T == {i \in 0..n : Held(k[i], rows, origin, i)}
<1>1. /\ k \in [0..n -> S]
      /\ k[0] = [closed |-> <<>>, current |-> <<>>]
      /\ \A i \in 1..n : k[i] = Extended(k[i - 1], rows[i], origin)
  BY ScanSteps
<1> HIDE DEF k
<1>2. n \in Nat
  OBVIOUS
<1>3. 0 \in T
  BY <1>1, <1>2 DEF Held
<1>4. ASSUME NEW i \in 1..n, i - 1 \in T
      PROVE  i \in T
  <2>1. k[i - 1] \in S /\ i \in 0..n /\ Held(k[i - 1], rows, origin, i - 1)
    <3> HIDE DEF S
    <3> QED  BY <1>1, <1>2, <1>4
  <2>2. Held(Extended(k[i - 1], rows[i], origin), rows, origin, i)
    BY <2>1, ScanStep
  <2> QED
    BY <1>1, <2>1, <2>2
<1>5. n \in T
  <2> HIDE DEF T
  <2>1. \A i \in 0..n : i \in T
    BY <1>2, <1>3, <1>4, IntervalInduction
  <2> QED
    BY <1>2, <2>1
<1>6. Held(k[n], rows, origin, n)
  BY <1>5
<1>7. latest_eligible_run(rows, origin)
        = IF k[n].current = <<>> THEN k[n].closed ELSE k[n].current
  BY DEF latest_eligible_run, k
<1> DEFINE last == k[n]
           run == latest_eligible_run(rows, origin)
<1> HIDE DEF last, run, S
<1>8. /\ Held(last, rows, origin, n)
      /\ run = IF last.current = <<>> THEN last.closed ELSE last.current
  BY <1>6, <1>7 DEF last, run
<1>9. n > 0 => n \in 1..n
  BY <1>2
<1>10. \/ run = <<>> /\ \A i \in 1..n : ~eligible(rows[i], origin)
       \/ \E e \in 1..n : \E b \in 1..e :
               /\ LastStretch(rows, origin, b, e, n)
               /\ run = SubSeq(rows, b, e)
  <2> HIDE DEF n
  <2>1. CASE last.current # <<>>
    <3>1. PICK b \in 1..n : /\ LastStretch(rows, origin, b, n, n)
                            /\ last.current = SubSeq(rows, b, n)
      BY <1>8, <2>1 DEF Held
    <3>2. n \in 1..n
      BY <1>2, <3>1
    <3> QED
      BY <1>8, <2>1, <3>1, <3>2
  <2>2. CASE last.current = <<>>
    BY <1>8, <2>2 DEF Held
  <2> QED
    BY <2>1, <2>2
<1> QED
  BY <1>10 DEF run

\* The loop computes the reference definition.
LEMMA RunIsLatestRun ==
  ASSUME NEW A, NEW rows \in Seq(A), NEW origin
  PROVE  latest_eligible_run(rows, origin) = LatestRun(rows, origin)
<1> DEFINE ok(i) == eligible(rows[i], origin)
           good == {i \in DOMAIN rows : ok(i)}
           IsLast(i) == \A j \in good : j <= i
           last == CHOOSE i \in good : IsLast(i)
           starts == {b \in 1..last :
                     \A j \in b..last :
                        /\ ok(j)
                        /\ j > b => contiguous(rows[j - 1], rows[j])}
           IsFirst(b) == \A c \in starts : b <= c
           first == CHOOSE b \in starts : IsFirst(b)
<1>1. LatestRun(rows, origin)
        = IF good = {} THEN <<>> ELSE SubSeq(rows, first, last)
  BY DEF LatestRun
<1>2. DOMAIN rows = 1..Len(rows) /\ Len(rows) \in Nat
  OBVIOUS
<1>3. CASE /\ latest_eligible_run(rows, origin) = <<>>
           /\ \A i \in 1..Len(rows) : ~eligible(rows[i], origin)
  BY <1>1, <1>2, <1>3
<1>4. CASE \E e \in 1..Len(rows) : \E b \in 1..e :
               /\ LastStretch(rows, origin, b, e, Len(rows))
               /\ latest_eligible_run(rows, origin) = SubSeq(rows, b, e)
  <2>0. PICK e \in 1..Len(rows) : \E b \in 1..e :
               /\ LastStretch(rows, origin, b, e, Len(rows))
               /\ latest_eligible_run(rows, origin) = SubSeq(rows, b, e)
    BY <1>4
  <2>1. PICK b \in 1..e :
               /\ LastStretch(rows, origin, b, e, Len(rows))
               /\ latest_eligible_run(rows, origin) = SubSeq(rows, b, e)
    BY <2>0
  <2>2. /\ \A i \in b..e : ok(i)
        /\ \A i \in (b + 1)..e : contiguous(rows[i - 1], rows[i])
        /\ b > 1 => ~ok(b - 1) \/ ~contiguous(rows[b - 1], rows[b])
        /\ \A i \in (e + 1)..Len(rows) : ~ok(i)
    BY <2>1 DEF LastStretch, Stretch
  <2> HIDE DEF ok
  <2>3. e \in good /\ IsLast(e)
    BY <1>2, <2>2
  <2>4. \A i \in good : IsLast(i) => i = e
    BY <1>2, <2>3
  <2>5. last = e
    <3> HIDE DEF good, IsLast
    <3> QED  BY <2>3, <2>4
  <2> HIDE DEF last
  <2>6. b \in starts
    BY <1>2, <2>2, <2>5
  <2>7. ASSUME NEW c \in starts PROVE b <= c
    <3>1. SUFFICES ASSUME c < b PROVE FALSE
      BY <1>2, <2>5
    <3>2. b - 1 \in c..e /\ b \in c..e /\ b > 1 /\ b > c
      BY <1>2, <2>5, <3>1
    <3> QED
      BY <2>2, <2>5, <3>2
  <2>8. \A c \in starts : IsFirst(c) => c = b
    BY <1>2, <2>5, <2>6, <2>7
  <2>9. first = b
    <3> HIDE DEF starts
    <3>1. IsFirst(b)
      BY <2>7
    <3> HIDE DEF IsFirst
    <3> QED  BY <2>6, <2>8, <3>1
  <2>10. good # {}
    BY <2>3
  <2> HIDE DEF good, first
  <2> QED
    BY <1>1, <2>1, <2>5, <2>9, <2>10
<1> QED
  BY <1>3, <1>4, RunReturned


(*************************************************************************)
(* The invariants of receiver, wrapper and consumers: the files grow by  *)
(* appending, the timestamp file a line behind the raw file, and what a  *)
(* consumer has seen of them stays true while it works.                  *)
(*************************************************************************)
\* The wrapper writes a line, then its record: the files differ by at most the
\* line it still holds.
Copied ==
    /\ Len(held) <= 1
    /\ Len(stamps) <= Len(raw) /\ Len(raw) <= Len(stamps) + 1
    /\ \A i \in 1..Len(stamps) : stamps[i] = raw[i]
    /\ held = <<>> => Len(raw) = Len(stamps)
    /\ Len(raw) = Len(stamps) + 1 => held = <<raw[Len(raw)]>>

\* Lines are stamped in the order in which they are written.
Timed ==
    /\ \A i \in 1..Len(raw) : raw[i].wall <= now
    /\ \A i \in 2..Len(raw) : raw[i - 1].wall <= raw[i].wall
    /\ held # <<>> => held[1].wall <= now
    /\ held # <<>> /\ raw # <<>> => raw[Len(raw)].wall <= held[1].wall

\* An interval is as long as its shape says.
Measured(r) == r.end = r.start + Reported(r.shape)

\* Each interval starts where the one before it ends.
Linked ==
    /\ \A i \in 1..Len(raw) : Measured(raw[i])
    /\ \A i \in 2..Len(raw) : raw[i].start = raw[i - 1].end
    /\ held # <<>> => Measured(held[1])
    /\ held # <<>> /\ Len(raw) = Len(stamps) => held[1].start = NextStart

\* A readback follows a command, and no more commands are given than the phase
\* has had.
Controlled == Len(applied) <= Len(commands) /\ Len(commands) <= index

\* What the wrapper and the logs keep, whatever a consumer does.
CaptureInv == PipelineTypeOK /\ Copied /\ Timed /\ Linked /\ Controlled

\* The sizes the adapter compares are those of the past, the raw file's read
\* before the other one's: when a pair is seen twice, the size of the raw file
\* was the same before and after that of the other was read.
SizesSeen ==
    /\ previous[1] <= Len(raw) /\ previous[2] <= Len(stamps)
    /\ sizes[1] <= Len(raw)
    /\ pc = "stat_stamps" => previous[2] <= sizes[1]
    /\ pc \in {"check_raw", "check_stamps", "tools", "gate"} =>
           previous[2] <= previous[1]

\* The above with the sizes a consumer has seen.
SnapshotInv == CaptureInv /\ SizesSeen

\* Where the adapter works with a complete timeline.
Evaluating ==
    {"stat_raw", "stat_stamps", "check_raw", "check_stamps", "tools", "gate"}

\* All controls of the phase were given and read back as requested.
AllApplied ==
    /\ Len(applied) = index
    /\ \A i \in 1..index : applied[i].ok

\* The timeline the adapter works with is the log of the gNB.
TimelineIsLog ==
    pc \in Evaluating /\ index > 0 =>
        /\ AllApplied
        /\ Len(timeline) = index
        /\ \A i \in 1..index : timeline[i].applied = applied[i].at

\* The two windows of a report that passes.
WindowsStand ==
    report.gate = "PASS" /\ index > 0 =>
        /\ AllApplied
        /\ \A i \in DOMAIN report.windows :
              ObservedStart(report.windows[i]) >= applied[index].at

\* A report that passes has found a block of eligible rows that is long enough
\* and that no eligible row follows.
BlockFound ==
    pc = "gate" /\ report.gate = "PASS" /\ index > 0 =>
        \E e \in 1..Len(Rows) : \E b \in 1..e :
            /\ e - b + 1 >= 2 * W
            /\ \A i \in b..e : eligible(Rows[i], Origin)
            /\ \A i \in (e + 1)..Len(Rows) : ~eligible(Rows[i], Origin)

\* The samples of an admission.
PickedStand ==
    consumer = "adapter" /\ picked # <<>> /\ index > 0 =>
        /\ AllApplied
        /\ \A i \in DOMAIN picked : ObservedStart(picked[i]) >= applied[index].at

\* Where the tail reader is.
TailPlace == pc \in {"tail_open", "tail_read"} => consumer = "tail"

(***************************************************************************)
(* What every step of a consumer leaves alone.                             *)
(***************************************************************************)
ConsumerNext == AdapterNext \/ TailNext

\* A consumer only reads: receiver, wrapper and control plane go on alone.
LEMMA EnvironmentKept == ConsumerNext => UNCHANGED environment
BY DEF ConsumerNext, AdapterNext, TailNext, AdStart, AdTimeline,
       AdTimelineTimeout, AdStatRaw, AdStatStamps, AdCheckStamps, AdTimeout,
       AdTools, HandoffExtend, HandoffFreshness, TailStart, TailOpen, TailRead,
       TailTimeout

\* The first state.
LEMMA SnapshotInit == PipelineInit => SnapshotInv
<1> SUFFICES ASSUME PipelineInit PROVE SnapshotInv
  OBVIOUS
<1>1. PipelineTypeOK
  BY PipelineAssumption DEF PipelineInit, PipelineTypeOK
<1>2. Copied /\ Timed /\ Linked
  BY DEF PipelineInit, Copied, Timed, Linked
<1>3. Controlled /\ SizesSeen
  BY DEF PipelineInit, Controlled, SizesSeen
<1> QED
  BY <1>1, <1>2, <1>3 DEF SnapshotInv, CaptureInv

\* Filtering a sequence keeps the type of its elements.
LEMMA FilterTyped ==
  ASSUME NEW A, NEW s \in Seq(A), NEW P
  PROVE  Filter(s, P) \in Seq(A)
BY KeptSteps DEF Filter

\* A step of a consumer keeps the types of what is its own.
LEMMA TypesConsumer ==
  PipelineTypeOK /\ SizesSeen /\ ConsumerNext => PipelineTypeOK'
<1> SUFFICES ASSUME PipelineTypeOK, SizesSeen, ConsumerNext PROVE PipelineTypeOK'
  OBVIOUS
<1>1. UNCHANGED environment
  BY EnvironmentKept
<1>2. /\ sizes' \in Nat \X Nat /\ previous' \in Nat \X Nat
      /\ decision' \in Nat /\ picked' \in Seq(Lines)
      => PipelineTypeOK'
  BY <1>1 DEF PipelineTypeOK, environment, stream, setup, controls
<1>3. Len(raw) \in Nat /\ Len(stamps) \in Nat /\ now \in Nat
  BY DEF PipelineTypeOK
<1> USE DEF PipelineTypeOK
<1>4. CASE AdStart
  BY <1>2, <1>4 DEF AdStart, result
<1>5. CASE AdTimeline
  BY <1>2, <1>5 DEF AdTimeline
<1>6. CASE AdTimelineTimeout
  BY <1>2, <1>6 DEF AdTimelineTimeout, Fail
<1>7. CASE AdStatRaw
  BY <1>2, <1>3, <1>7 DEF AdStatRaw, result
<1>8. CASE AdStatStamps
  BY <1>2, <1>3, <1>8 DEF AdStatStamps, result
<1>9. CASE AdCheckStamps
  BY <1>2, <1>3, <1>9 DEF AdCheckStamps, result
<1>10. CASE AdTimeout
  BY <1>2, <1>10 DEF AdTimeout, Fail
<1>11. CASE AdTools
  BY <1>2, <1>11 DEF AdTools, Fail
<1>12. CASE HandoffExtend
  BY <1>2, <1>12 DEF HandoffExtend
<1>13. CASE HandoffFreshness
  <2>1. Rows \in Seq(Lines)
    <3>1. Snapshot.records \in Seq(Lines)
      BY <1>3 DEF Snapshot, SizesSeen
    <3> QED
      BY <3>1, FilterTyped DEF Rows, Parsed
  <2>2. Complete(Rows) \in Seq(Lines)
    BY <2>1, FilterTyped DEF Complete
  <2>3. FreshnessAccepts(Rows) => Selected(Rows) \in Seq(Lines)
    <3> DEFINE c == Complete(Rows)
    <3> HIDE DEF c
    <3>1. c \in Seq(Lines) /\ W \in Nat \ {0}
      BY <2>2, PipelineAssumption DEF c
    <3>2. Len(c) >= 2 * W => SubSeq(c, Len(c) - 2 * W + 1, Len(c)) \in Seq(Lines)
      <4> SUFFICES ASSUME Len(c) >= 2 * W
                   PROVE  SubSeq(c, Len(c) - 2 * W + 1, Len(c)) \in Seq(Lines)
        OBVIOUS
      <4>1. /\ Len(c) - 2 * W + 1 \in 1..Len(c)
            /\ Len(c) \in (Len(c) - 2 * W + 1)..Len(c)
        BY <3>1
      <4> QED
        BY <3>1, <4>1, SubSeqAppend
    <3> QED
      BY <3>2 DEF c, FreshnessAccepts, Selected
  <2>4. /\ sizes' = sizes \/ sizes' = <<0, 0>>
        /\ previous' = previous \/ previous' = <<0, 0>>
        /\ decision' = decision \/ decision' = now
        /\ \/ picked' = picked
           \/ FreshnessAccepts(Rows) /\ picked' = Selected(Rows)
    BY <1>13 DEF HandoffFreshness, Fail
  <2>5. /\ sizes' \in Nat \X Nat /\ previous' \in Nat \X Nat
        /\ decision' \in Nat /\ picked' \in Seq(Lines)
    <3>1. <<0, 0>> \in Nat \X Nat
      OBVIOUS
    <3>2. /\ sizes \in Nat \X Nat /\ previous \in Nat \X Nat
          /\ decision \in Nat /\ picked \in Seq(Lines)
      OBVIOUS
    <3> QED
      BY ONLY <1>3, <2>3, <2>4, <3>1, <3>2
  <2> QED
    BY <1>2, <2>5
<1>14. CASE TailStart
  BY <1>2, <1>14 DEF TailStart, result
<1>15. CASE TailOpen
  BY <1>2, <1>3, <1>15 DEF TailOpen, result
<1>16. CASE TailRead
  <2> DEFINE first == Max(1, Len(stamps) + 1 - TailRows)
             pairs == TailIntervals(first)
  <2>1. pairs \in Seq(Lines)
    BY FilterTyped DEF TailIntervals
  <2>2. inspect = "PASS" => Len(pairs) >= 2
    <3>1. Len(pairs) \in Nat
      BY <2>1
    <3> QED
      BY <3>1 DEF inspect
  <2> HIDE DEF pairs
  <2>3. inspect = "PASS" =>
           SubSeq(pairs, Len(pairs) - 1, Len(pairs)) \in Seq(Lines)
    <3> SUFFICES ASSUME inspect = "PASS"
                 PROVE  SubSeq(pairs, Len(pairs) - 1, Len(pairs)) \in Seq(Lines)
      OBVIOUS
    <3>1. Len(pairs) \in Nat /\ Len(pairs) - 1 \in 1..Len(pairs)
      BY <2>1, <2>2
    <3> QED
      BY <2>1, <3>1, SubSeqAppend
  <2>4. /\ sizes' = sizes \/ sizes' = <<0, 0>>
        /\ previous' = previous \/ previous' = <<0, 0>>
        /\ decision' = decision \/ decision' = now
        /\ \/ picked' = picked
           \/ /\ inspect = "PASS"
              /\ picked' = SubSeq(pairs, Len(pairs) - 1, Len(pairs))
    BY <1>16 DEF TailRead, Fail, pairs
  <2>5. /\ sizes' \in Nat \X Nat /\ previous' \in Nat \X Nat
        /\ decision' \in Nat /\ picked' \in Seq(Lines)
    <3>1. <<0, 0>> \in Nat \X Nat
      OBVIOUS
    <3>2. /\ sizes \in Nat \X Nat /\ previous \in Nat \X Nat
          /\ decision \in Nat /\ picked \in Seq(Lines)
      OBVIOUS
    <3> QED
      BY ONLY <1>3, <2>3, <2>4, <3>1, <3>2
  <2> QED
    BY <1>2, <2>5
<1>17. CASE TailTimeout
  BY <1>2, <1>17 DEF TailTimeout, Fail
<1> QED
  BY <1>4, <1>5, <1>6, <1>7, <1>8, <1>9, <1>10, <1>11, <1>12, <1>13, <1>14,
     <1>15, <1>16, <1>17 DEF ConsumerNext, AdapterNext, TailNext

\* A line that is read when none is held is the only one held.
LEMMA SingleLine ==
  ASSUME NEW A, NEW s \in Seq(A), s # <<>>, Len(s) <= 1
  PROVE  Len(s) = 1 /\ s[1] \in A /\ s = <<s[1]>>
<1>1. Len(s) = 1 /\ s[1] \in A
  BY EmptySeq
<1>2. <<s[1]>> \in Seq(A) /\ Len(<<s[1]>>) = 1
  BY <1>1
<1>3. \A i \in 1..Len(s) : s[i] = <<s[1]>>[i]
  BY <1>1
<1> QED
  BY <1>1, <1>2, <1>3, SeqEqual

\* A line that is read has the type of a line.
LEMMA LineTyped ==
  ASSUME PipelineTypeOK, Controlled, NEW shape \in Shapes
  PROVE  [shape |-> shape, start |-> NextStart,
                    end |-> NextStart + Reported(shape),
                    rate |-> plant[Len(applied)], wall |-> now] \in Lines
<1>1. NextStart \in Nat
  <2>1. raw \in Seq(Lines)
    BY DEF PipelineTypeOK
  <2>2. raw # <<>> => raw[Len(raw)] \in Lines
    BY <2>1
  <2> QED
    BY <2>2 DEF NextStart, Lines
<1>2. Reported(shape) \in Nat
  BY PipelineAssumption DEF Reported, Shapes
<1>3. plant[Len(applied)] \in Nat
  <2>1. Len(applied) \in 0..index
    BY DEF Controlled, PipelineTypeOK
  <2> QED
    BY <2>1, PipelineAssumption DEF PipelineTypeOK
<1>4. now \in Nat /\ NextStart + Reported(shape) \in Nat
  BY <1>1, <1>2 DEF PipelineTypeOK
<1> QED
  BY <1>1, <1>3, <1>4 DEF Lines

\* Reading a line.
LEMMA CaptureReadStep ==
  ASSUME CaptureInv, NEW shape \in Shapes, CaptureRead(shape)
  PROVE  CaptureInv'
<1> DEFINE line == [shape |-> shape, start |-> NextStart,
                    end |-> NextStart + Reported(shape),
                    rate |-> plant[Len(applied)], wall |-> now]
<1>1. line \in Lines
  BY LineTyped DEF CaptureInv
<1>2. /\ held = <<>> /\ held' = <<line>>
      /\ UNCHANGED <<now, raw, stamps, setup, controls, pc, sizes, previous, result>>
  BY DEF CaptureRead
<1>3. line.wall = now /\ Measured(line) /\ line.start = NextStart
  BY DEF Measured
<1>4. line.start = line.start
  OBVIOUS
<1> HIDE DEF line
<1>5. held' \in Seq(Lines) /\ Len(held') = 1 /\ held'[1] = line /\ held' # <<>>
  BY <1>1, <1>2
<1>6. PipelineTypeOK'
  BY <1>2, <1>5 DEF CaptureInv, PipelineTypeOK, setup, controls, result
<1>7. Copied'
  BY <1>2, <1>5 DEF CaptureInv, PipelineTypeOK, Copied
<1>8. Timed'
  BY <1>2, <1>3, <1>5 DEF CaptureInv, PipelineTypeOK, Timed
<1>9. Linked'
  BY <1>2, <1>3, <1>5 DEF CaptureInv, PipelineTypeOK, Linked, NextStart, Measured
<1>10. Controlled'
  BY <1>2 DEF CaptureInv, Controlled, setup, controls
<1> QED
  BY <1>6, <1>7, <1>8, <1>9, <1>10 DEF CaptureInv

\* Writing the line, then its record, then holding none.
LEMMA CaptureWriteStep ==
  ASSUME CaptureInv, CaptureWrite
  PROVE  CaptureInv'
<1>1. /\ held # <<>>
      /\ UNCHANGED <<now, setup, controls, pc, sizes, previous, result>>
  BY DEF CaptureWrite
<1>2. /\ Len(held) = 1 /\ held[1] \in Lines /\ held = <<held[1]>>
      /\ raw \in Seq(Lines) /\ stamps \in Seq(Lines)
      /\ Len(raw) \in Nat /\ Len(stamps) \in Nat
  <2>1. /\ held \in Seq(Lines) /\ Len(held) <= 1
        /\ raw \in Seq(Lines) /\ stamps \in Seq(Lines)
    BY DEF CaptureInv, PipelineTypeOK, Copied
  <2> QED
    BY <1>1, <2>1, SingleLine
<1>3. Controlled'
  BY <1>1 DEF CaptureInv, Controlled, setup, controls
<1>4. CASE Len(raw) = Len(stamps)
  <2>1. raw' = Append(raw, held[1]) /\ UNCHANGED <<stamps, held>>
    BY <1>4 DEF CaptureWrite
  <2>2. /\ raw' \in Seq(Lines) /\ Len(raw') = Len(raw) + 1
        /\ \A i \in 1..Len(raw) : raw'[i] = raw[i]
        /\ raw'[Len(raw) + 1] = held[1]
    BY <1>2, <2>1
  <2>3. PipelineTypeOK'
    BY <1>1, <2>1, <2>2 DEF CaptureInv, PipelineTypeOK, setup, controls, result
  <2>4. Copied'
    <3>1. \A i \in 1..Len(stamps) : raw'[i] = raw[i]
      BY <1>4, <2>2
    <3>2. \A i \in 1..Len(stamps) : stamps[i] = raw[i]
      BY DEF CaptureInv, Copied
    <3>3. held' = <<raw'[Len(raw')]>>
      BY <1>2, <2>1, <2>2
    <3> QED
      BY <1>1, <1>2, <1>4, <2>1, <2>2, <3>1, <3>2, <3>3 DEF Copied
  <2>5. Timed'
    <3>1. \A i \in 1..Len(raw') : raw'[i].wall <= now'
      <4>1. /\ \A i \in 1..Len(raw) : raw[i].wall <= now
            /\ held[1].wall <= now /\ now' = now
        BY <1>1 DEF CaptureInv, Timed
      <4>2. \A i \in 1..Len(raw') : i \in 1..Len(raw) \/ i = Len(raw) + 1
        BY <1>2, <2>2
      <4> QED
        BY <2>2, <4>1, <4>2
    <3>2. \A i \in 2..Len(raw') : raw'[i - 1].wall <= raw'[i].wall
      <4> TAKE i \in 2..Len(raw')
      <4>1. CASE i = Len(raw) + 1
        <5>1. i - 1 = Len(raw) /\ Len(raw) \in 1..Len(raw)
          BY <1>2, <2>2, <4>1
        <5>2. raw'[i - 1] = raw[Len(raw)] /\ raw # <<>>
          BY <1>2, <2>2, <5>1
        <5> QED
          BY <1>1, <2>2, <4>1, <5>2 DEF CaptureInv, Timed
      <4>2. CASE i \in 2..Len(raw)
        <5>0. i - 1 \in 1..Len(raw) /\ i \in 1..Len(raw)
          BY <1>2, <4>2
        <5>1. raw'[i - 1] = raw[i - 1] /\ raw'[i] = raw[i]
          BY <2>2, <5>0
        <5> QED
          BY <4>2, <5>1 DEF CaptureInv, Timed
      <4> QED
        BY <1>2, <2>2, <4>1, <4>2
    <3>3. held' # <<>> => held'[1].wall <= now'
      BY <1>1, <2>1 DEF CaptureInv, Timed
    <3>4. raw'[Len(raw')] = held'[1] /\ held'[1].wall \in Nat
      BY <1>2, <2>1, <2>2 DEF Lines
    <3>5. held' # <<>> /\ raw' # <<>> => raw'[Len(raw')].wall <= held'[1].wall
      BY <3>4
    <3> QED
      BY <3>1, <3>2, <3>3, <3>5 DEF Timed
  <2>6. Linked'
    <3>1. \A i \in 1..Len(raw') : Measured(raw'[i])
      BY <1>1, <1>2, <2>2 DEF CaptureInv, Linked
    <3>2. \A i \in 2..Len(raw') : raw'[i].start = raw'[i - 1].end
      <4> TAKE i \in 2..Len(raw')
      <4>1. CASE i = Len(raw) + 1
        <5>1. i - 1 = Len(raw) /\ Len(raw) \in 1..Len(raw)
          BY <1>2, <2>2, <4>1
        <5>2. raw'[i - 1] = raw[Len(raw)] /\ raw # <<>>
          BY <1>2, <2>2, <5>1
        <5>3. held[1].start = raw[Len(raw)].end
          BY <1>1, <1>4, <5>2 DEF CaptureInv, Linked, NextStart
        <5> QED
          BY <2>2, <4>1, <5>2, <5>3
      <4>2. CASE i \in 2..Len(raw)
        <5>0. i - 1 \in 1..Len(raw) /\ i \in 1..Len(raw)
          BY <1>2, <4>2
        <5>1. raw'[i - 1] = raw[i - 1] /\ raw'[i] = raw[i]
          BY <2>2, <5>0
        <5> QED
          BY <4>2, <5>1 DEF CaptureInv, Linked
      <4> QED
        BY <1>2, <2>2, <4>1, <4>2
    <3>3. held' # <<>> => Measured(held'[1])
      BY <1>1, <2>1 DEF CaptureInv, Linked
    <3>4. Len(raw') # Len(stamps')
      BY <1>2, <1>4, <2>1, <2>2
    <3> QED
      BY <3>1, <3>2, <3>3, <3>4 DEF Linked, Measured
  <2> QED
    BY <1>3, <2>3, <2>4, <2>5, <2>6 DEF CaptureInv
<1>5. CASE Len(raw) # Len(stamps)
  <2>1. stamps' = Append(stamps, held[1]) /\ held' = <<>> /\ UNCHANGED raw
    BY <1>5 DEF CaptureWrite
  <2>2. Len(raw) = Len(stamps) + 1 /\ held[1] = raw[Len(raw)]
    BY <1>2, <1>5 DEF CaptureInv, Copied
  <2>3. /\ stamps' \in Seq(Lines) /\ Len(stamps') = Len(raw)
        /\ \A i \in 1..Len(stamps) : stamps'[i] = stamps[i]
        /\ stamps'[Len(raw)] = raw[Len(raw)]
    BY <1>2, <2>1, <2>2
  <2>4. PipelineTypeOK'
    BY <1>1, <2>1, <2>3 DEF CaptureInv, PipelineTypeOK, setup, controls, result
  <2>5. Copied'
    <3>1. \A i \in 1..Len(stamps') : stamps'[i] = raw'[i]
      BY <1>2, <2>1, <2>2, <2>3 DEF CaptureInv, Copied
    <3> QED
      BY <1>2, <2>1, <2>3, <3>1 DEF Copied
  <2>6. Timed'
    BY <1>1, <2>1 DEF CaptureInv, Timed
  <2>7. Linked'
    BY <2>1 DEF CaptureInv, Linked, Measured
  <2> QED
    BY <1>3, <2>4, <2>5, <2>6, <2>7 DEF CaptureInv
<1> QED
  BY <1>4, <1>5

\* The clock and the control plane.
LEMMA OtherEnvironmentStep ==
  ASSUME CaptureInv,
         \/ Tick \/ Command \/ Acknowledge
         \/ \E ok \in BOOLEAN : Apply(ok)
  PROVE  CaptureInv'
<1>1. UNCHANGED <<stream, setup, pc, sizes, previous, result>>
  BY DEF Tick, Command, Acknowledge, Apply
<1>2. now' \in Nat /\ now <= now'
  <2>1. now \in Nat
    BY DEF CaptureInv, PipelineTypeOK
  <2>2. now' = now + 1 \/ now' = now
    BY DEF Tick, Command, Acknowledge, Apply
  <2> QED
    BY <2>1, <2>2
<1>3. /\ commands' \in Seq(Nat) /\ acks' \in Seq(Nat)
      /\ applied' \in Seq([at : Nat, ok : BOOLEAN])
      /\ Len(applied') <= Len(commands') /\ Len(commands') <= index
  <2>1. /\ now \in Nat /\ index \in Nat /\ commands \in Seq(Nat) /\ acks \in Seq(Nat)
        /\ applied \in Seq([at : Nat, ok : BOOLEAN])
        /\ Len(applied) <= Len(commands) /\ Len(commands) <= index
    BY PipelineAssumption DEF CaptureInv, PipelineTypeOK, Controlled
  <2>2. CASE Tick
    BY <2>1, <2>2 DEF Tick, controls
  <2>3. CASE Command
    BY <2>1, <2>3 DEF Command
  <2>4. CASE Acknowledge
    BY <2>1, <2>4 DEF Acknowledge
  <2>5. ASSUME NEW ok \in BOOLEAN, Apply(ok)
        PROVE  <1>3!:
    BY <2>1, <2>5 DEF Apply
  <2> QED
    BY <2>2, <2>3, <2>4, <2>5
<1>4. PipelineTypeOK'
  BY <1>1, <1>2, <1>3 DEF CaptureInv, PipelineTypeOK, stream, setup, result
<1>5. Copied'
  BY <1>1 DEF CaptureInv, Copied, stream
<1>6. Timed'
  <2>1. /\ \A i \in 1..Len(raw) : raw[i].wall \in Nat
        /\ held # <<>> => held[1].wall \in Nat
    <3>1. raw \in Seq(Lines) /\ held \in Seq(Lines)
      BY DEF CaptureInv, PipelineTypeOK
    <3>2. /\ \A i \in 1..Len(raw) : raw[i] \in Lines
          /\ held # <<>> => held[1] \in Lines
      BY <3>1
    <3> QED
      BY <3>2 DEF Lines
  <2>2. now \in Nat
    BY DEF CaptureInv, PipelineTypeOK
  <2> QED
    BY <1>1, <1>2, <2>1, <2>2 DEF CaptureInv, Timed, stream
<1>7. Linked'
  BY <1>1 DEF CaptureInv, Linked, NextStart, Measured, stream
<1>8. Controlled'
  BY <1>1, <1>3 DEF Controlled, setup
<1> QED
  BY <1>4, <1>5, <1>6, <1>7, <1>8 DEF CaptureInv

\* The environment's steps only make the files and the logs longer.
LEMMA FilesGrow ==
  ASSUME CaptureInv, EnvironmentNext
  PROVE  /\ UNCHANGED <<setup, pc, sizes, previous, result>>
         /\ Len(raw) <= Len(raw') /\ Len(stamps) <= Len(stamps')
         /\ \A i \in 1..Len(raw) : raw'[i] = raw[i]
         /\ \A i \in 1..Len(stamps) : stamps'[i] = stamps[i]
         /\ applied' = applied \/ Len(applied) < index
<1>1. raw \in Seq(Lines) /\ stamps \in Seq(Lines) /\ held \in Seq(Lines)
  BY DEF CaptureInv, PipelineTypeOK
<1>2. ASSUME NEW shape \in Shapes, CaptureRead(shape)
      PROVE  UNCHANGED <<raw, stamps, setup, controls, pc, sizes, previous, result>>
  BY <1>2 DEF CaptureRead
<1>3. CASE CaptureWrite
  <2>1. held[1] \in Lines
    BY <1>1, <1>3 DEF CaptureWrite
  <2>2. UNCHANGED <<setup, controls, pc, sizes, previous, result>>
    BY <1>3 DEF CaptureWrite
  <2>3. \/ raw' = Append(raw, held[1]) /\ stamps' = stamps
        \/ stamps' = Append(stamps, held[1]) /\ raw' = raw
    BY <1>3 DEF CaptureWrite
  <2>4. /\ Len(raw) <= Len(raw') /\ Len(stamps) <= Len(stamps')
        /\ \A i \in 1..Len(raw) : raw'[i] = raw[i]
        /\ \A i \in 1..Len(stamps) : stamps'[i] = stamps[i]
    <3>1. CASE raw' = Append(raw, held[1]) /\ stamps' = stamps
      BY <1>1, <2>1, <3>1
    <3>2. CASE stamps' = Append(stamps, held[1]) /\ raw' = raw
      BY <1>1, <2>1, <3>2
    <3> QED
      BY <2>3, <3>1, <3>2
  <2> QED
    BY <2>2, <2>4 DEF controls
<1>4. CASE Tick \/ Command \/ Acknowledge
  <2>1. UNCHANGED <<raw, stamps, setup, applied, pc, sizes, previous, result>>
    BY <1>4 DEF Tick, Command, Acknowledge, stream, controls
  <2> QED
    BY <1>1, <2>1
<1>5. ASSUME NEW ok \in BOOLEAN, Apply(ok)
      PROVE  /\ UNCHANGED <<raw, stamps, setup, pc, sizes, previous, result>>
             /\ Len(applied) < index
  BY <1>5 DEF Apply, stream, CaptureInv, Controlled, PipelineTypeOK
<1> QED
  BY <1>1, <1>2, <1>3, <1>4, <1>5 DEF EnvironmentNext, controls

\* A step of a consumer keeps what the seen sizes say of the files.
LEMMA SizesConsumer ==
  ASSUME CaptureInv, SizesSeen, ConsumerNext
  PROVE  SizesSeen'
<1>1. UNCHANGED environment
  BY EnvironmentKept
<1>2. /\ Len(raw) \in Nat /\ Len(stamps) \in Nat /\ Len(stamps) <= Len(raw)
      /\ sizes \in Nat \X Nat /\ previous \in Nat \X Nat
  BY DEF CaptureInv, PipelineTypeOK, Copied
<1>3. raw' = raw /\ stamps' = stamps
  BY <1>1 DEF environment, stream
<1> USE DEF SizesSeen, Goto
<1>4. CASE AdStart
  BY <1>2, <1>3, <1>4 DEF AdStart
<1>5. CASE AdTimeline
  BY <1>2, <1>3, <1>5 DEF AdTimeline
<1>6. CASE AdTimelineTimeout
  BY <1>2, <1>3, <1>6 DEF AdTimelineTimeout, Fail
<1>7. CASE AdStatRaw
  <2>1. sizes'[1] = Len(raw) /\ previous' = previous
    BY <1>7 DEF AdStatRaw
  <2>2. pc' = IF pc = "stat_raw" THEN "stat_stamps" ELSE "check_stamps"
    BY <1>7 DEF AdStatRaw
  <2> QED
    BY <1>2, <1>3, <1>7, <2>1, <2>2 DEF AdStatRaw
<1>8. CASE AdStatStamps
  <2>1. /\ pc = "stat_stamps" /\ sizes' = <<0, 0>>
        /\ \/ pc' = "stat_raw" /\ previous' = previous
           \/ pc' = "stat_raw" /\ previous' = <<sizes[1], Len(stamps)>>
           \/ /\ pc' = "check_raw" /\ previous' = previous
              /\ previous = <<sizes[1], Len(stamps)>>
    BY <1>8 DEF AdStatStamps
  <2> QED
    BY <1>2, <1>3, <2>1
<1>9. CASE AdCheckStamps
  <2>1. /\ pc = "check_stamps" /\ sizes' = <<0, 0>>
        /\ previous' = <<sizes[1], Len(stamps)>>
        /\ pc' = IF previous' = previous THEN "tools" ELSE "stat_raw"
    BY <1>9 DEF AdCheckStamps
  <2> QED
    BY <1>2, <1>3, <2>1
<1>10. CASE AdTimeout
  BY <1>2, <1>3, <1>10 DEF AdTimeout, Fail
<1>11. CASE AdTools
  <2>1. \/ pc' = "failed" /\ sizes' = <<0, 0>> /\ previous' = <<0, 0>>
        \/ pc = "tools" /\ pc' = "gate" /\ UNCHANGED <<sizes, previous>>
    BY <1>11 DEF AdTools, Fail
  <2> QED
    BY <1>2, <1>3, <2>1
<1>12. CASE HandoffExtend
  BY <1>2, <1>3, <1>12 DEF HandoffExtend
<1>13. CASE HandoffFreshness
  <2>1. \/ pc' = "failed" /\ sizes' = <<0, 0>> /\ previous' = <<0, 0>>
        \/ pc' = "done" /\ UNCHANGED <<sizes, previous>>
    BY <1>13 DEF HandoffFreshness, Fail
  <2> QED
    BY <1>2, <1>3, <2>1
<1>14. CASE TailStart
  BY <1>2, <1>3, <1>14 DEF TailStart
<1>15. CASE TailOpen
  BY <1>2, <1>3, <1>15 DEF TailOpen
<1>16. CASE TailRead
  <2>1. \/ pc' = "failed" /\ sizes' = <<0, 0>> /\ previous' = <<0, 0>>
        \/ pc' \in {"tail_open", "done"} /\ UNCHANGED <<sizes, previous>>
    BY <1>16 DEF TailRead, Fail
  <2> QED
    BY <1>2, <1>3, <2>1
<1>17. CASE TailTimeout
  BY <1>2, <1>3, <1>17 DEF TailTimeout, Fail
<1> QED
  BY <1>4, <1>5, <1>6, <1>7, <1>8, <1>9, <1>10, <1>11, <1>12, <1>13, <1>14,
     <1>15, <1>16, <1>17 DEF ConsumerNext, AdapterNext, TailNext

\* Every step keeps the invariant of the files and the sizes.
LEMMA SnapshotStep ==
  SnapshotInv /\ [PipelineNext]_pipelineVars => SnapshotInv'
<1> SUFFICES ASSUME SnapshotInv, [PipelineNext]_pipelineVars
             PROVE  SnapshotInv'
  OBVIOUS
<1>1. CASE EnvironmentNext
  <2>1. CaptureInv'
    BY <1>1, CaptureReadStep, CaptureWriteStep, OtherEnvironmentStep
       DEF EnvironmentNext, SnapshotInv
  <2>2. /\ UNCHANGED <<pc, sizes, previous>>
        /\ Len(raw) <= Len(raw') /\ Len(stamps) <= Len(stamps')
    BY <1>1, FilesGrow DEF SnapshotInv
  <2>3. /\ Len(raw) \in Nat /\ Len(stamps) \in Nat
        /\ Len(raw') \in Nat /\ Len(stamps') \in Nat
        /\ sizes \in Nat \X Nat /\ previous \in Nat \X Nat
    <3>1. /\ raw \in Seq(Lines) /\ stamps \in Seq(Lines)
          /\ sizes \in Nat \X Nat /\ previous \in Nat \X Nat
      BY DEF SnapshotInv, CaptureInv, PipelineTypeOK
    <3>2. raw' \in Seq(Lines) /\ stamps' \in Seq(Lines)
      BY <2>1 DEF CaptureInv, PipelineTypeOK
    <3> QED
      BY <3>1, <3>2
  <2>4. SizesSeen'
    BY <2>2, <2>3 DEF SnapshotInv, SizesSeen
  <2> QED
    BY <2>1, <2>4 DEF SnapshotInv
<1>2. CASE ConsumerNext
  <2>1. UNCHANGED environment
    BY <1>2, EnvironmentKept
  <2>2. PipelineTypeOK'
    BY <1>2, TypesConsumer DEF SnapshotInv, CaptureInv
  <2>3. Copied' /\ Timed' /\ Linked' /\ Controlled'
    BY <2>1 DEF SnapshotInv, CaptureInv, Copied, Timed, Linked, Controlled,
                environment, stream, setup, controls, NextStart, Measured
  <2> QED
    BY <1>2, <2>2, <2>3, SizesConsumer DEF SnapshotInv, CaptureInv
<1>3. CASE UNCHANGED pipelineVars
  <2>1. UNCHANGED <<environment, pc, sizes, previous, result>>
    BY <1>3 DEF pipelineVars, environment
  <2>2. PipelineTypeOK'
    BY <2>1 DEF SnapshotInv, CaptureInv, PipelineTypeOK, environment, stream,
                setup, controls, result
  <2>3. Copied' /\ Timed' /\ Linked' /\ Controlled'
    BY <2>1 DEF SnapshotInv, CaptureInv, Copied, Timed, Linked, Controlled,
                environment, stream, setup, controls, NextStart, Measured
  <2>4. SizesSeen'
    BY <2>1 DEF SnapshotInv, SizesSeen, environment, stream
  <2> QED
    BY <2>2, <2>3, <2>4 DEF SnapshotInv, CaptureInv
<1> QED
  BY <1>1, <1>2, <1>3 DEF PipelineNext, ConsumerNext

\* A snapshot that is taken between two equal pairs of sizes parses.
LEMMA SnapshotSafe == SnapshotInv => SnapshotParses
<1> SUFFICES ASSUME SnapshotInv, pc = "tools"
             PROVE  ParserAccepts(Snapshot.lines, Snapshot.records)
  BY DEF SnapshotParses
<1> DEFINE lines == Snapshot.lines
           records == Snapshot.records
<1>1. /\ raw \in Seq(Lines) /\ stamps \in Seq(Lines)
      /\ previous[1] \in 0..Len(raw) /\ previous[2] \in 0..Len(stamps)
      /\ previous[2] <= previous[1]
      /\ \A i \in 1..Len(stamps) : stamps[i] = raw[i]
      /\ \A i \in 2..Len(raw) : raw[i - 1].wall <= raw[i].wall
  <2>1. /\ raw \in Seq(Lines) /\ stamps \in Seq(Lines) /\ previous \in Nat \X Nat
    BY DEF SnapshotInv, CaptureInv, PipelineTypeOK
  <2>2. /\ previous[1] <= Len(raw) /\ previous[2] <= Len(stamps)
        /\ previous[2] <= previous[1]
    BY DEF SnapshotInv, SizesSeen
  <2>3. /\ \A i \in 1..Len(stamps) : stamps[i] = raw[i]
        /\ \A i \in 2..Len(raw) : raw[i - 1].wall <= raw[i].wall
    BY DEF SnapshotInv, CaptureInv, Copied, Timed
  <2> QED
    BY <2>1, <2>2, <2>3
<1>2. /\ lines \in Seq(Lines) /\ Len(lines) = previous[1]
      /\ \A i \in 1..previous[1] : lines[i] = raw[i]
  BY <1>1 DEF Snapshot
<1>3. /\ records \in Seq(Lines) /\ Len(records) = previous[2]
      /\ \A i \in 1..previous[2] : records[i] = stamps[i]
  BY <1>1 DEF Snapshot
<1> HIDE DEF lines, records
<1>4. Len(stamps) <= Len(raw)
  BY DEF SnapshotInv, CaptureInv, Copied
<1>5. ASSUME NEW i \in DOMAIN records
      PROVE  /\ records[i] = lines[i]
             /\ i > 1 => records[i - 1].wall <= records[i].wall
  <2>1. i \in 1..previous[2] /\ i \in 1..previous[1] /\ i \in 1..Len(stamps)
    BY <1>1, <1>3
  <2>2. records[i] = raw[i]
    BY <1>1, <1>3, <2>1
  <2>3. i > 1 => /\ i - 1 \in 1..previous[2] /\ i - 1 \in 1..Len(stamps)
                 /\ i \in 2..Len(raw)
    BY <1>1, <1>4, <2>1
  <2>4. i > 1 => records[i - 1] = raw[i - 1]
    BY <1>1, <1>3, <2>3
  <2> QED
    BY <1>1, <1>2, <2>1, <2>2, <2>3, <2>4
<1>6. Len(records) <= Len(lines)
  BY <1>1, <1>2, <1>3
<1>7. ParserAccepts(lines, records)
  BY <1>5, <1>6 DEF ParserAccepts
<1> QED
  BY <1>7 DEF lines, records


(*************************************************************************)
(* What a report that passes was computed from, and what a handoff picks. *)
(*************************************************************************)
\* What does not go down from one element to the next does not go down.
LEMMA Monotone ==
  ASSUME NEW n \in Nat, NEW f \in [1..n -> Nat],
         \A i \in 2..n : f[i - 1] <= f[i],
         NEW i \in 1..n, NEW j \in i..n
  PROVE  f[i] <= f[j]
<1> DEFINE T == {d \in 0..(j - i) : f[i] <= f[i + d]}
<1>1. j - i \in Nat /\ f[i] \in Nat
  OBVIOUS
<1>2. 0 \in T
  BY <1>1
<1>3. ASSUME NEW d \in 1..(j - i), d - 1 \in T
      PROVE  d \in T
  <2>1. /\ i + d \in 2..n /\ i + d \in 1..n /\ i + (d - 1) \in 1..n
        /\ i + d - 1 = i + (d - 1) /\ d \in 0..(j - i)
    BY <1>1
  <2>2. f[i + (d - 1)] <= f[i + d]
    <3> DEFINE m == i + d
    <3>1. m \in 2..n /\ m - 1 = i + (d - 1)
      BY <2>1
    <3> HIDE DEF m
    <3>2. f[m - 1] <= f[m]
      BY <3>1
    <3> QED
      BY <3>1, <3>2 DEF m
  <2>3. f[i + d] \in Nat /\ f[i + (d - 1)] \in Nat
    BY <2>1
  <2>4. f[i] <= f[i + (d - 1)]
    BY <1>3
  <2> QED
    BY <1>1, <2>1, <2>2, <2>3, <2>4
<1>4. j - i \in T
  <2> HIDE DEF T
  <2>1. \A d \in 0..(j - i) : d \in T
    BY <1>1, <1>2, <1>3, IntervalInduction
  <2> QED
    BY <1>1, <2>1
<1>5. i + (j - i) = j
  OBVIOUS
<1> QED
  BY <1>4, <1>5

\* Arithmetic of the two last whole windows of a block.
LEMMA WholeWindows ==
  ASSUME NEW a \in Nat, NEW w \in Nat \ {0}, NEW q, q = a \div w, ~(q < 2)
  PROVE  /\ q \in Nat /\ (q - 2) * w \in Nat /\ q * w \in Nat /\ q * w <= a
         /\ q * w = (q - 2) * w + 2 * w
<1>1. q \in Nat /\ q >= 2
  OBVIOUS
<1>2. q * w <= a
  BY <1>1
<1>3. \A x, y \in Nat : x * y \in Nat
  OBVIOUS
<1>4. q - 2 \in Nat /\ q = (q - 2) + 2
  BY <1>1
<1>5. \A x, y \in Nat : (x + 2) * y = x * y + 2 * y
  OBVIOUS
<1>6. q * w = (q - 2) * w + 2 * w
  BY <1>4, <1>5
<1> QED
  BY <1>1, <1>2, <1>3, <1>4, <1>6

\* A block of eligible rows, long enough for two windows, that no eligible row
\* follows, with the windows inside it.
Block(rows, origin, windows) ==
    \E e \in 1..Len(rows) : \E b \in 1..e :
        /\ e - b + 1 >= 2 * W
        /\ \A i \in b..e : eligible(rows[i], origin)
        /\ \A i \in (e + 1)..Len(rows) : ~eligible(rows[i], origin)
        /\ \A i \in DOMAIN windows : \E j \in b..e : windows[i] = rows[j]

\* What a stationarity report that passes was computed from.
LEMMA ReportPasses ==
  ASSUME NEW rows \in Seq(Lines), NEW origin, NEW post, NEW r,
         r = evaluate(rows, origin, post), r.gate = "PASS"
  PROVE  Block(rows, origin, r.windows)
<1> DEFINE run == latest_eligible_run(rows, origin)
           full == Len(run) \div W
<1>1. ~(full < 2) /\ r.windows = WindowPair(run)
  <2> HIDE DEF run
  <2>1. CASE full < 2
    <3>1. r.gate = "FAIL"
      BY <2>1 DEF evaluate, run
    <3> QED
      BY <3>1
  <2>2. CASE ~(full < 2)
    BY <2>2 DEF evaluate, run
  <2> QED
    BY <2>1, <2>2
<1>2. W \in Nat \ {0} /\ Len(rows) \in Nat
  BY PipelineAssumption
<1>3. CASE run = <<>>
  <2>1. Len(run) = 0
    BY <1>3
  <2>2. 0 \div W = 0
    BY <1>2
  <2> QED
    BY <1>1, <2>1, <2>2
<1>4. CASE \E e \in 1..Len(rows) : \E b \in 1..e :
               /\ LastStretch(rows, origin, b, e, Len(rows))
               /\ run = SubSeq(rows, b, e)
  <2> HIDE DEF run, full
  <2>1. PICK e \in 1..Len(rows) : \E b \in 1..e :
               /\ LastStretch(rows, origin, b, e, Len(rows))
               /\ run = SubSeq(rows, b, e)
    BY <1>4
  <2>2. PICK b \in 1..e : /\ LastStretch(rows, origin, b, e, Len(rows))
                          /\ run = SubSeq(rows, b, e)
    BY <2>1
  <2>3. b \in 1..Len(rows) /\ e \in b..Len(rows)
    BY <1>2
  <2>4. /\ run \in Seq(Lines) /\ Len(run) = e - b + 1
        /\ \A i \in 1..(e - b + 1) : run[i] = rows[b + i - 1]
    BY <2>2, <2>3, SubSeqAppend
  <2> DEFINE lo == (full - 2) * W
             hi == full * W
  <2>5. lo \in Nat /\ hi \in Nat /\ hi <= Len(run) /\ hi = lo + 2 * W
    <3>1. Len(run) \in Nat
      BY <2>4
    <3> QED
      BY <1>1, <1>2, <3>1, WholeWindows DEF full
  <2>6. r.windows = SubSeq(run, lo + 1, hi)
    BY <1>1 DEF WindowPair, full
  <2> HIDE DEF lo, hi
  <2>7. lo + 1 \in 1..Len(run) /\ hi \in (lo + 1)..Len(run)
    BY <1>2, <2>4, <2>5
  <2>8. /\ r.windows \in Seq(Lines) /\ Len(r.windows) = hi - (lo + 1) + 1
        /\ \A i \in 1..(hi - (lo + 1) + 1) : r.windows[i] = run[lo + 1 + i - 1]
    <3> DEFINE start == lo + 1
    <3>1. start \in 1..Len(run) /\ hi \in start..Len(run)
      BY <2>7
    <3>2. r.windows = SubSeq(run, start, hi)
      BY <2>6
    <3> HIDE DEF start
    <3>3. /\ r.windows \in Seq(Lines) /\ Len(r.windows) = hi - start + 1
          /\ \A i \in 1..(hi - start + 1) : r.windows[i] = run[start + i - 1]
      <4>1. run \in Seq(Lines)
        BY <2>4
      <4>2. /\ SubSeq(run, start, hi) \in Seq(Lines)
            /\ Len(SubSeq(run, start, hi)) = hi - start + 1
            /\ \A i \in 1..(hi - start + 1) :
                  SubSeq(run, start, hi)[i] = run[start + i - 1]
        BY ONLY <3>1, <4>1, SubSeqAppend
      <4> QED
        BY ONLY <3>2, <4>2
    <3> QED
      BY <3>3, Zenon DEF start
  <2>9. ASSUME NEW i \in DOMAIN r.windows
        PROVE  \E j \in b..e : r.windows[i] = rows[j]
    <3>1. i \in 1..(hi - (lo + 1) + 1) /\ lo + 1 + i - 1 = lo + i
      <4>1. i \in 1..Len(r.windows)
        BY <2>8
      <4> QED
        BY <2>5, <2>8, <4>1
    <3>2. lo + i \in 1..(e - b + 1) /\ b + (lo + i) - 1 \in b..e
      <4>1. i \in Nat /\ i >= 1 /\ i <= 2 * W
        BY <1>2, <2>5, <3>1
      <4>2. lo + i \in Nat /\ lo + i >= 1 /\ lo + i <= e - b + 1
        <5> DEFINE w == 2 * W
        <5>1. /\ w \in Nat /\ i \in Nat /\ i >= 1 /\ i <= w
              /\ lo \in Nat /\ hi = lo + w /\ hi <= e - b + 1
              /\ e \in Nat /\ b \in Nat
          BY <1>2, <2>3, <2>4, <2>5, <4>1
        <5> HIDE DEF w
        <5> QED
          BY ONLY <5>1
      <4> QED
        BY <1>2, <2>3, <4>2
    <3>3. r.windows[i] = run[lo + i]
      BY <2>8, <3>1
    <3>4. run[lo + i] = rows[b + (lo + i) - 1]
      BY <2>4, <3>2
    <3> QED
      BY <3>2, <3>3, <3>4
  <2>10. e - b + 1 >= 2 * W
    BY <1>2, <2>3, <2>4, <2>5
  <2> QED
    BY <2>2, <2>9, <2>10 DEF LastStretch, Stretch, Block
<1> QED
  BY <1>3, <1>4, RunReturned

\* The rows of a snapshot are lines of the file, measured as their shapes say.
LEMMA RowsMeasured ==
  ASSUME SnapshotInv
  PROVE  /\ Rows \in Seq(Lines)
         /\ \A i \in 1..Len(Rows) : Rows[i].shape # "none" /\ Measured(Rows[i])
<1> DEFINE records == Snapshot.records
           P == {i \in DOMAIN records : records[i].shape # "none"}
<1>1. /\ stamps \in Seq(Lines) /\ previous[2] \in Nat
      /\ previous[2] <= Len(stamps) /\ Len(stamps) <= Len(raw)
      /\ \A i \in 1..Len(stamps) : stamps[i] = raw[i]
      /\ \A i \in 1..Len(raw) : Measured(raw[i])
  BY DEF SnapshotInv, CaptureInv, PipelineTypeOK, SizesSeen, Copied, Linked
<1>2. /\ records \in Seq(Lines) /\ Len(records) = previous[2]
      /\ \A i \in 1..previous[2] : records[i] = stamps[i]
  BY <1>1 DEF Snapshot
<1>3. Len(raw) \in Nat /\ Len(stamps) \in Nat
  BY DEF SnapshotInv, CaptureInv, PipelineTypeOK
<1> HIDE DEF records
<1>4. \A i \in 1..Len(records) : Measured(records[i])
  <2> TAKE i \in 1..Len(records)
  <2>1. i \in 1..previous[2] /\ i \in 1..Len(stamps) /\ i \in 1..Len(raw)
    BY <1>1, <1>2, <1>3
  <2>2. records[i] = raw[i]
    BY <1>1, <1>2, <2>1
  <2> QED
    BY <1>1, <2>1, <2>2
<1>5. Rows = Kept(records, P)[Len(records)]
  BY DEF Rows, Parsed, Filter, records
<1>6. Rows \in Seq(Lines)
  BY <1>2, <1>5, FilterTyped DEF Filter
<1>7. Len(records) \in 0..Len(records)
  BY <1>2
<1>8. ASSUME NEW m \in 1..Len(Rows)
      PROVE  Rows[m].shape # "none" /\ Measured(Rows[m])
  <2>1. PICK i \in 1..Len(records) : i \in P /\ Rows[m] = records[i]
    <3> DEFINE n == Len(records)
    <3> HIDE DEF P
    <3>1. \A j \in 1..Len(Kept(records, P)[n]) :
             \E i \in 1..n : i \in P /\ Kept(records, P)[n][j] = records[i]
      BY <1>2, <1>7, KeptFrom
    <3> HIDE DEF n
    <3>2. Rows = Kept(records, P)[n]
      BY <1>5 DEF n
    <3> QED
      BY <3>1, <3>2 DEF n
  <2> QED
    BY <1>4, <2>1
<1> QED
  BY <1>6, <1>8

\* A complete row after an eligible one is eligible.
LEMMA CompleteIsEligible ==
  ASSUME NEW p \in Lines, NEW r \in Lines, NEW origin \in Nat,
         p.shape # "none", Measured(p), r.shape # "none", Measured(r),
         p.wall < r.wall, eligible(p, origin), classify_interval(r) = "complete"
  PROVE  eligible(r, origin)
<1>1. \A q \in Lines : q.shape # "none" /\ classify_interval(q) = "complete"
                          => q.shape = "complete_0p2"
  BY DEF Lines, Shapes, classify_interval, base_interval_class
<1>2. \A q \in Lines : q.shape = "complete_0p2" /\ Measured(q)
                          => ObservedStart(q) = q.wall - Period
  BY PipelineAssumption DEF Lines, Measured, Reported, ObservedStart
<1>3. /\ ObservedStart(p) = p.wall - Period /\ ObservedStart(r) = r.wall - Period
      /\ ObservedStart(p) >= origin
  BY <1>1, <1>2 DEF eligible
<1>4. p.wall \in Nat /\ r.wall \in Nat /\ Period \in Nat
  BY PipelineAssumption DEF Lines
<1>5. ObservedStart(r) >= origin
  BY <1>3, <1>4
<1> QED
  BY <1>5 DEF eligible

\* The samples the freshness tool selects lie in the block the report found.
LEMMA SelectedInBlock ==
  ASSUME NEW rows \in Seq(Lines), NEW origin \in Nat,
         \A i \in 1..Len(rows) : rows[i].shape # "none" /\ Measured(rows[i]),
         FreshnessAccepts(rows),
         NEW e \in 1..Len(rows), NEW b \in 1..e, e - b + 1 >= 2 * W,
         \A i \in b..e : eligible(rows[i], origin),
         \A i \in (e + 1)..Len(rows) : ~eligible(rows[i], origin)
  PROVE  \A i \in DOMAIN Selected(rows) : eligible(Selected(rows)[i], origin)
<1> DEFINE n == Len(rows)
           P == {i \in DOMAIN rows : classify_interval(rows[i]) = "complete"}
           k == Kept(rows, P)
           c == Complete(rows)
<1>1. W \in Nat \ {0} /\ n \in Nat /\ DOMAIN rows = 1..n
  BY PipelineAssumption
<1>2. \A i \in 2..n : rows[i - 1].wall < rows[i].wall
  BY DEF FreshnessAccepts
<1>3. \A j \in (e + 1)..n : rows[e].wall < rows[j].wall
  <2> DEFINE f == [i \in 1..n |-> rows[i].wall]
  <2>1. f \in [1..n -> Nat]
    <3>1. \A i \in 1..n : rows[i] \in Lines
      OBVIOUS
    <3> QED
      BY <3>1 DEF Lines
  <2>2. \A i \in 2..n : f[i - 1] < f[i]
    <3>1. \A i \in 2..n : i \in 1..n /\ i - 1 \in 1..n
      BY <1>1
    <3> QED
      BY <1>2, <3>1
  <2>3. \A i \in 1..n : f[i] \in Nat
    BY <2>1
  <2>4. ASSUME NEW j \in (e + 1)..n PROVE rows[e].wall < rows[j].wall
    <3>1. /\ e + 1 \in 2..n /\ e + 1 \in 1..n /\ (e + 1) - 1 = e
          /\ j \in (e + 1)..n /\ j \in 1..n /\ e \in 1..n
      BY <1>1
    <3> HIDE DEF f
    <3>2. f[e] < f[e + 1]
      BY <2>2, <3>1
    <3>3. \A i \in 2..n : f[i - 1] <= f[i]
      <4> TAKE i \in 2..n
      <4>1. i \in 1..n /\ i - 1 \in 1..n
        BY <1>1
      <4>2. f[i - 1] < f[i] /\ f[i - 1] \in Nat /\ f[i] \in Nat
        BY <2>2, <2>3, <4>1
      <4>3. \A x, y \in Nat : x < y => x <= y
        OBVIOUS
      <4> QED
        BY ONLY <4>2, <4>3
    <3>4. f[e + 1] <= f[j]
      BY <1>1, <2>1, <3>1, <3>3, Monotone
    <3>5. f[e] \in Nat /\ f[e + 1] \in Nat /\ f[j] \in Nat
      BY <2>3, <3>1
    <3>6. f[e] < f[j]
      <4>1. \A x, y, z \in Nat : x < y /\ y <= z => x < z
        OBVIOUS
      <4> QED
        BY <3>2, <3>4, <3>5, <4>1
    <3> QED
      BY <3>1, <3>6 DEF f
  <2> QED
    BY <2>4
<1>4. \A j \in (e + 1)..n : j \notin P
  <2> SUFFICES ASSUME NEW j \in (e + 1)..n, j \in P PROVE FALSE
    OBVIOUS
  <2>1. /\ j \in 1..n /\ e \in 1..n /\ e \in b..e
        /\ rows[j] \in Lines /\ rows[e] \in Lines
    BY <1>1
  <2>2. eligible(rows[j], origin)
    BY <1>3, <2>1, CompleteIsEligible
  <2> QED
    BY <2>2
<1>5. \A j \in b..e : j \in P
  BY <1>1 DEF eligible
<1> HIDE DEF P
<1>6. c = k[n]
  BY DEF Complete, Filter, P
<1>7. e \in 0..n /\ b - 1 \in 0..n /\ e \in (b - 1)..n /\ n \in e..n
  BY <1>1
<1>8. k[n] = k[e]
  BY <1>4, <1>7, KeptNone
<1> DEFINE m == Len(k[b - 1])
<1>9. /\ Len(k[e]) = m + (e - (b - 1))
      /\ \A i \in 1..(e - (b - 1)) : k[e][m + i] = rows[b - 1 + i]
  <2>1. \A i \in (b - 1 + 1)..e : i \in P
    BY <1>1, <1>5
  <2> DEFINE a == b - 1
  <2>2. a \in 0..n /\ e \in a..n /\ \A i \in (a + 1)..e : i \in P
    BY <1>7, <2>1
  <2> HIDE DEF a
  <2>4. rows \in Seq(Lines)
    OBVIOUS
  <2>3. AllAdded(rows, P, a, e)
    BY ONLY <2>2, <2>4, KeptAll
  <2> QED
    BY <2>3 DEF AllAdded, a
<1>10. m \in Nat /\ c \in Seq(Lines)
  <2>1. k \in [0..n -> Seq(Lines)]
    BY KeptSteps
  <2> HIDE DEF k
  <2>2. k[b - 1] \in Seq(Lines) /\ k[n] \in Seq(Lines)
    <3> DEFINE Q == Seq(Lines)
               a == b - 1
    <3>1. k \in [0..n -> Q] /\ a \in 0..n /\ n \in 0..n
      BY <1>1, <1>7, <2>1
    <3> HIDE DEF Q, a, n
    <3>2. k[a] \in Q /\ k[n] \in Q
      BY ONLY <3>1
    <3> QED
      BY <3>2 DEF Q, a, n
  <2> QED
    BY <1>6, <2>2
<1> HIDE DEF k, m, c
<1>11. Len(c) = m + (e - b + 1)
  BY <1>1, <1>6, <1>8, <1>9
<1> DEFINE lo == Len(c) - 2 * W + 1
<1>12. lo \in 1..Len(c) /\ Len(c) \in lo..Len(c) /\ Len(c) - lo + 1 = 2 * W
  BY <1>1, <1>10, <1>11
<1>13. Selected(rows) = SubSeq(c, lo, Len(c))
  BY DEF Selected, c
<1>14. /\ Selected(rows) \in Seq(Lines) /\ Len(Selected(rows)) = 2 * W
       /\ \A i \in 1..(2 * W) : Selected(rows)[i] = c[lo + i - 1]
  <2> HIDE DEF lo
  <2>1. /\ SubSeq(c, lo, Len(c)) \in Seq(Lines)
        /\ Len(SubSeq(c, lo, Len(c))) = Len(c) - lo + 1
        /\ \A i \in 1..(Len(c) - lo + 1) : SubSeq(c, lo, Len(c))[i] = c[lo + i - 1]
    BY <1>10, <1>12, SubSeqAppend
  <2> QED
    BY <1>12, <1>13, <2>1
<1>15. ASSUME NEW i \in DOMAIN Selected(rows)
       PROVE  eligible(Selected(rows)[i], origin)
  <2> DEFINE d == (e - b + 1) - 2 * W + i
  <2>1. i \in 1..(2 * W)
    BY <1>14
  <2>2. /\ d \in 1..(e - (b - 1)) /\ lo + i - 1 = m + d /\ b - 1 + d \in b..e
    BY <1>1, <1>10, <1>11, <2>1
  <2> HIDE DEF d, lo
  <2>3. Selected(rows)[i] = k[e][m + d]
    BY <1>6, <1>8, <1>14, <2>1, <2>2
  <2>4. Selected(rows)[i] = rows[b - 1 + d]
    BY <1>9, <2>2, <2>3
  <2> QED
    BY <2>2, <2>4
<1> QED
  BY <1>15


(*************************************************************************)
(* Decisions: every step keeps them after the last control.              *)
(*************************************************************************)
\* The time origin is the readback of the last control.
LEMMA OriginIsReadback ==
  ASSUME SnapshotInv, TimelineIsLog, pc \in Evaluating, index > 0
  PROVE  Origin = applied[index].at /\ Origin \in Nat
<1>1. index \in 1..index /\ applied \in Seq([at : Nat, ok : BOOLEAN])
      /\ Len(applied) = index
  BY PipelineAssumption
     DEF SnapshotInv, CaptureInv, PipelineTypeOK, TimelineIsLog, AllApplied
<1>2. timeline[index].applied = applied[index].at
  BY <1>1 DEF TimelineIsLog
<1>3. applied[index] \in [at : Nat, ok : BOOLEAN]
  <2>1. index \in 1..Len(applied)
    BY <1>1
  <2> QED
    BY <1>1, <2>1, ElementOfSeq
<1> QED
  BY <1>2, <1>3 DEF Origin, load_post_t0

\* While the files grow, what was copied of them stays.
LEMMA RowsKept ==
  ASSUME SnapshotInv, EnvironmentNext
  PROVE  Rows' = Rows
<1>1. /\ UNCHANGED <<setup, pc, sizes, previous, result>>
      /\ Len(stamps) <= Len(stamps')
      /\ \A i \in 1..Len(stamps) : stamps'[i] = stamps[i]
  BY FilesGrow DEF SnapshotInv
<1>2. CaptureInv'
  BY CaptureReadStep, CaptureWriteStep, OtherEnvironmentStep
     DEF EnvironmentNext, SnapshotInv
<1>3. /\ stamps \in Seq(Lines) /\ previous[2] \in Nat /\ previous[2] <= Len(stamps)
  BY DEF SnapshotInv, CaptureInv, PipelineTypeOK, SizesSeen
<1>4. stamps' \in Seq(Lines) /\ previous' = previous
  BY <1>1, <1>2 DEF CaptureInv, PipelineTypeOK
<1> DEFINE n == previous[2]
           s == SubSeq(stamps, 1, n)
           t == SubSeq(stamps', 1, n)
<1> HIDE DEF n
<1>5. n \in Nat /\ n <= Len(stamps) /\ n <= Len(stamps') /\ Len(stamps) \in Nat
      /\ Len(stamps') \in Nat
  BY <1>1, <1>3, <1>4 DEF n
<1>6. /\ s \in Seq(Lines) /\ Len(s) = n /\ \A i \in 1..n : s[i] = stamps[i]
  BY <1>3, <1>5
<1>7. /\ t \in Seq(Lines) /\ Len(t) = n /\ \A i \in 1..n : t[i] = stamps'[i]
  BY <1>4, <1>5
<1> HIDE DEF s, t
<1>8. \A i \in 1..n : s[i] = t[i]
  <2> TAKE i \in 1..n
  <2>1. i \in 1..Len(stamps)
    BY <1>5
  <2> QED
    BY <1>1, <1>6, <1>7, <2>1
<1>9. s = t
  BY <1>6, <1>7, <1>8, SeqEqual
<1> QED
  BY <1>4, <1>9 DEF Rows, Snapshot, Parsed, n, s, t

\* The invariant that decisions rest on.
Deciding ==
    SnapshotInv /\ TimelineIsLog /\ WindowsStand /\ BlockFound /\ TailPlace
      /\ PickedStand

\* The first state.
LEMMA DecidingInit == PipelineInit => Deciding
<1> SUFFICES ASSUME PipelineInit PROVE Deciding
  OBVIOUS
<1>1. SnapshotInv
  BY SnapshotInit
<1> QED
  BY <1>1 DEF PipelineInit, NoReport, Deciding, TimelineIsLog, WindowsStand,
              BlockFound, TailPlace, PickedStand, Evaluating

\* Once all controls are applied the log of readbacks stays.
LEMMA AppliedStays ==
  ASSUME SnapshotInv, EnvironmentNext, AllApplied
  PROVE  applied' = applied /\ AllApplied'
<1>1. index' = index
  BY FilesGrow DEF SnapshotInv, setup
<1>2. applied' = applied
  BY FilesGrow DEF SnapshotInv, CaptureInv, PipelineTypeOK, AllApplied
<1> QED
  BY <1>1, <1>2 DEF AllApplied

\* While a consumer works on what it has copied, the environment cannot
\* change what it decides.
LEMMA DecidingEnvironment ==
  ASSUME Deciding, EnvironmentNext
  PROVE  TimelineIsLog' /\ WindowsStand' /\ BlockFound' /\ TailPlace' /\ PickedStand'
<1>1. SnapshotInv
  BY DEF Deciding
<1>2. UNCHANGED <<setup, pc, sizes, previous, result>>
  BY <1>1, FilesGrow DEF SnapshotInv
<1>3. /\ index' = index /\ consumer' = consumer /\ pc' = pc /\ timeline' = timeline
      /\ report' = report /\ picked' = picked
  BY <1>2 DEF setup, result
<1>4. AllApplied => applied' = applied /\ AllApplied'
  BY <1>1, AppliedStays
<1>5. TimelineIsLog'
  BY <1>3, <1>4 DEF Deciding, TimelineIsLog, Evaluating
<1>6. WindowsStand'
  BY <1>3, <1>4 DEF Deciding, WindowsStand, ObservedStart
<1>7. PickedStand'
  BY <1>3, <1>4 DEF Deciding, PickedStand, ObservedStart
<1>8. BlockFound'
  <2>1. Rows' = Rows
    BY <1>1, RowsKept
  <2>2. Origin' = Origin
    BY <1>3 DEF Origin, load_post_t0
  <2> QED
    BY <1>3, <2>1, <2>2
       DEF Deciding, BlockFound, eligible, classify_interval, Crossings,
           ObservedStart, base_interval_class
<1>9. TailPlace'
  BY <1>3 DEF Deciding, TailPlace
<1> QED
  BY <1>5, <1>6, <1>7, <1>8, <1>9

\* What is unchanged in every step of a consumer, and what follows if nothing
\* but the place changes.
LEMMA TimelineConsumer ==
  ASSUME Deciding, ConsumerNext
  PROVE  TimelineIsLog' /\ TailPlace'
<1>1. UNCHANGED environment
  BY EnvironmentKept
<1>2. index' = index /\ applied' = applied /\ consumer' = consumer
  BY <1>1 DEF environment, setup, controls
<1>3. AllApplied' = AllApplied
  BY <1>2 DEF AllApplied
<1>4. CASE AdStart
  BY <1>2, <1>4 DEF AdStart, TimelineIsLog, TailPlace, Evaluating, Goto
<1>5. CASE AdTimeline
  <2>1. index > 0 => index \in Nat
    BY PipelineAssumption DEF Deciding, SnapshotInv, CaptureInv, PipelineTypeOK
  <2>2. pc' = "stat_raw" /\ TimelineReady /\ timeline' = build_events
    BY <1>5 DEF AdTimeline, Goto
  <2>3. AllApplied
    BY <2>2 DEF TimelineReady, AllApplied
  <2>4. /\ \A i \in 1..index : timeline'[i].applied = applied[i].at
        /\ index > 0 => Len(timeline') = index
    BY <2>1, <2>2 DEF build_events
  <2> QED
    BY <1>2, <1>3, <2>2, <2>3, <2>4 DEF TimelineIsLog, TailPlace
<1>6. CASE /\ pc \in Evaluating /\ pc' \in Evaluating
           /\ timeline' = timeline
  BY <1>2, <1>3, <1>6 DEF Deciding, TimelineIsLog, TailPlace, Evaluating
<1>7. CASE pc' \in {"failed", "done", "start"}
  BY <1>7 DEF TimelineIsLog, TailPlace, Evaluating
<1>8. CASE consumer = "tail" /\ pc' \in {"tail_open", "tail_read"}
  BY <1>2, <1>8 DEF TimelineIsLog, TailPlace, Evaluating
<1>9. CASE AdTimelineTimeout \/ AdTimeout \/ TailTimeout
  BY <1>7, <1>9 DEF AdTimelineTimeout, AdTimeout, TailTimeout, Fail
<1>10. CASE AdStatRaw
  BY <1>6, <1>10 DEF AdStatRaw, Goto, Evaluating, result
<1>11. CASE AdStatStamps
  BY <1>6, <1>11 DEF AdStatStamps, Goto, Evaluating, result
<1>12. CASE AdCheckStamps
  BY <1>6, <1>12 DEF AdCheckStamps, Goto, Evaluating, result
<1>13. CASE AdTools
  <2>1. \/ pc' = "failed"
        \/ pc = "tools" /\ pc' = "gate" /\ timeline' = timeline
    BY <1>13 DEF AdTools, Fail, Goto
  <2> QED
    BY <1>6, <1>7, <2>1 DEF Evaluating
<1>14. CASE HandoffExtend
  BY <1>7, <1>14 DEF HandoffExtend, Goto
<1>15. CASE HandoffFreshness
  <2>1. pc' \in {"failed", "done"}
    BY <1>15 DEF HandoffFreshness, Fail, Goto
  <2> QED
    BY <1>7, <2>1
<1>16. CASE TailStart
  BY <1>8, <1>16 DEF TailStart, Goto
<1>17. CASE TailOpen
  BY <1>8, <1>17 DEF TailOpen, Goto, Deciding, TailPlace
<1>18. CASE TailRead
  <2>1. pc = "tail_read" /\ pc' \in {"tail_open", "failed", "done"}
    BY <1>18 DEF TailRead, Fail, Goto
  <2> QED
    BY <1>7, <1>8, <2>1 DEF Deciding, TailPlace
<1> QED
  BY <1>4, <1>5, <1>9, <1>10, <1>11, <1>12, <1>13, <1>14, <1>15, <1>16, <1>17,
     <1>18 DEF ConsumerNext, AdapterNext, TailNext

\* The steps that neither make a report nor admit a control.
LEMMA QuietConsumer ==
  ASSUME Deciding, ConsumerNext, picked' = picked, pc' # "gate",
         report' = report \/ report' = NoReport
  PROVE  WindowsStand' /\ BlockFound' /\ PickedStand'
<1>1. UNCHANGED environment
  BY EnvironmentKept
<1>2. index' = index /\ applied' = applied /\ consumer' = consumer
  BY <1>1 DEF environment, setup, controls
<1>3. AllApplied' = AllApplied
  BY <1>2 DEF AllApplied
<1>4. WindowsStand'
  <2>1. CASE report' = report
    BY <1>2, <1>3, <2>1 DEF Deciding, WindowsStand, ObservedStart
  <2>2. CASE report' = NoReport
    BY <2>2 DEF NoReport, WindowsStand
  <2> QED
    BY <2>1, <2>2
<1>5. BlockFound'
  BY DEF BlockFound
<1>6. PickedStand'
  BY <1>2, <1>3 DEF Deciding, PickedStand, ObservedStart
<1> QED
  BY <1>4, <1>5, <1>6

\* Evaluating a snapshot: the windows of a PASS lie after the last control.
LEMMA ToolsStep ==
  ASSUME Deciding, AdTools
  PROVE  WindowsStand' /\ BlockFound' /\ PickedStand'
<1>1. UNCHANGED environment /\ ConsumerNext
  BY EnvironmentKept DEF AdTools, ConsumerNext, AdapterNext
<1>2. \/ pc' = "failed" /\ picked' = picked /\ report' = report
      \/ /\ report' = evaluate(Rows, Origin, index > 0)
         /\ pc' = "gate"
         /\ UNCHANGED <<sizes, previous, timeline, picked>>
  BY DEF AdTools, Fail, Goto
<1>3. CASE pc' = "failed" /\ picked' = picked /\ report' = report
  BY <1>1, <1>3, QuietConsumer
<1>4. CASE /\ report' = evaluate(Rows, Origin, index > 0)
           /\ pc' = "gate"
           /\ UNCHANGED <<sizes, previous, timeline, picked>>
  <2>1. /\ index' = index /\ applied' = applied /\ consumer' = consumer
        /\ raw' = raw /\ stamps' = stamps
    BY <1>1 DEF environment, setup, controls, stream
  <2>2. Rows' = Rows /\ Origin' = Origin
    BY <1>4, <2>1 DEF Rows, Snapshot, Origin, load_post_t0
  <2>3. AllApplied' = AllApplied
    BY <2>1 DEF AllApplied
  <2>4. PickedStand'
    BY <1>4, <2>1, <2>3 DEF Deciding, PickedStand, ObservedStart
  <2>5. CASE index = 0 \/ report'.gate # "PASS"
    BY <2>1, <2>4, <2>5 DEF WindowsStand, BlockFound
  <2>6. CASE index # 0 /\ report'.gate = "PASS"
    <3>1. index > 0 /\ pc \in Evaluating
      BY <2>6, PipelineAssumption
         DEF AdTools, Evaluating, Deciding, SnapshotInv, CaptureInv, PipelineTypeOK
    <3>2. Origin = applied[index].at /\ Origin \in Nat /\ AllApplied
      BY <3>1, OriginIsReadback DEF Deciding, TimelineIsLog
    <3>3. Rows \in Seq(Lines)
      BY RowsMeasured DEF Deciding
    <3> DEFINE r == evaluate(Rows, Origin, index > 0)
    <3>4. r.gate = "PASS" /\ report' = r
      BY <1>4, <2>6
    <3> HIDE DEF r
    <3>5. \E e \in 1..Len(Rows) : \E b \in 1..e :
            /\ e - b + 1 >= 2 * W
            /\ \A i \in b..e : eligible(Rows[i], Origin)
            /\ \A i \in (e + 1)..Len(Rows) : ~eligible(Rows[i], Origin)
            /\ \A i \in DOMAIN r.windows : \E j \in b..e : r.windows[i] = Rows[j]
      <4>1. Block(Rows, Origin, r.windows)
        BY <3>3, <3>4, ReportPasses DEF r
      <4> QED
        BY <4>1 DEF Block
    <3>6. \A i \in DOMAIN r.windows : ObservedStart(r.windows[i]) >= Origin
      BY <3>5 DEF eligible
    <3>7. WindowsStand'
      BY <2>1, <2>3, <3>2, <3>4, <3>6 DEF WindowsStand, ObservedStart
    <3>8. BlockFound'
      <4>1. \E e \in 1..Len(Rows) : \E b \in 1..e :
            /\ e - b + 1 >= 2 * W
            /\ \A i \in b..e : eligible(Rows[i], Origin)
            /\ \A i \in (e + 1)..Len(Rows) : ~eligible(Rows[i], Origin)
        BY <3>5
      <4> QED
        BY <1>4, <2>2, <4>1
           DEF BlockFound, eligible, classify_interval, Crossings, ObservedStart,
               base_interval_class
    <3> QED
      BY <2>4, <3>7, <3>8
  <2> QED
    BY <2>5, <2>6
<1> QED
  BY <1>2, <1>3, <1>4

\* Admitting: the eligible rows end in samples after the last control.
LEMMA FreshnessStep ==
  ASSUME Deciding, HandoffFreshness
  PROVE  WindowsStand' /\ BlockFound' /\ PickedStand'
<1>1. UNCHANGED environment /\ ConsumerNext
  BY EnvironmentKept DEF HandoffFreshness, ConsumerNext, AdapterNext
<1>2. pc = "gate" /\ report.gate = "PASS"
  BY DEF HandoffFreshness
<1>3. \/ pc' = "failed" /\ picked' = picked /\ report' = report
      \/ /\ FreshnessAccepts(Rows) /\ picked' = Selected(Rows)
         /\ pc' = "done" /\ report' = report
  BY DEF HandoffFreshness, Fail, Goto
<1>4. CASE pc' = "failed" /\ picked' = picked /\ report' = report
  BY <1>1, <1>4, QuietConsumer
<1>5. CASE /\ FreshnessAccepts(Rows) /\ picked' = Selected(Rows)
           /\ pc' = "done" /\ report' = report
  <2>1. index' = index /\ applied' = applied /\ consumer' = consumer
    BY <1>1 DEF environment, setup, controls
  <2>2. AllApplied' = AllApplied
    BY <2>1 DEF AllApplied
  <2>3. WindowsStand'
    BY <1>5, <2>1, <2>2 DEF Deciding, WindowsStand, ObservedStart
  <2>4. BlockFound'
    BY <1>5 DEF BlockFound
  <2>5. CASE index > 0
    <3>1. Origin = applied[index].at /\ Origin \in Nat /\ AllApplied
      BY <1>2, <2>5, OriginIsReadback DEF Deciding, TimelineIsLog, Evaluating
    <3> DEFINE rows == Rows
               o == Origin
    <3>2. /\ rows \in Seq(Lines)
          /\ \A i \in 1..Len(rows) : rows[i].shape # "none" /\ Measured(rows[i])
      BY RowsMeasured DEF Deciding
    <3>3. \E e \in 1..Len(rows) : \E b \in 1..e :
            /\ e - b + 1 >= 2 * W
            /\ \A i \in b..e : eligible(rows[i], o)
            /\ \A i \in (e + 1)..Len(rows) : ~eligible(rows[i], o)
      BY <1>2, <2>5 DEF Deciding, BlockFound
    <3>4. FreshnessAccepts(rows) /\ picked' = Selected(rows) /\ o \in Nat
      BY <1>5, <3>1
    <3> HIDE DEF rows, o
    <3>5. PICK e \in 1..Len(rows) : \E b \in 1..e :
            /\ e - b + 1 >= 2 * W
            /\ \A i \in b..e : eligible(rows[i], o)
            /\ \A i \in (e + 1)..Len(rows) : ~eligible(rows[i], o)
      BY <3>3
    <3>6. PICK b \in 1..e :
            /\ e - b + 1 >= 2 * W
            /\ \A i \in b..e : eligible(rows[i], o)
            /\ \A i \in (e + 1)..Len(rows) : ~eligible(rows[i], o)
      BY <3>5
    <3>7. \A i \in DOMAIN Selected(rows) : eligible(Selected(rows)[i], o)
      BY <3>2, <3>4, <3>6, SelectedInBlock
    <3>8. \A i \in DOMAIN picked' : ObservedStart(picked'[i]) >= o
      BY <3>4, <3>7 DEF eligible
    <3>9. o = applied[index].at
      BY <3>1 DEF o
    <3>10. PickedStand'
      BY <2>1, <2>2, <3>1, <3>8, <3>9 DEF PickedStand, ObservedStart
    <3> QED
      BY <2>3, <2>4, <3>10
  <2>6. CASE ~(index > 0)
    BY <2>1, <2>3, <2>4, <2>6 DEF PickedStand
  <2> QED
    BY <2>5, <2>6
<1> QED
  BY <1>3, <1>4, <1>5

\* The tail reader picks samples for no adapter.
LEMMA TailReadStep ==
  ASSUME Deciding, TailRead
  PROVE  WindowsStand' /\ BlockFound' /\ PickedStand'
<1>1. UNCHANGED environment /\ ConsumerNext
  BY EnvironmentKept DEF TailRead, ConsumerNext, TailNext
<1>2. /\ index' = index /\ applied' = applied /\ consumer' = consumer
      /\ consumer = "tail"
  BY <1>1 DEF environment, setup, controls, TailRead, Deciding, TailPlace
<1>3. AllApplied' = AllApplied
  BY <1>2 DEF AllApplied
<1>4. pc' # "gate" /\ report' = report
  BY DEF TailRead, Fail, Goto
<1>5. WindowsStand'
  BY <1>2, <1>3, <1>4 DEF Deciding, WindowsStand, ObservedStart
<1>6. BlockFound'
  BY <1>4 DEF BlockFound
<1>7. PickedStand'
  BY <1>2 DEF PickedStand
<1> QED
  BY <1>5, <1>6, <1>7

\* Every step of a consumer keeps the invariant.
LEMMA DecidingConsumer ==
  ASSUME Deciding, ConsumerNext
  PROVE  WindowsStand' /\ BlockFound' /\ PickedStand'
<1>1. CASE AdTools \/ HandoffFreshness \/ TailRead
  BY <1>1, ToolsStep, FreshnessStep, TailReadStep
<1>2. CASE ~(AdTools \/ HandoffFreshness \/ TailRead)
  <2>1. picked' = picked /\ pc' # "gate" /\ (report' = report \/ report' = NoReport)
    BY <1>2 DEF ConsumerNext, AdapterNext, TailNext, AdStart, AdTimeline,
       AdTimelineTimeout, AdStatRaw, AdStatStamps, AdCheckStamps, AdTimeout,
       HandoffExtend, TailStart, TailOpen, TailTimeout, Fail, Goto, result
  <2> QED
    BY <2>1, QuietConsumer
<1> QED
  BY <1>1, <1>2

\* Every step keeps the invariant.
LEMMA DecidingStep ==
  Deciding /\ [PipelineNext]_pipelineVars => Deciding'
<1> SUFFICES ASSUME Deciding, [PipelineNext]_pipelineVars PROVE Deciding'
  OBVIOUS
<1>1. SnapshotInv'
  BY SnapshotStep DEF Deciding
<1>2. CASE EnvironmentNext
  BY <1>1, <1>2, DecidingEnvironment DEF Deciding
<1>3. CASE ConsumerNext
  BY <1>1, <1>3, TimelineConsumer, DecidingConsumer DEF Deciding
<1>4. CASE UNCHANGED pipelineVars
  <2>1. /\ index' = index /\ applied' = applied /\ consumer' = consumer /\ pc' = pc
        /\ timeline' = timeline /\ report' = report /\ picked' = picked
        /\ previous' = previous /\ raw' = raw /\ stamps' = stamps
    BY <1>4 DEF pipelineVars, setup, controls, result, stream
  <2>2. Rows' = Rows /\ Origin' = Origin
    BY <2>1 DEF Rows, Snapshot, Origin, load_post_t0
  <2>3. TimelineIsLog' /\ WindowsStand' /\ PickedStand' /\ TailPlace'
    BY <2>1 DEF Deciding, TimelineIsLog, WindowsStand, PickedStand, TailPlace,
                AllApplied, ObservedStart, Evaluating
  <2>4. BlockFound'
    BY <2>1, <2>2 DEF Deciding, BlockFound, eligible, classify_interval, Crossings,
           ObservedStart, base_interval_class
  <2> QED
    BY <1>1, <2>3, <2>4 DEF Deciding
<1> QED
  BY <1>2, <1>3, <1>4 DEF PipelineNext, ConsumerNext


(*************************************************************************)
(* The tail reader of the fast trigger, and the theorems.                *)
(*************************************************************************)
\* A line reports a duration.
LEMMA ReportedTyped == ASSUME NEW shape \in Shapes PROVE Reported(shape) \in Nat
BY PipelineAssumption DEF Reported, Shapes

\* Intervals end one after the other.
LEMMA EndsGrow ==
  ASSUME SnapshotInv, NEW i \in 1..Len(raw), NEW j \in i..Len(raw)
  PROVE  raw[i].end \in Nat /\ raw[j].end \in Nat /\ raw[i].end <= raw[j].end
<1> DEFINE n == Len(raw)
           f == [k \in 1..n |-> raw[k].end]
<1>1. n \in Nat /\ \A k \in 1..n : raw[k] \in Lines
  BY DEF SnapshotInv, CaptureInv, PipelineTypeOK
<1>2. \A k \in 1..n : raw[k].end \in Nat
  BY <1>1 DEF Lines
<1>3. \A k \in 2..n : raw[k - 1].end <= raw[k].end
  <2> TAKE k \in 2..n
  <2>1. k \in 1..n /\ k - 1 \in 1..n
    BY <1>1
  <2>2. raw[k].start = raw[k - 1].end /\ Measured(raw[k])
    BY <1>1, <2>1 DEF SnapshotInv, CaptureInv, Linked
  <2>3. Reported(raw[k].shape) \in Nat
    <3>1. raw[k].shape \in Shapes
      BY <1>1, <2>1 DEF Lines
    <3> QED
      BY <3>1, ReportedTyped
  <2>4. raw[k - 1].end \in Nat
    BY <1>2, <2>1
  <2> QED
    BY <2>2, <2>3, <2>4 DEF Measured
<1>4. f \in [1..n -> Nat]
  BY <1>2
<1>5. \A k \in 2..n : f[k - 1] <= f[k]
  <2> TAKE k \in 2..n
  <2>1. k \in 1..n /\ k - 1 \in 1..n
    BY <1>1
  <2> QED
    BY <1>3, <2>1
<1>6. f[i] <= f[j]
  <2> HIDE DEF f
  <2>1. i \in 1..n /\ j \in i..n
    OBVIOUS
  <2> HIDE DEF n
  <2> QED
    BY <1>1, <1>4, <1>5, <2>1, Monotone
<1> QED
  BY <1>1, <1>2, <1>6

\* What the tail reader finds wrong in files of complete intervals is transient.
LEMMA CompleteSourceIsRetried ==
  ASSUME SnapshotInv, \A i \in 1..Len(raw) : raw[i].shape = "complete_0p2"
  PROVE  inspect \in Retryable \union {"PASS"}
<1> DEFINE L == Len(stamps)
           first == Max(1, L + 1 - TailRows)
           covered == {i \in first..L : i <= sizes[1]}
           pairs == TailIntervals(first)
           n == Len(pairs)
           P == {i \in first..L : /\ stamps[i].shape = "complete_0p2"
                                  /\ stamps[i].end > Guard}
           k == Kept(stamps, P)
<1>1. /\ L \in Nat /\ Len(raw) \in Nat /\ L <= Len(raw) /\ stamps \in Seq(Lines)
      /\ \A i \in 1..L : stamps[i] = raw[i]
      /\ \A i \in 2..Len(raw) : raw[i].start = raw[i - 1].end
  BY DEF SnapshotInv, CaptureInv, PipelineTypeOK, Copied, Linked
<1>2. first \in Nat /\ first >= 1 /\ Guard \in Nat
  BY <1>1, PipelineAssumption DEF Max
<1>3. pairs = k[L]
  BY DEF TailIntervals, Filter
<1> HIDE DEF first
<1>4. /\ k \in [0..L -> Seq(Lines)] /\ k[0] = <<>>
      /\ \A i \in 1..L :
            k[i] = IF i \in P THEN Append(k[i - 1], stamps[i]) ELSE k[i - 1]
  BY <1>1, KeptSteps
<1>5. ASSUME NEW m \in first..L, m \notin P
      PROVE  k[m] = <<>>
  <2>1. m \in 1..L /\ m \in 1..Len(raw) /\ m \in 0..L /\ 0 \in 0..L
    BY <1>1, <1>2
  <2>2. stamps[m].shape = "complete_0p2"
    BY <1>1, <2>1
  <2>3. ~(raw[m].end > Guard)
    BY <1>1, <1>5, <2>1, <2>2
  <2>4. ASSUME NEW i \in 1..m PROVE i \notin P
    <3>1. i \in 1..Len(raw) /\ m \in i..Len(raw) /\ i \in 1..L
      BY <1>1, <2>1
    <3>2. raw[i].end \in Nat /\ raw[m].end \in Nat /\ raw[i].end <= raw[m].end
      BY <3>1, EndsGrow
    <3> QED
      BY <1>1, <1>2, <2>3, <3>1, <3>2
  <2> HIDE DEF P
  <2>5. m \in 0..Len(stamps) /\ \A i \in (0 + 1)..m : i \notin P
    BY <2>1, <2>4
  <2>6. 0 \in 0..Len(stamps)
    BY <2>1
  <2>7. Kept(stamps, P)[m] = Kept(stamps, P)[0]
    BY <1>1, <2>5, <2>6, KeptNone
  <2> QED
    BY <1>4, <2>7
<1> HIDE DEF k, P, pairs
<1>6. ASSUME L - first >= 1, ~(n < 2)
      PROVE  contiguous(pairs[n - 1], pairs[n])
  <2>1. /\ L \in first..L /\ L - 1 \in first..L /\ L \in 1..L /\ L - 1 \in 1..L
        /\ L - 2 \in 0..L /\ L - 1 \in 0..L
    BY <1>1, <1>2, <1>6
  <2>2. \A i \in 0..L : k[i] \in Seq(Lines)
    BY <1>4
  <2>3. L \in P
    <3> SUFFICES ASSUME L \notin P PROVE FALSE
      OBVIOUS
    <3>1. pairs = <<>>
      BY <1>3, <1>5, <2>1
    <3> QED
      BY <1>6, <3>1
  <2>4. pairs = Append(k[L - 1], stamps[L])
    BY <1>3, <1>4, <2>1, <2>3, Zenon
  <2>5. /\ n = Len(k[L - 1]) + 1 /\ pairs[n] = stamps[L]
        /\ Len(k[L - 1]) \in Nat
    <3> DEFINE q == k[L - 1]
    <3>1. q \in Seq(Lines) /\ pairs = Append(q, stamps[L])
      BY <2>1, <2>2, <2>4
    <3> HIDE DEF q, L
    <3>2. n = Len(q) + 1 /\ pairs[n] = stamps[L] /\ Len(q) \in Nat
      BY <3>1
    <3> QED
      BY <3>2 DEF q
  <2>6. L - 1 \in P
    <3> SUFFICES ASSUME L - 1 \notin P PROVE FALSE
      OBVIOUS
    <3>1. k[L - 1] = <<>>
      BY <1>5, <2>1
    <3>2. Len(k[L - 1]) = 0
      BY <3>1
    <3> QED
      BY <1>6, <2>5, <3>2
  <2>7. k[L - 1] = Append(k[L - 2], stamps[L - 1])
    <3>1. L - 1 \in 1..L /\ (L - 1) - 1 = L - 2
      BY <1>1, <2>1
    <3> DEFINE m == L - 1
    <3>2. m \in P /\ m \in 1..L
      BY <2>6, <3>1
    <3> HIDE DEF m
    <3>3. k[m] = Append(k[m - 1], stamps[m])
      BY <1>4, <3>2, Zenon
    <3> QED
      BY <3>1, <3>3 DEF m
  <2>8. pairs[n - 1] = stamps[L - 1]
    <3> DEFINE q == k[L - 2]
               p == k[L - 1]
               x == stamps[L - 1]
               y == stamps[L]
    <3>1. /\ q \in Seq(Lines) /\ p \in Seq(Lines)
          /\ p = Append(q, x) /\ pairs = Append(p, y) /\ n = Len(p) + 1
      BY <2>1, <2>2, <2>4, <2>5, <2>7
    <3> HIDE DEF p, q, x, y
    <3>2. Len(p) = Len(q) + 1 /\ p[Len(p)] = x /\ Len(q) \in Nat
      BY <3>1
    <3>3. Len(p) \in 1..Len(p) /\ n - 1 = Len(p)
      BY <3>1, <3>2
    <3>4. pairs[Len(p)] = p[Len(p)]
      BY <3>1, <3>3
    <3> QED
      BY <3>2, <3>3, <3>4 DEF x
  <2>9. stamps[L] = raw[L] /\ stamps[L - 1] = raw[L - 1] /\ L \in 2..Len(raw)
    BY <1>1, <2>1
  <2> QED
    BY <1>1, <2>5, <2>8, <2>9 DEF contiguous
<1>7. \A i \in covered : /\ raw[i] = stamps[i]
                         /\ stamps[i].shape # "partial_terminal_candidate"
  <2> TAKE i \in covered
  <2>1. i \in 1..L /\ i \in 1..Len(raw)
    BY <1>1, <1>2
  <2> QED
    BY <1>1, <2>1
<1>8. n \in Nat
  <2>1. pairs \in Seq(Lines)
    BY <1>1, <1>3, <1>4
  <2> QED
    BY <2>1
<1> DEFINE C == contiguous(pairs[n - 1], pairs[n])
           A == now > pairs[n].wall + MaxAge
<1>9. inspect = IF L - first < 1 THEN "TIMESTAMP_TAIL_TOO_SHORT"
        ELSE IF \E i \in covered : raw[i] # stamps[i]
        THEN "RAW_LINE_SHA_MISMATCH"
        ELSE IF \E i \in covered : stamps[i].shape = "partial_terminal_candidate"
        THEN "LATEST_INTERVAL_NOT_COMPLETE"
        ELSE IF L > sizes[1] THEN "RAW_OFFSET_INVALID"
        ELSE IF n < 2 THEN "COMPLETE_PAIR_UNAVAILABLE"
        ELSE IF ~C THEN "COMPLETE_PAIR_NOT_CONTIGUOUS"
        ELSE IF A THEN "SAMPLE_AGE_OUT_OF_BOUNDS"
        ELSE "PASS"
  BY DEF inspect, first, pairs
<1>10. L - first < 1 \/ L - first >= 1
  BY <1>1, <1>2
<1>11. L - first >= 1 /\ ~(n < 2) => C
  BY <1>6
<1> HIDE DEF C, A, covered, n, L
<1> QED
  BY <1>7, <1>9, <1>10, <1>11 DEF Retryable

\* The tail reader gives up on its source only after reading a line that is
\* no complete interval.
LEMMA BadSourceStep ==
  Deciding /\ TailFailsOnBadSource /\ [PipelineNext]_pipelineVars
    => TailFailsOnBadSource'
<1> SUFFICES ASSUME Deciding, TailFailsOnBadSource, [PipelineNext]_pipelineVars
             PROVE  TailFailsOnBadSource'
  OBVIOUS
<1>1. raw \in Seq(Lines) /\ DOMAIN raw = 1..Len(raw) /\ Len(raw) \in Nat
  BY DEF Deciding, SnapshotInv, CaptureInv, PipelineTypeOK
<1>2. CASE EnvironmentNext
  <2>1. fault' = fault /\ Len(raw) <= Len(raw') /\ \A i \in 1..Len(raw) : raw'[i] = raw[i]
    BY <1>2, FilesGrow DEF Deciding, SnapshotInv, result
  <2>2. CaptureInv'
    BY <1>2, CaptureReadStep, CaptureWriteStep, OtherEnvironmentStep
       DEF EnvironmentNext, SnapshotInv, Deciding
  <2>3. DOMAIN raw' = 1..Len(raw') /\ Len(raw') \in Nat
    BY <2>2 DEF CaptureInv, PipelineTypeOK
  <2>4. \A i \in 1..Len(raw) : i \in 1..Len(raw')
    BY <1>1, <2>1, <2>3
  <2> QED
    BY <1>1, <2>1, <2>3, <2>4 DEF TailFailsOnBadSource
<1>3. CASE ConsumerNext
  <2>1. raw' = raw
    BY <1>3, EnvironmentKept DEF environment, stream
  <2>2. CASE fault' = fault \/ fault' # "SOURCE_INVALID"
    BY <2>1, <2>2 DEF TailFailsOnBadSource
  <2>3. CASE TailRead
    <3>1. \/ fault' = fault \/ fault' # "SOURCE_INVALID"
          \/ inspect \notin Retryable /\ inspect # "PASS"
      BY <2>3 DEF TailRead, Fail
    <3>2. CASE inspect \notin Retryable /\ inspect # "PASS"
      <4>1. ~ \A i \in 1..Len(raw) : raw[i].shape = "complete_0p2"
        BY <3>2, CompleteSourceIsRetried DEF Deciding
      <4> QED
        BY <1>1, <2>1, <4>1 DEF TailFailsOnBadSource
    <3> QED
      BY <2>2, <3>1, <3>2
  <2>4. CASE ~TailRead
    <3>1. fault' = fault \/ fault' # "SOURCE_INVALID"
      BY <1>3, <2>4 DEF ConsumerNext, AdapterNext, TailNext, AdStart, AdTimeline,
       AdTimelineTimeout, AdStatRaw, AdStatStamps, AdCheckStamps, AdTimeout,
       AdTools, HandoffExtend, HandoffFreshness, TailStart, TailOpen,
       TailTimeout, Fail, result
    <3> QED
      BY <2>2, <3>1
  <2> QED
    BY <2>3, <2>4
<1>4. CASE UNCHANGED pipelineVars
  BY <1>4 DEF TailFailsOnBadSource, pipelineVars, stream, result
<1> QED
  BY <1>2, <1>3, <1>4 DEF PipelineNext, ConsumerNext

\* The invariant holds in every reachable state.
LEMMA DecidingAlways == PipelineSpec => []Deciding
<1>1. PipelineInit => Deciding
  BY DecidingInit
<1>2. Deciding /\ [PipelineNext]_pipelineVars => Deciding'
  BY DecidingStep
<1> QED
  BY <1>1, <1>2, PTL DEF PipelineSpec

\* Types, for every choice of durations and bounds: lines and records, the
\* logs of the control plane, the sizes a consumer compares and what it picked.
THEOREM PipelineTypes == PipelineSpec => []PipelineTypeOK
<1>1. Deciding => PipelineTypeOK
  BY DEF Deciding, SnapshotInv, CaptureInv
<1> QED
  BY <1>1, DecidingAlways, PTL

\* A pair of files that the adapter copies after seeing the same sizes twice is
\* one the parser accepts, whatever the wrapper was doing between the copies.
THEOREM SnapshotsParse == PipelineSpec => []SnapshotParses
<1>1. Deciding => SnapshotParses
  BY SnapshotSafe DEF Deciding
<1> QED
  BY <1>1, DecidingAlways, PTL

\* The loop of latest_eligible_run returns the last run of contiguous eligible
\* rows, from its first row on, for receiver output of any length.
THEOREM RunComputed == PipelineSpec => []RunIsLatest
<1>1. Deciding => RunIsLatest
  BY RowsMeasured, RunIsLatestRun DEF Deciding, RunIsLatest
<1> QED
  BY <1>1, DecidingAlways, PTL

\* A stationarity report that passes compares samples taken after the readback
\* of the last control, and all controls were read back as requested.
THEOREM WindowsFollowLastStep == PipelineSpec => []WindowsAfterLastStep
<1>1. Deciding => WindowsAfterLastStep
  BY DEF Deciding, WindowsStand, WindowsAfterLastStep, AfterLastStep, AllApplied
<1> QED
  BY <1>1, DecidingAlways, PTL

\* The samples on which the adapter admits the next control lie after the
\* readback of the last one, although the freshness tool knows of no control.
THEOREM AdmittedFollowLastStep == PipelineSpec => []AdmittedAfterLastStep
<1>1. Deciding => AdmittedAfterLastStep
  BY DEF Deciding, PickedStand, AdmittedAfterLastStep, AfterLastStep, AllApplied
<1> QED
  BY <1>1, DecidingAlways, PTL

\* The tail reader fails for good, instead of trying again, only when the
\* receiver reported something else than complete intervals.
THEOREM TailFailures == PipelineSpec => []TailFailsOnBadSource
<1>1. PipelineInit => TailFailsOnBadSource
  BY DEF PipelineInit, TailFailsOnBadSource
<1>2. Deciding /\ TailFailsOnBadSource /\ [PipelineNext]_pipelineVars
        => TailFailsOnBadSource'
  BY BadSourceStep
<1> QED
  BY <1>1, <1>2, DecidingAlways, PTL DEF PipelineSpec
=============================================================================
