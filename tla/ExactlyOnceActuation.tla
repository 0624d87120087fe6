------------------------- MODULE ExactlyOnceActuation -------------------------
(***************************************************************************)
(* What the trigger path promises the experiment: every transition of the   *)
(* PRB sequence is claimed at most once, its actuator is launched at most   *)
(* once and only after the claim, and its control reaches the gNB at most   *)
(* once and only after the launch. Nothing promises that a claimed          *)
(* transition is launched, or a launched one controlled: an uncertain       *)
(* transition is never repeated.                                            *)
(***************************************************************************)
EXTENDS Naturals, Sequences

CONSTANT Transitions

VARIABLES
  claimed,     \* transitions whose binding is consumed
  launched,    \* transitions in the order their actuators were launched
  controlled   \* transitions in the order their controls were received

vars == <<claimed, launched, controlled>>

In(t, log) == \E k \in DOMAIN log : log[k] = t

Init ==
  /\ claimed = {}
  /\ launched = <<>>
  /\ controlled = <<>>

Claim(t) ==
  /\ t \notin claimed
  /\ claimed' = claimed \cup {t}
  /\ UNCHANGED <<launched, controlled>>

Launch(t) ==
  /\ t \in claimed
  /\ ~In(t, launched)
  /\ launched' = Append(launched, t)
  /\ UNCHANGED <<claimed, controlled>>

Control(t) ==
  /\ In(t, launched)
  /\ ~In(t, controlled)
  /\ controlled' = Append(controlled, t)
  /\ UNCHANGED <<claimed, launched>>

Next == \E t \in Transitions : Claim(t) \/ Launch(t) \/ Control(t)

Spec == Init /\ [][Next]_vars
=============================================================================
