------------------------- MODULE SimulationRelease -------------------------
(***************************************************************************)
(* What the sandbox promises about everything it lets loose on the         *)
(* simulated port, whatever requests arrive in whatever order: a subject   *)
(* is released only while the gate is open and only when it is cleared at  *)
(* that very moment, one subject at a time and never twice; it may be      *)
(* withdrawn once, after which it stays withdrawn.                         *)
(*                                                                         *)
(* The gate and the clearances belong to the environment of this promise:  *)
(* they may change at any step.                                            *)
(***************************************************************************)
CONSTANT Subject

VARIABLES open, cleared, released, withdrawn

vars == <<open, cleared, released, withdrawn>>

Init ==
    /\ released = {}
    /\ withdrawn = {}

Release(s) ==
    /\ open
    /\ s \in cleared \ released
    /\ released' = released \cup {s}
    /\ withdrawn' = withdrawn

Withdraw(s) ==
    /\ s \in released \ withdrawn
    /\ withdrawn' = withdrawn \cup {s}
    /\ released' = released

Review ==
    /\ released' = released
    /\ withdrawn' = withdrawn

Next == Review \/ \E s \in Subject : Release(s) \/ Withdraw(s)

Spec == Init /\ [][Next]_vars
=============================================================================
