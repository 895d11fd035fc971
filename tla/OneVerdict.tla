---------------------------- MODULE OneVerdict ----------------------------
(***************************************************************************)
(* What the caller of a verification that borrows a resource is promised:   *)
(* there is one outcome, it never changes, a judgement is only given while  *)
(* the resource is held, the resource is given back after the outcome is    *)
(* known and before the call returns, and the call does return.             *)
(***************************************************************************)
VARIABLES
    outcome,    \* none, passed, failed, or threw
    held,       \* is the resource held?
    returned    \* has the call returned?

vars == << outcome, held, returned >>

Init == outcome = "none" /\ held = FALSE /\ returned = FALSE

Acquire == outcome = "none" /\ ~held /\ held' = TRUE /\ UNCHANGED << outcome, returned >>

\* The resource could not be had.
GiveUp ==
    /\ outcome = "none" /\ ~held
    /\ outcome' = "threw" /\ returned' = TRUE /\ UNCHANGED held

Conclude ==
    /\ outcome = "none" /\ held
    /\ outcome' \in { "passed", "failed", "threw" }
    /\ UNCHANGED << held, returned >>

Release ==
    /\ outcome # "none" /\ held
    /\ held' = FALSE /\ UNCHANGED << outcome, returned >>

Return ==
    /\ outcome # "none" /\ ~held /\ ~returned
    /\ returned' = TRUE /\ UNCHANGED << outcome, held >>

Next == Acquire \/ GiveUp \/ Conclude \/ Release \/ Return

Spec == Init /\ [][Next]_vars /\ WF_vars(Next)
=============================================================================
