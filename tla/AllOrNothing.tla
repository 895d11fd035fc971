---------------------------- MODULE AllOrNothing ----------------------------
(***************************************************************************)
(* What filling the stages of a program promises: stages are filled one     *)
(* after the other, in the order of the program that is wanted; a result is *)
(* published only when every stage of that program is filled; an attempt    *)
(* that is given up leaves what was published before.                       *)
(***************************************************************************)
EXTENDS Naturals

CONSTANTS
    Size,       \* stages of a program
    Nothing     \* no program

VARIABLES
    wanted,     \* the program that is asked for
    filled,     \* how many of its stages are filled
    published   \* the program whose filled stages are published

vars == << wanted, filled, published >>

Init == wanted = Nothing /\ filled = 0 /\ published = Nothing

\* A program is asked for, or forgotten: what was published is withdrawn.
Want ==
    /\ filled' = 0 /\ published' = Nothing

Fill ==
    /\ wanted # Nothing /\ filled < Size
    /\ filled' = filled + 1
    /\ UNCHANGED << wanted, published >>

GiveUp ==
    /\ filled' = 0
    /\ UNCHANGED << wanted, published >>

Publish ==
    /\ wanted # Nothing /\ filled = Size
    /\ published' = wanted /\ filled' = 0
    /\ UNCHANGED wanted

Next == Want \/ Fill \/ GiveUp \/ Publish

Spec == Init /\ [][Next]_vars
=============================================================================
