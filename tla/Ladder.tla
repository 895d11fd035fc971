------------------------------- MODULE Ladder -------------------------------
(***************************************************************************)
(* What the foundry promises of a session, without how it keeps it: the    *)
(* session climbs a ladder of rungs, one at a time and never down; it      *)
(* leaves a rung only with that rung's evidence in hand, and evidence once *)
(* left behind is never lost, nor any gathered ahead of its rung; and from *)
(* a gated rung it climbs only on an approval of the user's, which that    *)
(* climb spends.                                                           *)
(***************************************************************************)
EXTENDS Naturals

CONSTANTS
    Top,        \* the last rung
    Gated       \* the rungs that only the user's approval leads up from

VARIABLES
    rung,       \* the rung the session stands on
    approval,   \* does it hold an approval it has not spent?
    proven      \* the rungs whose evidence is recorded

ladder == << rung, approval, proven >>

Start == rung = 0 /\ approval = FALSE /\ proven = {}

\* The user may approve or think again, and the evidence of the rung the
\* session stands on may come and go, but no other.
Stand ==
    /\ rung' = rung
    /\ approval' \in BOOLEAN
    /\ proven' \ { rung } = proven \ { rung }

Climb ==
    /\ rung < Top
    /\ rung \in Gated => approval
    /\ rung' = rung + 1
    /\ approval' = FALSE
    /\ proven' = proven \cup { rung }

Ascent == Start /\ [][Stand \/ Climb]_ladder

\* Behind the session every rung is proven, ahead of it none is.
EarnedInOrder == proven \ { rung } = 0 .. rung - 1
=============================================================================
