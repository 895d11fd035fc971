------------------------------ MODULE OneEach ------------------------------
(***************************************************************************)
(* What a fan-out promises: the items are known before the first is         *)
(* answered; each is answered once, in order, with an answer to itself; it   *)
(* is over when the last one is answered.                                    *)
(***************************************************************************)
EXTENDS Naturals, Sequences

CONSTANT MaxDocs    \* bound: items

VARIABLES
    items,      \* how many there are
    answers,    \* which item each answer is about
    over

each == << items, answers, over >>

Gather ==
    /\ ~over /\ answers = << >>
    /\ items' \in 0 .. MaxDocs
    /\ UNCHANGED << answers, over >>

Answer ==
    /\ ~over /\ Len(answers) < items
    /\ answers' = Append(answers, Len(answers) + 1)
    /\ over' \in { FALSE, Len(answers) + 1 = items }
    /\ items' = items

Leave ==
    /\ ~over /\ Len(answers) = items
    /\ over' = TRUE
    /\ UNCHANGED << items, answers >>

Init == items = 0 /\ answers = << >> /\ over = FALSE
Next == Gather \/ Answer \/ Leave
Spec == Init /\ [][Next]_each
=============================================================================
