------------------------------ MODULE OneByOne ------------------------------
(***************************************************************************)
(* What a review of planned items promises: items are put before the user   *)
(* in the order of the plan, one at a time; only an item that is before the *)
(* user is resolved, and it stays resolved; the review is finished when     *)
(* every item is, and given up only while one is not.                       *)
(***************************************************************************)
EXTENDS Naturals

VARIABLES
    plan,       \* the items there are, numbered from 1; none before they are planned
    resolved,   \* the items the user is done with
    showing,    \* the item that is before the user, 0 for none
    state       \* open, done or blocked

vars == << plan, resolved, showing, state >>

Init == plan = {} /\ resolved = {} /\ showing = 0 /\ state = "open"

Plan ==
    /\ plan = {} /\ state = "open"
    /\ plan' \subseteq Nat \ { 0 } /\ \A i \in plan' : 1 .. i \subseteq plan'
    /\ UNCHANGED << resolved, showing, state >>

Present ==
    /\ showing = 0 /\ state = "open"
    /\ \E i \in plan \ resolved :
        /\ \A j \in plan : j < i => j \in resolved
        /\ showing' = i
    /\ UNCHANGED << plan, resolved, state >>

Resolve ==
    /\ showing # 0 /\ state = "open"
    /\ resolved' = resolved \cup { showing } /\ showing' = 0
    /\ UNCHANGED << plan, state >>

\* The user sends the item back: somebody works on it before it is shown again.
Return ==
    /\ showing # 0 /\ state = "open" /\ showing' = 0
    /\ UNCHANGED << plan, resolved, state >>

Finish ==
    /\ state = "open" /\ plan # {} /\ resolved = plan
    /\ state' = "done" /\ UNCHANGED << plan, resolved, showing >>

GiveUp ==
    /\ state = "open" /\ (plan = {} \/ resolved # plan)
    /\ state' = "blocked" /\ UNCHANGED << plan, resolved, showing >>

Next == Plan \/ Present \/ Resolve \/ Return \/ Finish \/ GiveUp

Spec == Init /\ [][Next]_vars
=============================================================================
