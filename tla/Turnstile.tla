------------------------------ MODULE Turnstile ------------------------------
(***************************************************************************)
(* What the REPL promises for the text its user types: lines are numbered   *)
(* as they arrive; those that cannot be served at once wait; one is served  *)
(* at a time, the oldest first; the waiting lines may be forgotten together *)
(* (an abort), and once the user has left none of them is served.           *)
(***************************************************************************)
EXTENDS Naturals

VARIABLES
    arrived,    \* how many lines, of text or not, have arrived
    waiting,    \* the text lines that wait
    serving,    \* the text line that is being served, if any
    open        \* has the user not left yet?

vars == << arrived, waiting, serving, open >>

Init == arrived = 0 /\ waiting = {} /\ serving = {} /\ open = TRUE

\* A line that is not text.
Pass ==
    /\ arrived' = arrived + 1
    /\ UNCHANGED << waiting, serving, open >>

Wait ==
    /\ arrived' = arrived + 1
    /\ waiting' = waiting \cup { arrived' }
    /\ UNCHANGED << serving, open >>

\* A line that finds nobody before it.
Enter ==
    /\ serving = {} /\ (open => waiting = {})
    /\ arrived' = arrived + 1
    /\ serving' = { arrived' }
    /\ UNCHANGED << waiting, open >>

\* The oldest waiting line takes the turn, perhaps from the line that leaves.
Follow ==
    /\ open
    /\ \E l \in waiting :
          /\ \A k \in waiting : l <= k
          /\ serving' = { l }
          /\ waiting' = waiting \ { l }
    /\ UNCHANGED << arrived, open >>

\* The line that is served leaves, or the waiting lines are forgotten, or both.
Leave ==
    /\ serving' \in { serving, {} }
    /\ waiting' \in { waiting, {} }
    /\ UNCHANGED << arrived, open >>

Close ==
    /\ open /\ open' = FALSE
    /\ UNCHANGED << arrived, waiting, serving >>

Next == Pass \/ Wait \/ Enter \/ Follow \/ Leave \/ Close

Spec == Init /\ [][Next]_vars
=============================================================================
