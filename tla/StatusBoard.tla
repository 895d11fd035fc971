---------------------------- MODULE StatusBoard ----------------------------
(***************************************************************************)
(* What a collection with a life cycle promises: once its items are known,  *)
(* one item at a time takes a declared edge, and the collection is closed   *)
(* only when the status of every item is terminal.                          *)
(***************************************************************************)
VARIABLES
    edges,      \* the edges an item may take: [from, to]
    terminal,   \* the terminal statuses
    nonEmpty,   \* must there be an item?
    board,      \* the status of each item
    phase       \* empty, open or closed

rules == << edges, terminal, nonEmpty >>
all == << rules, board, phase >>

\* Any items may be planned.
Fill ==
    /\ phase = "empty" /\ phase' = "open"
    /\ UNCHANGED rules

Settled ==
    /\ \A i \in DOMAIN board : board[i] \in terminal
    /\ nonEmpty => board # << >>

\* The last move may close the collection in the same step.
Move ==
    /\ phase = "open"
    /\ \E i \in DOMAIN board, e \in edges :
        /\ board[i] = e.from
        /\ board' = [board EXCEPT ![i] = e.to]
    /\ phase' = "open" \/ (phase' = "closed" /\ Settled')
    /\ UNCHANGED rules

Close ==
    /\ phase = "open" /\ Settled
    /\ phase' = "closed"
    /\ UNCHANGED << rules, board >>

Init == phase = "empty" /\ board = << >>
Next == Fill \/ Move \/ Close
Spec == Init /\ [][Next]_all
=============================================================================
