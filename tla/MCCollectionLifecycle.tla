----------------------- MODULE MCCollectionLifecycle -----------------------
(***************************************************************************)
(* The instance of CollectionLifecycle TLC checks: life cycles of every     *)
(* kind of storage, with and without moves of the author's, a guarded way   *)
(* back, a sum to reach, and descriptors the synthesizer refuses.           *)
(***************************************************************************)
EXTENDS CollectionLifecycle

Llm(action, from, to) == [action |-> action, from |-> from, to |-> to, by |-> "llm", guard |-> None]

Start == Llm("start_review", "pending", "in_review")
Accept == Llm("accept", "in_review", "accepted")
Reopen == [Llm("reopen", "accepted", "in_review") EXCEPT !.guard = "reopen_requested"]

Plain(storage, moves) ==
    [storage |-> storage, statuses |-> { "pending", "in_review", "accepted" }, initial |-> "pending",
     moves |-> moves, terminal |-> { "accepted" }, nonEmpty |-> TRUE, least |-> 0]

LifecyclesAsked ==
    { Plain(storage, moves) : storage \in Storages,
        moves \in { { Start, Accept }, { Start, Accept, Reopen }, { Start, [Accept EXCEPT !.by = "reaction"] },
                    { [Accept EXCEPT !.by = "reaction"] } } }
    \cup { [Plain("indexed_array", { Start, Accept }) EXCEPT !.least = 1],
           [Plain("json_string", { Start, Accept }) EXCEPT !.nonEmpty = FALSE],
           [Plain("json_string", { Start, Accept }) EXCEPT !.least = 1],
           Plain("json_string", { Start, [Accept EXCEPT !.action = "start_review"] }),
           [Plain("indexed_array", { Start, Accept }) EXCEPT !.statuses = { "pending", "accepted" }],
           [Plain("indexed_array", { Start, Accept }) EXCEPT !.terminal = { "accepted", "archived" }] }
=============================================================================
