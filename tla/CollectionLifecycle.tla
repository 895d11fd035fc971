------------------------ MODULE CollectionLifecycle ------------------------
(***************************************************************************)
(* A collection with a life cycle in a generated program (synthesizer.ts:   *)
(* completion.collection_lifecycle without a confirmation loop).  A         *)
(* planning stage leaves the items as its model wrote them.  In the review  *)
(* the author only states intents; a reaction at the end of the round       *)
(* applies them if the life cycle declares the move, or leaves a violation. *)
(* The review is left when every item is terminal.                          *)
(*                                                                          *)
(* The collection is a text (json_string) with a reaction that computes the *)
(* gate, or an array (indexed_array) with a mirror of terminal flags that   *)
(* a derived path reads.                                                    *)
(***************************************************************************)
EXTENDS Naturals, Sequences, FiniteSets

CONSTANTS
    Descriptors,    \* the collection_lifecycle descriptors that are asked for
    Ids,            \* what an item may be called
    Words,          \* what a model may write as a status
    Guards,         \* guard fields of moves
    MaxItems,       \* bound: items of a plan
    None

ASSUME LifecycleBounds == MaxItems \in Nat /\ None \notin Ids /\ None \notin Guards

VARIABLES
    descriptor, \* the one this program was made from
    mode,       \* plan, review or done
    act,        \* what the author did in the round that is open, None between rounds
    items,      \* the collection: [id, status, flag, size], None if it cannot be read
    mirror,     \* indexed: the terminal flags the derived path reads
    guard,      \* aggregate.guard_field
    violation,  \* the last refused intent: [item, from, reason]
    granted     \* the guard fields that are true

collection == << items, mirror >>
vars == << descriptor, mode, act, items, mirror, guard, violation, granted >>

---------------------------------------------------------------------------
(* Descriptors.                                                             *)

Storages == { "json_string", "indexed_array" }
Move == [action : STRING, from : Words, to : Words, by : { "llm", "reaction" }, guard : Guards \cup { None }]

ASSUME LifecyclesAreTyped ==
    \A d \in Descriptors : d.moves \subseteq Move /\ d.nonEmpty \in BOOLEAN /\ d.least \in Nat

\* What the synthesizer refuses a descriptor for.
Accepted(d) ==
    /\ d.storage \in Storages
    /\ d.initial \in d.statuses
    /\ \A m, n \in d.moves : m.action = n.action => m = n
    /\ \A m \in d.moves : m.from \in d.statuses /\ m.to \in d.statuses
    /\ d.terminal \subseteq d.statuses
    /\ d.least > 0 => d.storage = "indexed_array"

LlmTransitions(d) == { m \in d.moves : m.by = "llm" }
Indexed == descriptor.storage = "indexed_array"
Terminal == descriptor.terminal

\* The reaction that computes the gate runs at the end of rounds if there is an
\* intent to apply first, and otherwise only when the collection is written.
ComputesAfterRound == ~Indexed /\ LlmTransitions(descriptor) # {}

---------------------------------------------------------------------------
(* The collection.                                                          *)

Item == [id : Ids \cup { None }, status : Words, flag : BOOLEAN, size : Nat]

ASSUME NoListIsNone == None \notin Seq(Item)

Index == IF items = None THEN {} ELSE DOMAIN items

AllTerminal(its) ==
    /\ its # None
    /\ descriptor.nonEmpty => its # << >>
    /\ \A i \in DOMAIN its : its[i].status \in Terminal

\* all_items_field_eq: no array, no answer.
AllFlagged(flags) == flags # << >> /\ \A i \in DOMAIN flags : flags[i]

\* sum_of
Sum(its) ==
    LET upTo[n \in 0 .. Len(its)] == IF n = 0 THEN 0 ELSE upTo[n - 1] + its[n].size
    IN  upTo[Len(its)]

---------------------------------------------------------------------------
(* An intent, applied by the reaction at the end of its round.              *)

\* Mutant of DeclaredMoves: the status the item is in is not asked for.
MovesByName(m, status) == { n \in LlmTransitions(descriptor) : n.action = m.action /\ n.to = m.to }

DeclaredMoves(m, status) ==
    { n \in LlmTransitions(descriptor) : n.action = m.action /\ n.from = status /\ n.to = m.to }

\* The item an intent is about: the first that is called so, 0 for none.
FirstCalled(id) == { i \in Index : items[i].id = id /\ \A j \in 1 .. i - 1 : items[j].id # id }
ItemIndex(id) == IF FirstCalled(id) = {} THEN 0 ELSE CHOOSE i \in FirstCalled(id) : TRUE

Refusal(a) ==
    LET i == ItemIndex(a.item)
        moves == DeclaredMoves(a.move, items[i].status)
    IN  IF i = 0 THEN "missing_item"
        ELSE IF moves = {} THEN "undeclared_transition"
        ELSE IF \E m \in moves : m.guard \notin granted \cup { None } THEN "guard_false"
        ELSE "none"

\* A violation stays on record until the next one.
Violate(a) ==
    violation' = [item |-> a.item, reason |-> Refusal(a),
                  from |-> IF ItemIndex(a.item) = 0 THEN a.move.from
                           ELSE items[ItemIndex(a.item)].status]

\* The text is written anew with one status changed.
ApplyToText(i, to) ==
    /\ items' = [items EXCEPT ![i].status = to]
    /\ mirror' = mirror

\* Mutant of ApplyInPlace: the flag is written and the mirror is not.
ApplyUnmirrored(i, to) ==
    /\ items' = [items EXCEPT ![i].status = to, ![i].flag = to \in Terminal]
    /\ mirror' = mirror

\* Status and flag are written in place; the mirror is made of the flags.
ApplyInPlace(i, to) ==
    /\ items' = [items EXCEPT ![i].status = to, ![i].flag = to \in Terminal]
    /\ mirror' = [j \in DOMAIN items |-> items'[j].flag]

ApplyEvent(a) ==
    LET i == ItemIndex(a.item)
    IN  \/ /\ Refusal(a) = "none"
           /\ IF Indexed THEN ApplyInPlace(i, a.move.to) ELSE ApplyToText(i, a.move.to)
           /\ violation' = violation
        \/ /\ Refusal(a) # "none"
           /\ Violate(a) /\ UNCHANGED collection

---------------------------------------------------------------------------
(* Rounds.                                                                  *)

Planned == UNION { [1 .. n -> [id : Ids \cup { None }, status : Words, flag : { FALSE },
                               size : 0 .. descriptor.least]] : n \in 0 .. MaxItems }

Asked == act # None /\ act.kind = "complete"

\* The round of the plan writes the collection, be it what it was before; in the
\* review only intents do.
Written == mode = "plan"

\* The gate as the round leaves it: complete_<stage> sets the field itself, and a
\* reaction or a derived path has the last word where there is one.
Gate ==
    guard' = IF Indexed THEN AllFlagged(mirror')
             ELSE IF ComputesAfterRound \/ Written THEN AllTerminal(items')
             ELSE guard \/ Asked

Enough == items # None /\ Sum(items) >= descriptor.least
Completes == guard /\ (descriptor.least > 0 => Enough)

\* The transition on the settled state; a gate that only opened in this round may
\* wait for the next, unless the action is the one that asks for it.
Transits ==
    \/ Completes' /\ mode' = "done"
    \/ ~(Completes' /\ (Completes \/ Asked)) /\ mode' = "review"

\* A model's list: it may be no list at all, items may have no name, the same
\* name, or a status the life cycle does not know.
PlanCompletes ==
    /\ mode = "plan"
    /\ items' \in Planned \cup (IF Indexed THEN {} ELSE { None })
    /\ mirror' = << >> /\ Gate
    /\ mode' = "review"
    /\ UNCHANGED << descriptor, act, violation, granted >>

Opens(a) ==
    /\ mode = "review" /\ act = None
    /\ act' = a
    /\ UNCHANGED << descriptor, mode, collection, guard, violation, granted >>

\* An intent without an item_id fails in the handler and is as good as no action.
Intends(id, m) == Opens([kind |-> "intent", item |-> id, move |-> m])
CompletesReview == Opens([kind |-> "complete"])

\* Any other action of the mode; it may be one that sets or takes back a guard field.
ActsOtherwise == Opens([kind |-> "other"])

RoundEnds ==
    /\ act # None /\ act' = None /\ UNCHANGED descriptor
    /\ IF act.kind = "intent" THEN ApplyEvent(act) ELSE UNCHANGED << collection, violation >>
    /\ IF act.kind = "other" THEN granted' \in SUBSET Guards ELSE granted' = granted
    /\ Gate /\ Transits

\* The round fails: nothing of it is kept.
RoundFails ==
    /\ act # None /\ act' = None
    /\ UNCHANGED << descriptor, mode, collection, guard, violation, granted >>

Init ==
    /\ descriptor \in { d \in Descriptors : Accepted(d) }
    /\ mode = "plan" /\ act = None
    /\ items = << >> /\ mirror = << >> /\ guard = FALSE
    /\ violation = None /\ granted = {}

Intents == \E id \in Ids, m \in LlmTransitions(descriptor) : Intends(id, m)

Next ==
    \/ PlanCompletes
    \/ Intents
    \/ CompletesReview
    \/ ActsOtherwise
    \/ RoundEnds
    \/ RoundFails

Spec == Init /\ [][Next]_vars

---------------------------------------------------------------------------
(* Fairness: the author acts and some of his rounds end; among what he      *)
(* intends again and again is what moves an item towards its end.           *)

\* The statuses from which llm moves without a guard reach a terminal one in n steps.
Within(d) ==
    LET reach[n \in 0 .. Cardinality(d.statuses)] ==
            IF n = 0 THEN d.terminal
            ELSE reach[n - 1] \cup { m.from : m \in { k \in LlmTransitions(d) :
                                        k.guard = None /\ k.to \in reach[n - 1] } }
    IN  reach

\* Every move of the author's brings its item nearer to the end.
Onward(d) ==
    \A m \in LlmTransitions(d) : \E n \in DOMAIN Within(d) :
        m.to \in Within(d)[n] /\ m.from \notin Within(d)[n]

Advances(a) ==
    /\ a # None /\ a.kind = "intent" /\ Refusal(a) = "none"
    /\ items[ItemIndex(a.item)].status \notin Terminal

Advance == \E id \in Ids, m \in LlmTransitions(descriptor) :
              Intends(id, m) /\ Advances(act')

Fairness ==
    /\ WF_vars(PlanCompletes) /\ WF_vars(Intents \/ CompletesReview \/ ActsOtherwise)
    /\ SF_vars(RoundEnds) /\ SF_vars(Advance) /\ SF_vars(Advances(act) /\ RoundEnds)
    /\ WF_vars(RoundEnds \/ RoundFails)

LiveSpec == Spec /\ Fairness

---------------------------------------------------------------------------
(* Properties.                                                              *)

\* Every variable holds a value of its kind.
TypeOK ==
    /\ descriptor \in Descriptors /\ Accepted(descriptor)
    /\ mode \in { "plan", "review", "done" }
    /\ items = None \/ items \in Seq(Item)
    /\ mirror \in Seq(BOOLEAN) /\ guard \in BOOLEAN /\ granted \subseteq Guards

\* With no move of the author's and a text, nothing computes the gate at the end of
\* a round: complete_<stage> opens it by itself.
Ungated == ~Indexed /\ LlmTransitions(descriptor) = {}

Edges == { [from |-> m.from, to |-> m.to] : m \in LlmTransitions(descriptor) }
Statuses == IF items = None THEN << >> ELSE [i \in DOMAIN items |-> items[i].status]
Phase == CASE mode = "plan" -> "empty"
           [] mode = "done" /\ ~Ungated -> "closed"
           [] OTHER -> "open"

\* The collection is a board of statuses: items move one at a time along declared
\* edges, and the review is left only when all of them are terminal, however the
\* gate is computed and whatever complete_<stage> writes into it.
Board == INSTANCE StatusBoard WITH
    edges <- Edges, terminal <- Terminal, nonEmpty <- descriptor.nonEmpty,
    board <- Statuses, phase <- Phase
ImplementsBoard == Board!Spec

\* What a life cycle can see through: every item has a name of its own and a way to
\* a terminal status.  The flags of an array are set by moves only, so an item that
\* was planned in a terminal status never counts, nor does an empty array.
Completable ==
    /\ items # None /\ Onward(descriptor)
    /\ descriptor.nonEmpty \/ Indexed => items # << >>
    /\ \A i, j \in Index : items[i].id = items[j].id => i = j
    /\ \A i \in Index :
        /\ items[i].id # None
        /\ \E n \in DOMAIN Within(descriptor) : items[i].status \in Within(descriptor)[n]
        /\ Indexed /\ items[i].status \in Terminal => items[i].flag
    /\ descriptor.least > 0 => Enough

\* A review of such items comes to an end.
CollectionCompletes == (mode = "review" /\ Completable) ~> (mode = "done")
=============================================================================
