-------------------------- MODULE ConfirmationLoop --------------------------
(***************************************************************************)
(* The confirmation loop a generated program runs (synthesizer.ts: the      *)
(* reactions of createConfirmationLoop*, the same reactions as rendered     *)
(* into the generated handlers, and the specification emitted around them). *)
(* A planning stage leaves a list of items; in the review stage the author  *)
(* proposes a text, a reaction puts it on the first item that is proposed   *)
(* or waits, and the user's decision on the proposed item sets its status.  *)
(* The review is left when every item is terminal, or blocked when the      *)
(* author stops acting.                                                     *)
(*                                                                          *)
(* A trigger is two steps: its ingestion with the AfterIngestion reactions, *)
(* and the round it opens, up to the AfterRound reaction, the derived paths *)
(* and the transition.  Between them the author works, and may fail.        *)
(***************************************************************************)
EXTENDS Naturals, FiniteSets

CONSTANTS
    Decisions,          \* loop.decisions, under their runtime names
    Outcome,            \* Decisions -> the status a decision gives
    NeedsInstruction,   \* decisions with requires_instruction
    TerminalStatuses,   \* loop.aggregate.terminal_statuses
    Initial,            \* the initial status
    ProposedStatus,     \* loop.proposed_status
    Texts,              \* what an author may propose
    MaxItems,           \* bound: items of a plan
    MaxStamp,           \* bound: timestamps, reused when they cannot be confused
    Cap,                \* NO_ACTION_ESCAPE_CAP
    None

\* The validator asks for declared statuses only.  That every decision leads to
\* a status the loop knows what to do with, and that items do not start or wait
\* in a terminal one, is up to the descriptor.
ASSUME NoDeadEnds ==
    /\ Outcome \in [Decisions -> { Initial, ProposedStatus } \cup TerminalStatuses]
    /\ Initial \notin TerminalStatuses /\ ProposedStatus \notin TerminalStatuses
    /\ Initial # ProposedStatus
ASSUME LoopBounds ==
    /\ MaxItems \in Nat /\ MaxStamp \in Nat /\ Cap \in Nat
    /\ None \notin Decisions /\ None \notin Texts

VARIABLES
    mode,       \* plan, review, done or blocked
    round,      \* the trigger whose round is open
    items,      \* loop.collection: [status, flag, text] by index
    mirror,     \* the terminal-status items: is the item at this index terminal?
    pending,    \* decisions.pending_<stage>_action
    applied,    \* last_applied_decision: the fingerprint of what was applied last
    shown,      \* summary.current_index, 0 for none
    draft,      \* <stage>.proposal: the text proposed last
    unapplied,  \* is the proposal log longer than applied_proposal_count?
    guard,      \* aggregate.guard_field, derived when a round ends
    cursor,     \* active_item_id, derived when a round ends: an index, 0 for none
    idle,       \* the counter of the no-action escape
    arm,        \* its arm
    asked,      \* the call a client may repeat: it has had no answer
    ruling      \* history: what the user decided on each item, and on which text

itemvars == << items, mirror >>
derived == << guard, cursor >>
escape == << idle, arm >>
proposal == << draft, unapplied >>
vars == << mode, round, items, mirror, pending, applied, shown, draft, unapplied, guard,
           cursor, idle, arm, asked, ruling >>

Statuses == { Initial, ProposedStatus } \cup TerminalStatuses
Words == Decisions \cup { "other" }
Drafts == Texts \cup { None }
Item == [status : Statuses, flag : BOOLEAN, text : Drafts]
Index == DOMAIN items

\* A decision as the client sends it; the engine adds its target.  Stamp 0 is none.
Calls == [word : Words, told : BOOLEAN, stamp : 0 .. MaxStamp]
Pendings == [word : Words, told : BOOLEAN, stamp : 0 .. MaxStamp, target : 0 .. MaxItems]

Planned(n) == [i \in 1 .. n |-> [status |-> Initial, flag |-> FALSE, text |-> None]]

---------------------------------------------------------------------------
(* The collection.                                                          *)

With(its, s) == { i \in DOMAIN its : its[i].status = s }
First(S) == CHOOSE i \in S : \A j \in S : i <= j

FirstProposed(its) == IF With(its, ProposedStatus) # {} THEN First(With(its, ProposedStatus)) ELSE 0

\* Where a proposal goes, 0 for nowhere.
ProposalTargetIndex(its) ==
    IF FirstProposed(its) # 0 THEN FirstProposed(its)
    ELSE IF With(its, Initial) # {} THEN First(With(its, Initial))
    ELSE 0

Open(its) == { i \in DOMAIN its : its[i].status \notin TerminalStatuses }

\* Which item the author is shown, 0 for none.
ActiveItemIndex(its) ==
    IF ProposalTargetIndex(its) # 0 THEN ProposalTargetIndex(its)
    ELSE IF Open(its) # {} THEN First(Open(its))
    ELSE 0

\* Mutant of AllTerminal: one terminal item is enough.
AnyTerminal(m) == \E i \in DOMAIN m : m[i]

AllTerminal(m) == DOMAIN m # {} /\ \A i \in DOMAIN m : m[i]

---------------------------------------------------------------------------
(* A user's decision: ingestion and the reactions on it.                    *)

\* decision_targeting: the engine names the first proposed item, or none.
Targeted(call) ==
    [word |-> call.word, told |-> call.told, stamp |-> call.stamp, target |-> FirstProposed(items)]

\* What is pending after the save: a word the loop does not know saves nothing,
\* and the enforcement then takes the input itself if nothing was ever saved.
SaveDecision(input) == IF input.word \in Decisions THEN input ELSE pending
PendingDecision(input) == IF SaveDecision(input) = None THEN input ELSE SaveDecision(input)

Fingerprint(p) ==
    IF p.stamp # 0 THEN [stamp |-> p.stamp]
    ELSE [word |-> p.word, told |-> p.told, target |-> p.target]

\* Mutant of Unapplied: a decision is applied each time it arrives.
UnappliedAlways(p) == p.target # 0

\* A decision without a target is invalid; nothing is remembered of it.
Invalid(p) == p.target = 0
Unapplied(p) == ~Invalid(p) /\ Fingerprint(p) # applied

Effective(p) ==
    /\ Unapplied(p) /\ p.word \in Decisions /\ p.target \in Index
    /\ p.word \in NeedsInstruction => p.told

ApplyPendingDecision(p) ==
    IF Effective(p)
    THEN [items EXCEPT ![p.target].status = Outcome[p.word],
                       ![p.target].flag = Outcome[p.word] \in TerminalStatuses]
    ELSE items

\* All proposed items but the first are demoted.
Demoted(its) == { i \in With(its, ProposedStatus) : \E j \in With(its, ProposedStatus) : j < i }
EnforceOneProposedAtATime(its) ==
    [i \in DOMAIN its |-> IF i \in Demoted(its)
                          THEN [status |-> Initial, flag |-> FALSE, text |-> its[i].text]
                          ELSE its[i]]

\* Mutant of EnforceStatus: the mirror follows at the next plan only.
EnforceStatusUnmirrored(p) ==
    /\ items' = EnforceOneProposedAtATime(ApplyPendingDecision(p))
    /\ mirror' = mirror
    /\ applied' = IF Unapplied(p) THEN Fingerprint(p) ELSE applied

EnforceStatus(p) ==
    LET ruled == ApplyPendingDecision(p)
        ones == EnforceOneProposedAtATime(ruled)
    IN  /\ items' = ones
        /\ mirror' = [i \in DOMAIN mirror |->
                        IF i \in Demoted(ruled) THEN FALSE
                        ELSE IF Effective(p) /\ i = p.target THEN Outcome[p.word] \in TerminalStatuses
                        ELSE mirror[i]]
        /\ applied' = IF Unapplied(p) THEN Fingerprint(p) ELSE applied

\* The summary is made of the items the enforcement leaves.
Summarize == shown' = ActiveItemIndex(items')

\* What the user says to the item that is before him.
Rule(p) ==
    ruling' = IF p.target # 0 /\ p.word \in Decisions /\ (p.word \in NeedsInstruction => p.told)
              THEN [ruling EXCEPT ![p.target] = [status |-> Outcome[p.word], text |-> items[p.target].text]]
              ELSE ruling

Ingest(call) ==
    LET input == Targeted(call)
        p == PendingDecision(input)
    IN  /\ pending' = SaveDecision(input)
        /\ EnforceStatus(p)
        /\ Summarize

\* A stamp of no call that could still be confused with this one: only the last
\* applied is remembered, only the last unanswered is repeated.
Fresh(s) ==
    /\ applied # [stamp |-> s]
    /\ asked # None => asked.stamp # s
FreshStamps == { s \in 1 .. MaxStamp : Fresh(s) /\ \A r \in 1 .. MaxStamp : Fresh(r) => s <= r }

\* Instructions are told apart where a decision asks for one.
NewCalls ==
    { call \in [word : Words, told : BOOLEAN, stamp : { 0 } \cup FreshStamps] :
        call.told => call.word \in NeedsInstruction }

\* A client that stamps its calls may repeat one it has no answer to.
Confirm(call) ==
    /\ mode = "review" /\ round = "none"
    /\ Ingest(call) /\ Rule(Targeted(call))
    /\ round' = "confirm"
    /\ asked' = IF call.stamp # 0 /\ Targeted(call).target # 0 THEN call ELSE None
    /\ UNCHANGED << mode, proposal, derived, escape >>

Repeat ==
    /\ mode = "review" /\ round = "none" /\ asked # None
    /\ Ingest(asked)
    /\ round' = "confirm"
    /\ UNCHANGED << mode, proposal, derived, escape, asked, ruling >>

\* The summary watches the user's text and entries into the mode, not every
\* channel a program may be spoken to on.
TextOpens ==
    /\ mode = "review" /\ round = "none"
    /\ round' = "text"
    /\ \/ UNCHANGED << items, mirror, applied, shown >>
       \/ UNCHANGED << items, mirror, applied >> /\ Summarize
    /\ UNCHANGED << mode, pending, proposal, derived, escape, asked, ruling >>

---------------------------------------------------------------------------
(* The end of a round.                                                      *)

\* The AfterRound reaction: a log that has grown puts the draft on the item
\* whose turn it is, and waits if there is none.
ChoreographCollection(text, grown) ==
    LET i == ProposalTargetIndex(items)
    IN  /\ items' = IF grown /\ i # 0
                    THEN [items EXCEPT ![i] = [status |-> ProposedStatus, flag |-> FALSE, text |-> text]]
                    ELSE items
        /\ unapplied' = (grown /\ i = 0)
        /\ draft' = text /\ mirror' = mirror

\* guard_field and active_item_id follow the mirror.
Derive ==
    /\ guard' = AllTerminal(mirror')
    /\ cursor' = IF \E i \in DOMAIN mirror' : ~mirror'[i] THEN First({ i \in DOMAIN mirror' : ~mirror'[i] })
                 ELSE 0

Completes == AllTerminal(mirror)
Blocks == arm /\ ~guard

\* The transitions, on the settled state.  One is taken if its guard holds there
\* and either held already when the author began or is what the action proposes;
\* a guard that only came true in the round may wait for the next.
Transits(by) ==
    \/ Completes' /\ mode' = "done"
    \/ ~Completes' /\ Blocks' /\ mode' = "blocked"
    \/ /\ ~(Completes' /\ (Completes \/ by = "complete"))
       /\ ~(Blocks' /\ (Blocks \/ by = "route"))
       /\ mode' = "review"

RoundEnds(by) ==
    /\ round' = "none"
    /\ Derive /\ Transits(by)
    /\ UNCHANGED << pending, applied, shown, asked, ruling >>

InRound == mode = "review" /\ round # "none"

\* A plan that cannot be read, or has no items, leaves the collection empty.
PlanCompletes(n) ==
    /\ mode = "plan"
    /\ items' = Planned(n) /\ mirror' = [i \in 1 .. n |-> FALSE]
    /\ Derive /\ mode' = "review"
    /\ UNCHANGED << round, pending, applied, shown, proposal, escape, asked, ruling >>

\* Previous item of the cursor is terminal, where there is a cursor and a previous item.
CursorReader == cursor > 1 => mirror[cursor - 1]

\* The text may come as an argument or in raw mutations, or not at all.
Proposes(text) ==
    /\ InRound
    /\ ~guard /\ CursorReader /\ ~arm
    /\ ChoreographCollection(text, TRUE)
    /\ idle' \in { idle, 0 } /\ arm' = arm
    /\ RoundEnds("propose")

CompletesReview ==
    /\ InRound /\ Completes
    /\ ChoreographCollection(draft, unapplied)
    /\ idle' \in { idle, 0 } /\ arm' = arm
    /\ RoundEnds("complete")

RoutesBlocked ==
    /\ InRound /\ arm /\ ~guard
    /\ ChoreographCollection(draft, unapplied)
    /\ idle' \in { idle, 0 } /\ arm' = arm
    /\ RoundEnds("route")

\* An action that is none of the loop's.
ActsOtherwise ==
    /\ InRound
    /\ ChoreographCollection(draft, unapplied)
    /\ idle' \in { idle, 0 } /\ arm' = arm
    /\ RoundEnds("other")

\* No admissible action: the fallback counts, and at the cap it arms the escape.
Idles ==
    /\ InRound
    /\ ChoreographCollection(draft, unapplied)
    /\ idle' = IF idle < Cap THEN idle + 1 ELSE Cap
    /\ arm' = (arm \/ idle + 1 >= Cap)
    /\ RoundEnds("other")

\* The author's call fails: what was ingested stays, the round does not end.
RoundFails ==
    /\ InRound /\ round' = "none"
    /\ UNCHANGED << mode, itemvars, pending, applied, shown, proposal, derived, escape, asked, ruling >>

---------------------------------------------------------------------------
Init ==
    /\ mode = "plan" /\ round = "none"
    /\ items = Planned(0) /\ mirror = [i \in 1 .. 0 |-> FALSE]
    /\ pending = None /\ applied = None /\ shown = 0
    /\ draft = None /\ unapplied = FALSE
    /\ guard = FALSE /\ cursor = 0
    /\ idle = 0 /\ arm = FALSE
    /\ asked = None /\ ruling = [i \in 1 .. MaxItems |-> None]

Acts == (\E text \in Drafts : Proposes(text)) \/ CompletesReview \/ RoutesBlocked \/ ActsOtherwise \/ Idles

Next ==
    \/ \E n \in 0 .. MaxItems : PlanCompletes(n)
    \/ \E call \in NewCalls : Confirm(call)
    \/ Repeat
    \/ TextOpens
    \/ Acts
    \/ RoundFails

Spec == Init /\ [][Next]_vars

---------------------------------------------------------------------------
(* Fairness: somebody speaks to the session, an author that is asked again  *)
(* and again acts and proposes, and the user finally settles an item he is  *)
(* shown again and again.                                                   *)

Settling == { call \in NewCalls : call.stamp # 0 /\ call.word \in Decisions
                                     /\ (call.word \in NeedsInstruction => call.told)
                                     /\ Outcome[call.word] \in TerminalStatuses }
Settle == FirstProposed(items) # 0 /\ \E call \in Settling : Confirm(call)

Fairness ==
    /\ WF_vars(TextOpens) /\ WF_vars(Acts \/ RoundFails)
    /\ SF_vars(Acts) /\ SF_vars(\E text \in Drafts : Proposes(text))
    /\ SF_vars(Settle)

LiveSpec == Spec /\ Fairness

---------------------------------------------------------------------------
(* Properties.                                                              *)

\* Every variable holds a value of its kind.
TypeOK ==
    /\ mode \in { "plan", "review", "done", "blocked" } /\ round \in { "none", "text", "confirm" }
    /\ \E n \in 0 .. MaxItems :
        /\ items \in [1 .. n -> Item]
        /\ mirror \in [1 .. n -> BOOLEAN]
        /\ shown \in 0 .. n /\ cursor \in 0 .. n
    /\ pending \in { None } \cup Pendings
    /\ draft \in Drafts /\ unapplied \in BOOLEAN
    /\ guard \in BOOLEAN /\ idle \in 0 .. Cap /\ arm \in BOOLEAN
    /\ asked \in { None } \cup Calls

\* The guard, the cursor and the preconditions read a mirror of the statuses that
\* three reactions write beside them: the mirror and the flag in the item always
\* say of an item what its status says.
MirrorTellsTheTruth ==
    /\ DOMAIN mirror = DOMAIN items
    /\ \A i \in Index :
        /\ mirror[i] = (items[i].status \in TerminalStatuses)
        /\ items[i].flag = mirror[i]

\* An item is terminal only by the decision the user took when it was before him,
\* and it still has the text he then saw: a repeated call decides nothing else, a
\* later proposal overwrites nothing.
AcceptedAsSeen ==
    \A i \in Index : items[i].status \in TerminalStatuses =>
        ruling[i] = [status |-> items[i].status, text |-> items[i].text]

\* What the author proposes lands on the item the summary showed him.
TargetIsActive ==
    [][round # "none" => \A i \in Index : items'[i] # items[i] => shown \in { 0, i }]_vars

\* A stamped decision on an item that is before the user takes effect, whatever
\* was said before: the memory of the last decision swallows repeats only.
DecisionCounts ==
    [][/\ asked' # asked /\ asked' # None
       /\ asked'.word \in Decisions /\ (asked'.word \in NeedsInstruction => asked'.told)
       => items'[FirstProposed(items)].status = Outcome[asked'.word]]_vars

\* The loop is a review of one item after the other, in the order of the plan.
Review == INSTANCE OneByOne WITH
    plan <- Index,
    resolved <- { i \in Index : items[i].status \in TerminalStatuses },
    showing <- FirstProposed(items),
    state <- IF mode \in { "done", "blocked" } THEN mode ELSE "open"
ImplementsOneByOne == Review!Spec

\* A review that has items comes to an end: with a user who settles what he is
\* shown and an author who acts, nothing waits for ever.
ReviewEnds == (mode = "review" /\ items # << >>) ~> (mode \in { "done", "blocked" })
=============================================================================
