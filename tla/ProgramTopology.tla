--------------------------- MODULE ProgramTopology ---------------------------
(***************************************************************************)
(* A session of a program that the synthesizer emitted for a topology       *)
(* (Topology): the author takes an action of the mode or only uses the      *)
(* toolkit, guards open transitions, an export is drained without an        *)
(* author, a hub takes its guards back when it is entered, and the hook of  *)
(* an export renders it when its trigger is written.                        *)
(*                                                                          *)
(* The engine is external.  An action that proceeds to a mode proposes it,  *)
(* and the mode is entered when a transition declared for it holds.  Where  *)
(* nothing is proposed the engine infers a transition whose guard holds; it *)
(* may take any such, and one without a guard, or stay.                     *)
(***************************************************************************)
EXTENDS Topology

VARIABLES
    intake,         \* what the program was made from
    mode,           \* the mode of the session; "none" before there is one
    truthy,         \* the guards and triggers that are true
    rendered        \* has the present mode been rendered since it was entered?

vars == << intake, mode, truthy, rendered >>

\* What was emitted for each topology: action_map, and the transitions of each mode.
Actions == [i \in Intakes |-> ActionMap(i)]
Ways == [i \in Intakes |-> [m \in ModeNames(i) |-> Transitions(i, m)]]

TypeOK ==
    /\ intake \in Intakes
    /\ mode \in ModeNames(intake) \cup { "none", "refused" }
    /\ rendered \in BOOLEAN

Init == intake \in Intakes /\ mode = "none" /\ truthy = {} /\ rendered = FALSE

---------------------------------------------------------------------------
(* Steps.                                                                   *)

\* synthesizeProgramSpecFromDomain throws, or a session can start.
Synthesize ==
    /\ mode = "none"
    /\ mode' = IF Refused(intake) THEN "refused" ELSE First(intake)
    /\ truthy' = {} /\ rendered' = FALSE /\ UNCHANGED intake

\* Mutant of ResetsGuards: a hub forgets its guards when it is left for itself.
ResetsOnStay(from, to) == to \in Hubs(intake) /\ from = to

\* The reaction on a transition into a hub; it asks for the mode and the target.
\* Whether the engine calls it when a hub is entered from itself is not known.
ResetsGuards(from, to) == to \in Hubs(intake) /\ from # to
MayReset(from, to) == to \in Hubs(intake) /\ from = to

\* The session is in mode m with these guards.
Enter(m, guards) ==
    /\ mode' = m
    /\ \/ ResetsGuards(mode, m) /\ truthy' = guards \ HubGuards(intake, m)
       \/ ~ResetsGuards(mode, m) /\ truthy' = guards
       \/ MayReset(mode, m) /\ truthy' = guards \ HubGuards(intake, m)
    /\ UNCHANGED intake

Holds(t, guards) == t.when = None \/ t.when \in guards

Authored == mode \in ModeNames(intake) \ (ExportModes(intake) \cup TerminalModes(intake))

\* The author calls an action of the vocabulary.
Take(n) ==
    /\ Authored /\ n \in Vocabulary(intake, mode) /\ n \in DOMAIN Actions[intake]
    /\ LET action == Actions[intake][n]
           guards == truthy \cup action.writes
           open == { t \in Ways[intake][mode] : t.target = action.proceeds /\ Holds(t, guards) }
       IN  /\ Enter(IF open = {} THEN mode ELSE action.proceeds, guards)
           /\ rendered' = (RenderPending(action.proceeds) \in action.writes)

\* The author calls nothing that proceeds: a note, a query, a control.
Infer(t) ==
    /\ t \in Ways[intake][mode] /\ Holds(t, truthy)
    /\ Enter(t.target, truthy) /\ rendered' = FALSE

Stay ==
    /\ Authored
    /\ \/ UNCHANGED vars
       \/ \E t \in Ways[intake][mode] : Infer(t)

\* A decision_only mode selects a transition without an author.
Drain ==
    /\ mode \in ExportModes(intake)
    /\ \E t \in Ways[intake][mode] : Infer(t)

Ended == mode = "refused" \/ mode \in TerminalModes(intake)

\* An export that waits for a guard of another stage, which nobody will write.
Starved ==
    /\ mode \in ExportModes(intake)
    /\ \A t \in Ways[intake][mode] : ~Holds(t, truthy) /\ t.when[1] # mode

\* Nothing happens: the session is over, or the engine has not drained yet.
Rest == (Ended \/ mode \in ExportModes(intake)) /\ UNCHANGED vars

Takes == \E n \in DOMAIN Actions[intake] : Take(n)
Next == Synthesize \/ Takes \/ Stay \/ Drain \/ Rest

\* The program is synthesized, exports are drained, and an author that comes to
\* a mode again and again tries each of its actions.
Names == UNION { DOMAIN Actions[i] : i \in Intakes }
Fairness == WF_vars(Synthesize) /\ WF_vars(Drain) /\ \A n \in Names : SF_vars(Take(n))
Spec == Init /\ [][Next]_vars /\ Fairness

---------------------------------------------------------------------------
(* What is asked of an intake.                                              *)

\* Its stages and transitions are lists, and there is a stage.
IntakesAreTyped ==
    \A i \in Intakes :
        /\ i.stages \in Seq(ToSet(i.stages)) /\ i.stages # << >> /\ i.edges \in Seq(ToSet(i.edges))
        /\ \A k \in DOMAIN i.edges : DOMAIN i.edges[k] = { "from", "to", "guard" }

\* The paths that actions write for another purpose than to open a way.
OwnPaths(i) ==
    { << m, p >> : m \in ModeNames(i) \cup { e.to : e \in ToSet(i.edges) },
                   p \in { "result_json", "items_json", "render_pending" } }

\* No guard is such a path (nothing in the code checks this).
GuardsArePlain ==
    \A i \in Intakes :
        ({ None, i.guard, i.owner } \cup { e.guard : e \in ToSet(i.edges) }) \cap OwnPaths(i) = {}

---------------------------------------------------------------------------
(* Properties.                                                              *)

Others(n) == { a \in Planned(intake) : a.source = mode /\ a.name # n }

\* A round that proposes nothing leaves the session in its hub, also when it has
\* come back from a branch whose guard was written to get there: the guards are
\* taken back by the reaction on the way in (renderConversationalHubGuardResetReactionEntries).
\* A hub with one way out that nothing guards is no branch and is left out.
HubHolds ==
    [][Stay /\ mode \in Hubs(intake) /\ (\A t \in Ways[intake][mode] : t.when # None)
        => mode' = mode]_vars

\* An action leads where it was planned to and opens no other way out of its
\* stage, whatever guards the intake gave the siblings (planTransitionActions).
OneBranchOpens ==
    [][\A n \in DOMAIN Actions[intake] : Take(n) =>
        /\ mode' = Actions[intake][n].proceeds
        /\ \A a \in Others(n) : a.guard \notin Actions[intake][n].writes]_vars

\* An action renders exactly if it enters an export
\* (applyExportRenderPendingEntryMutations and the hook on that path).
RenderedOnEntry ==
    [][\A n \in DOMAIN Actions[intake] : Take(n) =>
        (rendered' <=> mode' \in ExportModes(intake))]_vars

\* A session ends, unless it came to an export that waits for another stage's guard.
SessionEnds == <>[](Ended \/ Starved)
=============================================================================
