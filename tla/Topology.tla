------------------------------ MODULE Topology ------------------------------
(***************************************************************************)
(* What the synthesizer makes of the stages and transitions of an intake    *)
(* (stage-classifier.ts, synthesizer/topology.ts and the parts of           *)
(* synthesizer.ts that wire modes): the archetype of each stage, the        *)
(* planned action of each transition, and the modes, guards, channels and   *)
(* mutations that follow from them.  Everything is a function of the intake *)
(* i, a record                                                              *)
(*   stages     the stages in order, with what the classifier looks at      *)
(*   edges      the transitions in order: from, to, guard_field or None     *)
(*   final      completion.final_stage                                      *)
(*   guard      completion.guard_field                                      *)
(*   owner      the aggregate guard of a lifecycle or a loop, or None       *)
(*   loops      the stages with a confirmation loop                         *)
(*   contracts  the stages with a reasoning contract                        *)
(* A path is a tuple of its segments.                                       *)
(***************************************************************************)
EXTENDS Naturals, FiniteSets, SequencesExt

CONSTANTS
    Intakes,          \* the topologies people ask for
    SafeIdentifier,   \* what is left of a slug in an identifier
    None

---------------------------------------------------------------------------
(* Stages.                                                                  *)

Slugs(i) == [k \in DOMAIN i.stages |-> i.stages[k].slug]
First(i) == i.stages[1].slug
StageOf(i, m) == i.stages[CHOOSE k \in DOMAIN i.stages : i.stages[k].slug = m]

\* The first that applies: an export, a stage that calls itself a hub, a
\* connector the host must have, what the delegation answer calls it, and what
\* its words suggest.  A purpose that speaks of prose counts for inner stages.
Archetype(i, m) ==
    LET s == StageOf(i, m) IN
    IF s.export # None THEN "compute"
    ELSE IF s.mark = "hub" THEN "hub"
    ELSE IF s.words \cap { "web", "store" } # {} THEN "adapter"
    ELSE IF s.plan = None /\ "service" \in s.words THEN "adapter"
    ELSE IF s.plan # None THEN s.plan
    ELSE IF "formula" \notin s.words /\ s.words \cap { "prose", "purpose" } # {} THEN "reasoning"
    ELSE "compute"

IsExport(i, m) == StageOf(i, m).export # None
IsHub(i, m) == Archetype(i, m) = "hub"
Contracted(i, m) == Archetype(i, m) = "reasoning" /\ m \in i.contracts

---------------------------------------------------------------------------
(* Transitions.                                                             *)

\* Transitions that name stages there are not, or do not lead to the final one,
\* are replaced by the line of the stages: when the final stage is the last.
Refreshed(i) ==
    LET names == Slugs(i)
        stale == \/ i.edges = << >>
                 \/ \E k \in DOMAIN i.edges : { i.edges[k].from, i.edges[k].to } \ ToSet(names) # {}
                 \/ \A k \in DOMAIN i.edges : i.edges[k].to # i.final
    IN  IF Last(names) = i.final /\ stale
        THEN [k \in 1 .. Len(names) - 1 |->
                [from |-> names[k], to |-> names[k + 1],
                 guard |-> IF names[k + 1] = i.final THEN i.guard ELSE None]]
        ELSE i.edges

\* The transition into the final stage is guarded by the aggregate if there is one.
Edges(i) ==
    [k \in DOMAIN Refreshed(i) |->
        IF i.owner # None /\ Refreshed(i)[k].to = i.final
        THEN [Refreshed(i)[k] EXCEPT !.guard = i.owner]
        ELSE Refreshed(i)[k]]

CompletionGuard(i) == IF i.owner # None THEN i.owner ELSE i.guard

\* The transition to plan next: the first that is left of the source that came first.
Opens(edges, k) == Min({ l \in DOMAIN edges : edges[l].from = edges[k].from })
NextOf(edges, done) ==
    LET left == DOMAIN edges \ done
        source == edges[Min({ Opens(edges, k) : k \in left })].from
    IN  Min({ k \in left : edges[k].from = source })

\* The base, or the base with the first suffix from 2 that is free.
Free(base, used) ==
    IF base \notin used THEN base
    ELSE Append(base, CHOOSE n \in 2 .. Cardinality(used) + 2 :
                        /\ Append(base, n) \notin used
                        /\ \A l \in 2 .. n - 1 : Append(base, l) \in used)

Siblings(edges, e) == { k \in DOMAIN edges : edges[k].from = e.from }
IsBranch(edges, e) == Cardinality(Siblings(edges, e)) > 1
Finishes(i, edges, e) == \E k \in Siblings(edges, e) : edges[k].to = i.final

\* guardFieldForTransition
BaseGuard(i, e) == IF e.to = i.final /\ e.guard = None THEN CompletionGuard(i) ELSE e.guard

\* Mutant of NeedsItsOwn: siblings may share the guard the intake gave them.
NeedsAny(i, edges, e, used) == BaseGuard(i, e) = None

\* A transition of a branch has a guard of its own; only the transition into
\* the final stage may have the guard of the completion.
NeedsItsOwn(i, edges, e, used) ==
    \/ BaseGuard(i, e) = None
    \/ BaseGuard(i, e) \in used
    \/ Finishes(i, edges, e) /\ BaseGuard(i, e) = CompletionGuard(i) /\ e.to # i.final

GuardFor(i, edges, e, used) ==
    IF IsBranch(edges, e) /\ NeedsItsOwn(i, edges, e, used)
    THEN Free(<< e.from, "selected", SafeIdentifier[e.to] >>, used)
    ELSE BaseGuard(i, e)

NameFor(i, edges, e) ==
    IF IsBranch(edges, e) THEN << "advance", SafeIdentifier[e.from], SafeIdentifier[e.to] >>
    ELSE IF e.from = First(i) THEN << "begin_work" >>
    ELSE << "complete", SafeIdentifier[e.from] >>

ActionFor(i, edges, e, plan) ==
    LET same == { l \in DOMAIN plan : plan[l].source = e.from } IN
    [name |-> Free(NameFor(i, edges, e), { plan[l].name : l \in DOMAIN plan }),
     source |-> e.from, target |-> e.to,
     guard |-> GuardFor(i, edges, e, { plan[l].guard : l \in same } \ { None })]

\* One more transition is planned.
PlanStep(i, edges, plan) ==
    LET next == NextOf(edges, DOMAIN plan)
    IN  [l \in DOMAIN plan \cup { next } |->
            IF l = next THEN ActionFor(i, edges, edges[next], plan) ELSE plan[l]]

\* An action for each transition.
Plan(i) ==
    LET edges == Edges(i)
        made[n \in 0 .. Len(edges)] == IF n = 0 THEN << >> ELSE PlanStep(i, edges, made[n - 1])
    IN  made[Len(edges)]
Plans == [i \in Intakes |-> ToSet(Plan(i))]
Planned(i) == Plans[i]

---------------------------------------------------------------------------
(* Modes.                                                                   *)

ModeNames(i) == ToSet(Slugs(i))
TerminalModes(i) == { m \in ModeNames(i) : \A a \in Planned(i) : a.source # m }
ExportModes(i) == { m \in ModeNames(i) : IsExport(i, m) /\ m \notin TerminalModes(i) }
Hubs(i) == { m \in ModeNames(i) \ TerminalModes(i) : IsHub(i, m) }

IsLocal(a) == a.guard # None /\ a.guard[1] = a.source

\* What makes the synthesizer throw.
Refused(i) ==
    \/ Len(i.stages) < 3
    \/ i.final \notin ModeNames(i)
    \/ i.final \notin TerminalModes(i)
    \/ \A a \in Planned(i) : a.target # i.final
    \/ \E a \in Planned(i) : { a.source, a.target } \ ModeNames(i) # {}
    \/ \E a, b \in Planned(i) : a # b /\ a.source = b.source /\ a.source \in ExportModes(i) /\ IsLocal(a)

\* The author's transitions out of loops, and all transitions out of exports,
\* are no actions of the map.
Suppressed(i) == { a \in Planned(i) : a.source \in ExportModes(i) \/ a.source \in i.loops }

HasResult(i, a) ==
    /\ a.source # First(i) /\ ~IsHub(i, a.source)
    /\ Archetype(i, a.source) = "reasoning" => Contracted(i, a.source)

OutputChannel(i, a) == IF HasResult(i, a) THEN "stage_output" ELSE "widget_output"

RenderPending(m) == << m, "render_pending" >>

\* An uncontracted reasoning stage takes its result from the author.
Mutations(i, a) ==
    { p \in { a.guard } : p # None }
    \cup (IF a.source # First(i) /\ Archetype(i, a.source) = "reasoning" /\ ~Contracted(i, a.source)
          THEN { << a.source, "result_json" >>, << a.source, "items_json" >> } ELSE {})

\* Mutant of ArmsExport: the action that leads out of an export carries it.
ArmsOnLeaving(i, a) == IF a.source \in ExportModes(i) THEN { RenderPending(a.source) } ELSE {}

\* The action that leads into an export carries its trigger.
ArmsExport(i, a) == IF a.target \in ExportModes(i) THEN { RenderPending(a.target) } ELSE {}

\* action_map: names are unique, so an action is found by its name.
Mapped(i) == Planned(i) \ Suppressed(i)
Named(i, n) == CHOOSE a \in Mapped(i) : a.name = n

ActionMap(i) ==
    [n \in { a.name : a \in Mapped(i) } |->
        LET a == Named(i, n) IN
        [writes |-> Mutations(i, a) \cup ArmsExport(i, a),
         result |-> IF HasResult(i, a) THEN << a.source, "output" >> ELSE None,
         channel |-> OutputChannel(i, a),
         proceeds |-> a.target]]

Vocabulary(i, m) ==
    IF m \in ExportModes(i) THEN {} ELSE { a.name : a \in { b \in Planned(i) : b.source = m } }

\* Mutant of Transitions: an export waits for its own guard like any stage.
TransitionsAsPlanned(i, m) ==
    { [target |-> a.target, when |-> a.guard] : a \in { b \in Planned(i) : b.source = m } }

\* modes.<m>.transitions.  An export is decision_only: it has no action to write
\* a guard of its own, so such a guard is left out.
Transitions(i, m) ==
    { [target |-> a.target,
       when |-> IF m \in ExportModes(i) /\ IsLocal(a) THEN None ELSE a.guard] :
        a \in { b \in Planned(i) : b.source = m } }

\* reactions.reset_<hub>_hub_branch_guards.write_scope
HubGuards(i, m) == { a.guard : a \in { b \in Planned(i) : b.source = m } } \ { None }
=============================================================================
