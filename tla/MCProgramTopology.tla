-------------------------- MODULE MCProgramTopology --------------------------
(***************************************************************************)
(* Topologies for ProgramTopology: lines, branches with any guards, hubs,   *)
(* exports, stale transitions, and topologies that are refused.             *)
(***************************************************************************)
EXTENDS ProgramTopology

Plain(s) == [slug |-> s, export |-> None, mark |-> None, plan |-> None, words |-> {}]
Export(s) == [Plain(s) EXCEPT !.export = "html"]
Hub(s) == [Plain(s) EXCEPT !.mark = "hub"]
Planner(s) == [Plain(s) EXCEPT !.plan = "hub"]
Reasoner(s) == [Plain(s) EXCEPT !.words = { "prose" }]

Line(s, t) == [from |-> s, to |-> t, guard |-> None]
When(s, t, g) == [from |-> s, to |-> t, guard |-> g]

Intake(stages, edges, guard) ==
    [stages |-> stages, edges |-> edges, final |-> "complete", guard |-> guard,
     owner |-> None, loops |-> {}, contracts |-> {}]

Done == << "work", "done" >>
Go == << "work", "go" >>

\* work is left by three ways, with any guards; the review comes back to it.
Branches ==
    { Intake(<< Plain("intake"), Reasoner("work"), Plain("review"), Plain("re view"), Plain("complete") >>,
             << Line("intake", "work"), When("work", "review", g1), When("work", "re view", g2),
                When("work", "complete", g3), Line("review", "work"), Line("re view", "complete") >>, Done) :
        g1 \in { None, Go, Done }, g2 \in { None, Go, Done }, g3 \in { None, Go, Done } }

\* The hub of a drafting program: stay, amend and come back, or finalize.
Hubs1(stage, g) ==
    Intake(<< Plain("intake"), stage, Plain("amend"), Export("export"), Plain("complete") >>,
           << Line("intake", "hub"), Line("hub", "hub"), When("hub", "amend", g),
              When("amend", "hub", g), Line("hub", "export"), Line("export", "complete") >>,
           << "export", "done" >>)

\* An export whose way out was to be opened by its own action or by another's.
Reports(g) ==
    Intake(<< Plain("intake"), Reasoner("work"), Export("export"), Plain("complete") >>,
           << Line("intake", "work"), When("work", "export", Done), Line("export", "complete") >>, g)

\* An export that is come back to: drafts are rendered again.
Drafts ==
    Intake(<< Plain("intake"), Plain("work"), Export("export"), Plain("complete") >>,
           << Line("intake", "work"), When("work", "export", Go), Line("work", "complete"),
              When("export", "work", << "export", "again" >>) >>, Done)

\* Transitions that name a stage there is not; no transitions.
Stale ==
    { Intake(<< Plain("intake"), Plain("work"), Hub("hub"), Plain("complete") >>, edges, Done) :
        edges \in { << >>, << Line("intake", "gone") >>, << Line("intake", "work"), Line("work", "hub") >> } }

\* Too few stages, a final stage that is left, a branch of an export that waits
\* for itself, a stage there is not.
RefusedOnes ==
    { Intake(<< Plain("intake"), Plain("complete") >>, << >>, Done),
      Intake(<< Plain("intake"), Plain("work"), Plain("complete") >>,
             << Line("intake", "work"), Line("work", "complete"), Line("complete", "work") >>, Done),
      Intake(<< Plain("intake"), Export("export"), Plain("work"), Plain("complete") >>,
             << Line("intake", "export"), Line("export", "work"), Line("export", "complete"),
                Line("work", "complete") >>, Done),
      [Intake(<< Plain("intake"), Plain("work"), Plain("complete"), Plain("review") >>,
              << Line("intake", "work"), Line("work", "complete"), Line("work", "gone"),
                 Line("review", "work") >>, Done) EXCEPT !.owner = Done] }

MCIntakes ==
    Branches \cup { Hubs1(Hub("hub"), g) : g \in { None, << "hub", "go" >> } } \cup { Hubs1(Planner("hub"), None) }
    \cup { Reports(g) : g \in { Done, << "export", "done" >>, << "other", "done" >> } }
    \cup { Drafts } \cup Stale \cup RefusedOnes

MCSlugs == { "intake", "work", "review", "re view", "hub", "amend", "export", "complete", "gone" }
MCSafeIdentifier == [s \in MCSlugs |-> IF s = "re view" THEN "review" ELSE s]

\* What the theorems ask of an intake holds of every one above.
ASSUME PlainIntakes == IntakesAreTyped /\ GuardsArePlain
=============================================================================
