------------------------------ MODULE Foundry ------------------------------
(***************************************************************************)
(* The pgas-new foundry program: the twelve-mode session that takes a user *)
(* from a design interview to a generated, verified and graduated program. *)
(*                                                                         *)
(* A session is driven round by round.  A trigger on an input channel opens *)
(* a round; the author (an LLM) picks one action of the mode's vocabulary  *)
(* whose preconditions hold; its handler runs; the action's mutations and  *)
(* the reactions that watch them are committed together; the transitions   *)
(* of the mode are evaluated; and an auto-continue action publishes the    *)
(* notice that opens the next round.  A handler, a parse or a reaction that *)
(* throws commits nothing, and nor does a round that is lost after its      *)
(* handler ran: what that handler has put on disk stays there.             *)
(*                                                                         *)
(* specs.yml gives modes, preconditions and mutations; handlers.ts gives   *)
(* what the handlers and the reactions do; registration.ts which actions   *)
(* continue; synthesizer-store.ts the in-process transit store.  The engine *)
(* that runs rounds is external and modelled from how these files use it.  *)
(***************************************************************************)
EXTENDS Naturals

CONSTANTS
    Layouts,        \* the repository layouts a valid wiring manifest can describe
    Targets,        \* what the target directory may hold when the session starts
    Requests,       \* may the user name artifact paths the planner does not know?
    Curated,        \* does a curator edit the manifest while the session runs?
    Restarts,       \* does the foundry server ever restart, or lose a round
                    \* whose handler has written artifacts?
    GuardViews      \* does a transition guard read what the action wrote
                    \* ("written") or what the reactions made of it ("settled")?

ASSUME LayoutsAssumption ==
    Layouts \cap { "none", "missing", "invalid", "standalone", "partial" } = {}
ASSUME RequestsAssumption == Requests \subseteq BOOLEAN /\ Requests # {}
ASSUME SwitchesAssumption == Curated \in BOOLEAN /\ Restarts \in BOOLEAN
ASSUME GuardViewsAssumption ==
    GuardViews \subseteq { "written", "settled" } /\ GuardViews # {}

Questions == 1 .. 6

Modes == { "intake_intelligence", "repo_targeting", "architecture_design",
           "scaffold_plan", "domain_synthesis", "branch_write",
           "static_verify", "smoke_verify", "live_verify", "rebase_verify",
           "pr_graduation", "curator_request" }

Channels == { "seed", "user_text", "user_confirmation", "system_mode_entry" }

\* A manifest that validates describes a layout; a generated standalone
\* project brings a valid manifest of its own.
Valid == Layouts \cup { "standalone" }

\* A canonical verification status; "" is a field nobody has written yet.
Verdicts == { "passed", "failed", "skipped" }
Status == Verdicts \cup { "" }

\* The governed fields that guards and handlers read.  artifact_plan.approved
\* and .write_authorized are always written together with .status, and
\* ready_for_live with live_provider_intent: plan_status and live_intent stand
\* for all of them.  plan is the layout the planned paths belong to.
Domain ==
    [ target_dir_confirmed : BOOLEAN,
      design_path : { "", "default", "design" },
      recorded : SUBSET Questions,
      documents_recorded : BOOLEAN,
      skills_recorded : BOOLEAN,
      delegation_error : BOOLEAN,
      finalized : BOOLEAN,
      decision : { "", "approve", "reject" },
      design_confirmed : BOOLEAN,
      target_kind : { "", "standalone_repo", "existing_repo", "other" },
      repo_authorized : BOOLEAN,
      manifest_status : { "", "not_required", "valid" },
      repo_blocked : BOOLEAN,
      request_lodged : BOOLEAN,
      synthesis_complete : BOOLEAN,
      plan_status : { "", "draft", "approved" },
      plan : Valid \cup { "none" },
      plan_has_requested : BOOLEAN,
      domain_complete : BOOLEAN,
      written : BOOLEAN,
      static : Status,
      smoke : Status,
      live_intent : BOOLEAN,
      drive : Status,
      live : Status,
      rebase : Status,
      rebase_static : Status ]

\* The directory at program.target_dir, which outlives sessions and servers.
Tree ==
    [ manifest : Valid \cup { "missing", "invalid" },  \* .pgas/wiring.yml
      request : BOOLEAN,        \* audit/PGAS-NEW-<slug>.md
      occupied : BOOLEAN,       \* a project of its own, package.json and all
      scaffold : Valid \cup { "none", "partial" },     \* generated artifacts
      audit : Status ]          \* post-rebase verdict of the audit written last

ASSUME TargetsAssumption ==
    Targets \subseteq { t \in Tree : /\ t.scaffold = "none" /\ t.audit = ""
                                    /\ t.manifest # "standalone" }

VARIABLES
    mode,           \* the session's current mode
    round,          \* channel of the round in flight, "none" between rounds
    notice,         \* is an auto-continuation waiting to open a round?
    domain,         \* the governed state of the session
    transit,        \* what the in-process synthesizer store holds for it
    tree,           \* the target directory
    measured        \* history: what the last recorded runs really did

vars == << mode, round, notice, domain, transit, tree, measured >>

TypeOK ==
    /\ mode \in Modes
    /\ round \in Channels \cup { "none" }
    /\ notice \in BOOLEAN
    /\ domain \in Domain
    /\ transit \in { "none", "spec", "bodies" }
    /\ tree \in Tree
    /\ measured \in [ smoke : Status,      \* the outcome of the smoke test
                       drive : Status,      \* the outcome of the live drive
                       audited : BOOLEAN ]  \* audit_finalized

EmptyDomain ==
    [ target_dir_confirmed |-> FALSE, design_path |-> "", recorded |-> {},
      documents_recorded |-> FALSE, skills_recorded |-> FALSE,
      delegation_error |-> FALSE, finalized |-> FALSE, decision |-> "",
      design_confirmed |-> FALSE, target_kind |-> "",
      repo_authorized |-> FALSE, manifest_status |-> "",
      repo_blocked |-> FALSE, request_lodged |-> FALSE,
      synthesis_complete |-> FALSE, plan_status |-> "", plan |-> "none",
      plan_has_requested |-> FALSE, domain_complete |-> FALSE,
      written |-> FALSE, static |-> "", smoke |-> "", live_intent |-> FALSE,
      drive |-> "", live |-> "", rebase |-> "", rebase_static |-> "" ]

\* A session is created by its seed trigger.  The CLI seeds slug, name and
\* directory at most, none of which a guard reads.
Init ==
    /\ mode = "intake_intelligence"
    /\ round = "seed"
    /\ notice = FALSE
    /\ domain = EmptyDomain
    /\ transit = "none"
    /\ tree \in Targets
    /\ measured = [ smoke |-> "", drive |-> "", audited |-> FALSE ]

-----------------------------------------------------------------------------
(* The tables of specs.yml and registration.ts.                            *)

SessionControls == { "session_new", "session_abort_current", "session_status",
                     "session_history", "session_resume", "session_help" }

RejectName(n) ==
    << "reject_design_and_revise_q1", "reject_design_and_revise_q2",
       "reject_design_and_revise_q3", "reject_design_and_revise_q4",
       "reject_design_and_revise_q5", "reject_design_and_revise_q6" >>[n]

AnswerName(n) ==
    << "record_q1_purpose", "record_q2_entry_channel", "record_q3_stages",
       "record_q4_transitions", "record_q5_delegation",
       "record_q6_completion" >>[n]

Vocabulary ==
    [ m \in Modes |-> SessionControls \cup
        CASE m = "intake_intelligence" ->
               { RejectName(n) : n \in Questions }
               \cup { AnswerName(n) : n \in Questions }
               \cup { "record_program_target", "choose_design_path",
                      "apply_default_skeleton", "ask_design_question",
                      "record_documents_descriptor", "record_skill_catalog",
                      "record_program_intake_finalize", "confirm_design",
                      "record_user_note", "pin_notebook_note",
                      "confirm_research_scope",
                      "record_user_requested_research", "web_research" }
          [] m = "repo_targeting" ->
               { "select_repo_target", "authorize_standalone_target",
                 "load_wiring_manifest", "authorize_existing_repo_target",
                 "create_curator_request" }
          [] m = "architecture_design" ->
               { "synthesize_program_spec", "design_architecture",
                 "record_user_note", "web_research" }
          [] m = "scaffold_plan" ->
               { "approve_artifact_plan", "revise_artifact_plan",
                 "plan_artifacts", "create_curator_request" }
          [] m = "domain_synthesis" ->
               { "synthesize_domain_logic", "record_user_note" }
          [] m = "branch_write" ->
               { "write_scaffold_artifacts", "git_status" }
          [] m = "static_verify" ->
               { "npm_install", "npm_typecheck", "npm_test",
                 "run_static_verification", "run_parallel_static_checks" }
          [] m = "smoke_verify" ->
               { "run_smoke_verification", "confirm_live_provider_intent" }
          [] m = "live_verify" ->
               { "run_api_blackbox_verification",
                 "run_live_provider_verification",
                 "run_generated_live_drive_verification" }
          [] m = "rebase_verify" ->
               { "git_status", "git_rebase_latest",
                 "run_rebase_static_verification" }
          [] m = "pr_graduation" -> { "open_pull_request" }
          [] m = "curator_request" ->
               { "create_curator_request", "record_user_note" } ]

\* Mutated: every mode takes what the user says.
AcceptsAll == [ m \in Modes |-> Channels ]

Accepts ==
    [ m \in Modes |->
        CASE m = "intake_intelligence" -> Channels
          [] m = "scaffold_plan" -> { "user_confirmation", "system_mode_entry" }
          [] OTHER -> { "system_mode_entry" } ]

Terminal == { "pr_graduation" }

AutoContinue ==
    { RejectName(n) : n \in Questions } \cup
    { "confirm_design", "authorize_standalone_target", "load_wiring_manifest",
      "authorize_existing_repo_target", "synthesize_program_spec",
      "approve_artifact_plan", "synthesize_domain_logic",
      "write_scaffold_artifacts", "run_static_verification",
      "run_smoke_verification", "confirm_live_provider_intent",
      "run_live_provider_verification", "git_rebase_latest",
      "run_rebase_static_verification" }

\* The mode an action proposes.
ProceedsTo ==
    [ authorize_standalone_target |-> "architecture_design",
      authorize_existing_repo_target |-> "architecture_design",
      design_architecture |-> "scaffold_plan",
      synthesize_program_spec |-> "scaffold_plan",
      confirm_design |-> "repo_targeting",
      approve_artifact_plan |-> "domain_synthesis",
      synthesize_domain_logic |-> "branch_write",
      write_scaffold_artifacts |-> "static_verify",
      run_static_verification |-> "smoke_verify",
      confirm_live_provider_intent |-> "live_verify",
      run_live_provider_verification |-> "rebase_verify",
      run_generated_live_drive_verification |-> "rebase_verify",
      run_rebase_static_verification |-> "pr_graduation" ]

\* The transition of mode m whose guard governed state d satisfies; m if none.
Eligible(m, d) ==
    CASE m = "intake_intelligence" /\ d.design_confirmed -> "repo_targeting"
      [] m = "repo_targeting" /\ d.repo_authorized -> "architecture_design"
      [] m = "repo_targeting" /\ ~d.repo_authorized /\ d.repo_blocked
           -> "curator_request"
      [] m = "architecture_design" /\ d.synthesis_complete -> "scaffold_plan"
      [] m = "scaffold_plan" /\ d.plan_status = "approved" -> "domain_synthesis"
      [] m = "domain_synthesis" /\ d.domain_complete -> "branch_write"
      [] m = "branch_write" /\ d.written -> "static_verify"
      [] m = "static_verify" /\ d.static = "passed" -> "smoke_verify"
      [] m = "smoke_verify" /\ d.live_intent -> "live_verify"
      [] m = "live_verify" /\ d.live = "passed" -> "rebase_verify"
      [] m = "rebase_verify" /\ d.rebase_static = "passed" -> "pr_graduation"
      [] m = "curator_request" /\ d.request_lodged -> "repo_targeting"
      [] OTHER -> m

-----------------------------------------------------------------------------
(* Rounds: how one opens, and how it ends.                                 *)

Open(channel) ==
    /\ round = "none"
    /\ mode \notin Terminal
    /\ channel \in Accepts[mode]
    /\ round' = channel
    /\ UNCHANGED << mode, transit, tree, measured >>

\* The user types, or decides; a decision is ingested before the author acts
\* and stays in the governed state afterwards.
UserSpeaks == Open("user_text") /\ UNCHANGED << notice, domain >>

UserConfirms(decision) ==
    /\ Open("user_confirmation")
    /\ domain' = [ domain EXCEPT !.decision = decision ]
    /\ UNCHANGED notice

\* The engine turns a pending notice into a round; a graduation driver opens
\* such rounds without one.
Continue == notice /\ Open("system_mode_entry") /\ notice' = FALSE /\ UNCHANGED domain

Drive == ~notice /\ Open("system_mode_entry") /\ UNCHANGED << notice, domain >>

\* Does the author choose action a of the current mode's vocabulary?
Chooses(a) == round # "none" /\ a \in Vocabulary[mode]

\* Does the commit of action a publish the notice that continues the session?
Continues(a, d) ==
    a \in AutoContinue \/ (a = "select_repo_target" /\ d.target_kind # "other")

\* The mode a round proposes: the one its action names, or else the one whose
\* guard held when the round began.
Proposed(a) == IF a \in DOMAIN ProceedsTo THEN ProceedsTo[a] ELSE Eligible(mode, domain)

\* A proposal is taken if its guard holds on the state d the round leaves.
Moved(a, d) == IF Eligible(mode, d) = Proposed(a) THEN Proposed(a) ELSE mode

\* The round commits: written is the governed state after the action's own
\* mutations, settled after the reactions they set off.
Settle(a, written, settled) ==
    /\ domain' = settled
    /\ mode' \in { Moved(a, IF view = "written" THEN written ELSE settled) :
                       view \in GuardViews }
    /\ round' = "none"
    /\ notice' = (notice \/ Continues(a, settled))

Commit(a, d) == Settle(a, d, d)

\* Nothing is committed: a precondition fails, a handler, a parse or a
\* reaction throws, or the author produces no action at all.
RoundFails ==
    /\ round # "none"
    /\ round' = "none"
    /\ UNCHANGED << mode, notice, domain, transit, tree, measured >>

\* Notes, questions, controls, research, package commands and git status:
\* actions that write no field a guard reads.
Observing ==
    SessionControls \cup
    { "ask_design_question", "record_user_note", "pin_notebook_note",
      "confirm_research_scope", "record_user_requested_research",
      "web_research", "design_architecture", "npm_install", "npm_typecheck",
      "npm_test", "run_parallel_static_checks", "git_status",
      "run_api_blackbox_verification" }

Observe(a) ==
    /\ Chooses(a)
    /\ Commit(a, domain)
    /\ UNCHANGED << transit, tree, measured >>

-----------------------------------------------------------------------------
(* intake_intelligence: target, interview, confirmation.                   *)

RecordProgramTarget ==
    /\ Chooses("record_program_target")
    /\ ~domain.target_dir_confirmed
    /\ Commit("record_program_target",
              [ domain EXCEPT !.target_dir_confirmed = TRUE ])
    /\ UNCHANGED << transit, tree, measured >>

ChooseDesignPath(choice) ==
    /\ Chooses("choose_design_path")
    /\ domain.target_dir_confirmed
    /\ domain.design_path = ""
    /\ Commit("choose_design_path", [ domain EXCEPT !.design_path = choice ])
    /\ UNCHANGED << transit, tree, measured >>

\* The empty delegation it writes validates, which clears the last error.
ApplyDefaultSkeleton ==
    /\ Chooses("apply_default_skeleton")
    /\ domain.design_path = "default"
    /\ ~domain.finalized
    /\ Commit("apply_default_skeleton",
              [ domain EXCEPT !.recorded = Questions, !.finalized = TRUE,
                              !.delegation_error = FALSE ])
    /\ UNCHANGED << transit, tree, measured >>

\* What an answer to question n waits for.
Asked(n) ==
    CASE n = 1 -> domain.design_path = "design"
      [] n = 6 -> 5 \in domain.recorded /\ ~domain.delegation_error
      [] OTHER -> n - 1 \in domain.recorded

\* An answer is taken once.  For Q5 the reaction on delegation_json un-records
\* an answer whose payload map names paths the manifest does not declare.
RecordAnswer(n, refused) ==
    /\ Chooses(AnswerName(n))
    /\ Asked(n)
    /\ n \notin domain.recorded
    /\ refused => n = 5
    /\ LET answered == [ domain EXCEPT !.recorded = @ \cup { n } ]
       IN Settle(AnswerName(n), answered,
                 IF n # 5 THEN answered
                 ELSE [ domain EXCEPT
                          !.recorded = IF refused THEN @ ELSE @ \cup { n },
                          !.delegation_error = refused ])
    /\ UNCHANGED << transit, tree, measured >>

RecordDocuments ==
    /\ Chooses("record_documents_descriptor")
    /\ 5 \in domain.recorded /\ 6 \notin domain.recorded
    /\ ~domain.documents_recorded
    /\ Commit("record_documents_descriptor",
              [ domain EXCEPT !.documents_recorded = TRUE ])
    /\ UNCHANGED << transit, tree, measured >>

RecordSkills ==
    /\ Chooses("record_skill_catalog")
    /\ domain.design_path = "design"
    /\ 6 \in domain.recorded
    /\ ~domain.skills_recorded /\ ~domain.finalized
    /\ Commit("record_skill_catalog", [ domain EXCEPT !.skills_recorded = TRUE ])
    /\ UNCHANGED << transit, tree, measured >>

FinalizeIntake ==
    /\ Chooses("record_program_intake_finalize")
    /\ domain.recorded = Questions
    /\ ~domain.delegation_error /\ ~domain.finalized
    /\ Commit("record_program_intake_finalize",
              [ domain EXCEPT !.finalized = TRUE ])
    /\ UNCHANGED << transit, tree, measured >>

\* The round answers a user_confirmation trigger that carried this decision.
Decided(decision) == round = "user_confirmation" /\ domain.decision = decision

ConfirmDesign ==
    /\ Chooses("confirm_design")
    /\ domain.finalized /\ domain.target_dir_confirmed
    /\ ~domain.design_confirmed
    /\ Decided("approve")
    /\ Commit("confirm_design", [ domain EXCEPT !.design_confirmed = TRUE ])
    /\ UNCHANGED << transit, tree, measured >>

\* Rejecting the design at question n re-opens n and all later answers, except
\* that Q3 re-opens itself alone and leaves the intake finalized.
Reopens(n) == IF n = 3 THEN { 3 } ELSE n .. 6

\* Mutated: a rejection leaves the intake finalized.
RejectKeepsFinalized(n) ==
    /\ Chooses(RejectName(n))
    /\ domain.finalized
    /\ Decided("reject")
    /\ Commit(RejectName(n),
              [ domain EXCEPT !.recorded = @ \ Reopens(n),
                              !.design_confirmed = FALSE ])
    /\ UNCHANGED << transit, tree, measured >>

RejectDesign(n) ==
    /\ Chooses(RejectName(n))
    /\ domain.finalized
    /\ Decided("reject")
    /\ Commit(RejectName(n),
              [ domain EXCEPT !.recorded = @ \ Reopens(n),
                              !.finalized = (n = 3),
                              !.design_confirmed = FALSE ])
    /\ UNCHANGED << transit, tree, measured >>

-----------------------------------------------------------------------------
(* repo_targeting and curator_request: where artifacts may be written.     *)

SelectRepoTarget(kind) ==
    /\ Chooses("select_repo_target")
    /\ domain.target_dir_confirmed
    /\ LET selected == [ domain EXCEPT !.target_kind = kind,
                                       !.repo_authorized = FALSE,
                                       !.repo_blocked = FALSE ]
       IN Commit("select_repo_target", selected)
    /\ UNCHANGED << transit, tree, measured >>

AuthorizeStandalone ==
    /\ Chooses("authorize_standalone_target")
    /\ domain.target_dir_confirmed /\ ~domain.repo_authorized
    /\ Commit("authorize_standalone_target",
              [ domain EXCEPT !.target_kind = "standalone_repo",
                              !.repo_authorized = TRUE,
                              !.repo_blocked = FALSE,
                              !.manifest_status = "not_required" ])
    /\ UNCHANGED << transit, tree, measured >>

\* Loading a manifest that validates is what authorizes the attachment.
LoadWiringManifest ==
    /\ Chooses("load_wiring_manifest")
    /\ domain.target_dir_confirmed /\ ~domain.repo_authorized
    /\ tree.manifest \in Valid
    /\ Commit("load_wiring_manifest",
              [ domain EXCEPT !.target_kind = "existing_repo",
                              !.manifest_status = "valid",
                              !.repo_blocked = FALSE,
                              !.repo_authorized = TRUE ])
    /\ UNCHANGED << transit, tree, measured >>

\* A missing manifest leaves a curator request on disk and fails the round.
LoadMissingManifest ==
    /\ Chooses("load_wiring_manifest")
    /\ domain.target_dir_confirmed /\ ~domain.repo_authorized
    /\ tree.manifest = "missing"
    /\ tree' = [ tree EXCEPT !.request = TRUE ]
    /\ round' = "none"
    /\ UNCHANGED << mode, notice, domain, transit, measured >>

AuthorizeExisting ==
    /\ Chooses("authorize_existing_repo_target")
    /\ domain.target_kind = "existing_repo"
    /\ domain.manifest_status = "valid"
    /\ Commit("authorize_existing_repo_target",
              [ domain EXCEPT !.repo_authorized = TRUE ])
    /\ UNCHANGED << transit, tree, measured >>

\* Handlers that need the manifest read it again from the target directory.
ReadsManifest == domain.manifest_status = "valid" /\ tree.manifest \in Valid

\* The request goes to the manifest's audit directory, so the handler needs
\* the manifest whose absence the request would report.
CanRequest ==
    /\ Chooses("create_curator_request")
    /\ mode = "repo_targeting" =>
           domain.target_kind = "existing_repo" /\ ~domain.repo_authorized
    /\ ReadsManifest

Requested == [ tree EXCEPT !.request = TRUE ]

CreateCuratorRequest ==
    /\ CanRequest
    /\ Commit("create_curator_request", [ domain EXCEPT !.request_lodged = TRUE ])
    /\ tree' = Requested
    /\ UNCHANGED << transit, measured >>

-----------------------------------------------------------------------------
(* architecture_design to branch_write: spec, plan, bodies, artifacts.     *)

SynthesizeProgramSpec ==
    /\ Chooses("synthesize_program_spec")
    /\ domain.design_confirmed
    /\ transit' = "spec"
    /\ Commit("synthesize_program_spec",
              [ domain EXCEPT !.synthesis_complete = TRUE ])
    /\ UNCHANGED << tree, measured >>

Attaching == domain.target_kind = "existing_repo"

\* The planner derives the paths from the layout it reads now, and adds the
\* paths the user's text names when it plans an attachment.
Plan(a, requested) ==
    /\ Chooses(a)
    /\ domain.repo_authorized /\ domain.synthesis_complete
    /\ transit # "none"
    /\ Attaching => ReadsManifest
    /\ requested => Attaching
    /\ Commit(a, [ domain EXCEPT
                     !.plan_status = "draft",
                     !.plan = IF Attaching THEN tree.manifest ELSE "standalone",
                     !.plan_has_requested = requested ])
    /\ UNCHANGED << transit, tree, measured >>

PlanArtifacts(requested) ==
    /\ domain.plan_status = "" /\ round = "system_mode_entry"
    /\ Plan("plan_artifacts", requested)

ReviseArtifactPlan(requested) ==
    /\ domain.plan_status = "draft" /\ Decided("reject")
    /\ Plan("revise_artifact_plan", requested)

\* Mutated: the plan's approval does not ask for the user's.
ApproveUnasked ==
    /\ Chooses("approve_artifact_plan")
    /\ domain.repo_authorized /\ domain.synthesis_complete
    /\ domain.plan_status = "draft"
    /\ Commit("approve_artifact_plan", [ domain EXCEPT !.plan_status = "approved" ])
    /\ UNCHANGED << transit, tree, measured >>

ApproveArtifactPlan ==
    /\ Chooses("approve_artifact_plan")
    /\ domain.repo_authorized /\ domain.synthesis_complete
    /\ domain.plan_status = "draft"
    /\ Decided("approve")
    /\ Commit("approve_artifact_plan", [ domain EXCEPT !.plan_status = "approved" ])
    /\ UNCHANGED << transit, tree, measured >>

\* Bodies reach the store only when every stage has been accepted.
SynthesizeDomainLogic ==
    /\ Chooses("synthesize_domain_logic")
    /\ domain.plan_status = "approved" /\ ~domain.domain_complete
    /\ round = "system_mode_entry"
    /\ transit # "none"
    /\ transit' = "bodies"
    /\ Commit("synthesize_domain_logic", [ domain EXCEPT !.domain_complete = TRUE ])
    /\ UNCHANGED << tree, measured >>

\* Mutated: only the foundry's own artifacts count as being in the way.
NoScaffoldInTheWay == tree.scaffold = "none"

\* Every artifact of a plan is created, none may exist: a standalone project
\* brings its own package.json and .pgas/wiring.yml, an attachment its own
\* audit/PGAS-NEW-<slug>.md.
NothingInTheWay ==
    /\ tree.scaffold = "none"
    /\ IF Attaching THEN ~tree.request
                    ELSE ~tree.occupied /\ tree.manifest = "missing"

CanWrite ==
    /\ Chooses("write_scaffold_artifacts")
    /\ domain.plan_status = "approved" /\ domain.domain_complete
    /\ transit = "bodies"
    /\ Attaching => ReadsManifest
    /\ NothingInTheWay

\* The layout the writer renders: that of the manifest as it is now.
WrittenLayout == IF Attaching THEN tree.manifest ELSE "standalone"

\* Mutated: nobody asserts that the planned paths were written.
WritesAnything == TRUE

\* The writer knows the planner's own paths, not the requested ones.
WritesThePlan == WrittenLayout = domain.plan /\ ~domain.plan_has_requested

Rendered == [ tree EXCEPT !.scaffold = WrittenLayout, !.manifest = WrittenLayout ]

WriteScaffoldArtifacts ==
    /\ CanWrite /\ WritesThePlan
    /\ tree' = Rendered
    /\ Commit("write_scaffold_artifacts", [ domain EXCEPT !.written = TRUE ])
    /\ UNCHANGED << transit, measured >>

\* That every planned path was written is asserted after the writing.
WriteMissesPlannedPaths ==
    /\ CanWrite /\ ~WritesThePlan
    /\ tree' = Rendered
    /\ round' = "none"
    /\ UNCHANGED << mode, notice, domain, transit, measured >>

-----------------------------------------------------------------------------
(* static_verify to rebase_verify: recording evidence.                     *)

\* What the author may pass as a status: a canonical word, text that leads
\* with one, or a no-op phrase.  Text no parser accepts fails the round.
StatusArgs == Verdicts \cup { "passed: text", "failed: text", "skipped: text", "no-op" }

\* The status an argument is parsed to; "" when the parser refuses it.
Parsed(arg) ==
    CASE arg \in { "passed", "passed: text" } -> "passed"
      [] arg \in { "failed", "failed: text" } -> "failed"
      [] arg \in { "skipped", "skipped: text" } -> "skipped"
      [] OTHER -> ""

\* Mutated: a rebase is parsed like any other verdict.
ParsedStrictly(arg) == Parsed(arg)

\* The rebase is recorded only if it did not throw, so anything but a failure
\* (a skip, a no-op phrase) counts as passed.
ParsedRebase(arg) == IF Parsed(arg) = "failed" THEN "failed" ELSE "passed"

RunStaticVerification(arg) ==
    /\ Chooses("run_static_verification")
    /\ Parsed(arg) # ""
    /\ Settle("run_static_verification",
              [ domain EXCEPT !.static = arg ],
              [ domain EXCEPT !.static = Parsed(arg) ])
    /\ UNCHANGED << transit, tree, measured >>

\* The handler runs the generated smoke test and returns its outcome; what is
\* recorded is the status argument, which the author chose before it ran.
RunSmokeVerification(arg, outcome) ==
    /\ Chooses("run_smoke_verification")
    /\ domain.static = "passed"
    /\ Parsed(arg) # ""
    /\ Settle("run_smoke_verification",
              [ domain EXCEPT !.smoke = arg ],
              [ domain EXCEPT !.smoke = Parsed(arg) ])
    /\ measured' = [ measured EXCEPT !.smoke = outcome ]
    /\ UNCHANGED << transit, tree >>

\* Mutated: live verification is agreed to whatever the smoke run said.
ConfirmUnproven ==
    /\ Chooses("confirm_live_provider_intent")
    /\ Commit("confirm_live_provider_intent", [ domain EXCEPT !.live_intent = TRUE ])
    /\ UNCHANGED << transit, tree, measured >>

ConfirmLiveProviderIntent ==
    /\ Chooses("confirm_live_provider_intent")
    /\ domain.smoke = "passed"
    /\ Commit("confirm_live_provider_intent", [ domain EXCEPT !.live_intent = TRUE ])
    /\ UNCHANGED << transit, tree, measured >>

\* Mutated: the drive is recorded as the author reports it.
DriveAsReported(arg, outcome) ==
    /\ Chooses("run_generated_live_drive_verification")
    /\ domain.live_intent
    /\ Attaching /\ outcome = "passed" =>
           ReadsManifest /\ tree.manifest = tree.scaffold
    /\ Settle("run_generated_live_drive_verification",
              [ domain EXCEPT !.drive = arg ],
              [ domain EXCEPT !.drive = Parsed(arg) ])
    /\ measured' = [ measured EXCEPT !.drive = outcome ]
    /\ UNCHANGED << transit, tree >>

\* The drive boots the generated program; its report overrides the argument.
\* An attachment is looked up through the manifest unless the provider is not
\* reachable, and a program that is not there does not complete.  Its channel
\* carries no notice.
RunGeneratedLiveDrive(arg, outcome) ==
    /\ Chooses("run_generated_live_drive_verification")
    /\ domain.live_intent
    /\ Attaching /\ outcome = "passed" =>
           ReadsManifest /\ tree.manifest = tree.scaffold
    /\ Settle("run_generated_live_drive_verification",
              [ domain EXCEPT !.drive = arg ],
              [ domain EXCEPT !.drive = outcome ])
    /\ measured' = [ measured EXCEPT !.drive = outcome ]
    /\ UNCHANGED << transit, tree >>

\* A test that fails throws; an unreachable provider does not.
RunLiveProviderVerification(arg) ==
    /\ Chooses("run_live_provider_verification")
    /\ domain.live_intent /\ domain.drive = "passed"
    /\ Parsed(arg) # ""
    /\ Settle("run_live_provider_verification",
              [ domain EXCEPT !.live = arg ],
              [ domain EXCEPT !.live = Parsed(arg) ])
    /\ UNCHANGED << transit, tree, measured >>

\* A conflict throws.
GitRebaseLatest(arg) ==
    /\ Chooses("git_rebase_latest")
    /\ Settle("git_rebase_latest",
              [ domain EXCEPT !.rebase = arg ],
              [ domain EXCEPT !.rebase = ParsedRebase(arg) ])
    /\ UNCHANGED << transit, tree, measured >>

\* The handler of the post-rebase verdict runs: it rewrites the graduation
\* audit before the engine commits the verdict.
GivesVerdict(arg) ==
    /\ Chooses("run_rebase_static_verification")
    /\ domain.rebase = "passed"
    /\ Parsed(arg) # ""

\* An attachment's audit is where its manifest says.
FindsAudit == Attaching => ReadsManifest

Audited(verdict) == [ tree EXCEPT !.audit = verdict ]

\* Mutated: the audit is drawn from the state the round began in.
AuditFromSnapshot(arg, finalized) ==
    /\ GivesVerdict(arg)
    /\ finalized => FindsAudit
    /\ tree' = IF finalized THEN Audited(domain.rebase_static) ELSE tree
    /\ measured' = [ measured EXCEPT !.audited = finalized ]
    /\ Settle("run_rebase_static_verification",
              [ domain EXCEPT !.rebase_static = arg ],
              [ domain EXCEPT !.rebase_static = Parsed(arg) ])
    /\ UNCHANGED transit

\* An audit that cannot be found or written is left as it was, and the handler
\* reports that it was not finalized; the verdict is recorded all the same.
RunRebaseStaticVerification(arg, finalized) ==
    /\ GivesVerdict(arg)
    /\ finalized => FindsAudit
    /\ tree' = IF finalized THEN Audited(Parsed(arg)) ELSE tree
    /\ measured' = [ measured EXCEPT !.audited = finalized ]
    /\ Settle("run_rebase_static_verification",
              [ domain EXCEPT !.rebase_static = arg ],
              [ domain EXCEPT !.rebase_static = Parsed(arg) ])
    /\ UNCHANGED transit

-----------------------------------------------------------------------------
(* Around the session.                                                     *)

\* The curator publishes, corrects, breaks or removes the wiring manifest.
CuratorEdits(manifest) ==
    /\ Curated
    /\ tree.occupied
    /\ tree' = [ tree EXCEPT !.manifest = manifest ]
    /\ UNCHANGED << mode, round, notice, domain, transit, measured >>

\* What the handler of the round in flight may have put on disk when its round
\* is lost: some or all of the artifacts, a curator request, an audit that
\* states a verdict nobody recorded.
Leftovers ==
    { t \in { [ tree EXCEPT !.scaffold = "partial" ], Rendered } : CanWrite }
    \cup { t \in { Requested } : CanRequest }
    \cup { t \in { Audited(Parsed(arg)) : arg \in { a \in StatusArgs : GivesVerdict(a) } } :
              FindsAudit }

\* The handler has written and the engine does not commit its round.  Artifacts
\* that are lost this way are in the way of the next write.
RoundIsLost ==
    /\ round # "none"
    /\ tree' \in Leftovers
    /\ tree'.scaffold # tree.scaffold => Restarts
    /\ round' = "none"
    /\ UNCHANGED << mode, notice, domain, transit, measured >>

\* The server stops and starts again: governed state is persisted, the transit
\* store, a pending notice and a round in flight are not.  It may stop between
\* what a handler writes and the commit of its round.
Restart ==
    /\ Restarts
    /\ round' = "none"
    /\ notice' = FALSE
    /\ transit' = "none"
    /\ tree' \in { tree } \cup Leftovers
    /\ UNCHANGED << mode, domain, measured >>

Graduated == mode \in Terminal /\ UNCHANGED vars

Triggered ==
    \/ UserSpeaks
    \/ \E decision \in { "approve", "reject" } : UserConfirms(decision)
    \/ Continue
    \/ Drive

Interviewed ==
    \/ RecordProgramTarget
    \/ \E choice \in { "default", "design" } : ChooseDesignPath(choice)
    \/ ApplyDefaultSkeleton
    \/ \E n \in Questions, refused \in BOOLEAN : RecordAnswer(n, refused)
    \/ RecordDocuments
    \/ RecordSkills
    \/ FinalizeIntake
    \/ ConfirmDesign
    \/ \E n \in Questions : RejectDesign(n)

Targeted ==
    \/ \E kind \in { "standalone_repo", "existing_repo", "other" } :
           SelectRepoTarget(kind)
    \/ AuthorizeStandalone
    \/ LoadWiringManifest
    \/ LoadMissingManifest
    \/ AuthorizeExisting
    \/ CreateCuratorRequest

Generated ==
    \/ SynthesizeProgramSpec
    \/ \E requested \in Requests :
           PlanArtifacts(requested) \/ ReviseArtifactPlan(requested)
    \/ ApproveArtifactPlan
    \/ SynthesizeDomainLogic
    \/ WriteScaffoldArtifacts
    \/ WriteMissesPlannedPaths

Verified ==
    \/ \E arg \in StatusArgs :
           \/ RunStaticVerification(arg)
           \/ \E outcome \in { "passed", "failed" } : RunSmokeVerification(arg, outcome)
           \/ \E outcome \in Verdicts : RunGeneratedLiveDrive(arg, outcome)
           \/ RunLiveProviderVerification(arg)
           \/ GitRebaseLatest(arg)
           \/ \E finalized \in BOOLEAN : RunRebaseStaticVerification(arg, finalized)
    \/ ConfirmLiveProviderIntent

Next ==
    \/ Triggered
    \/ RoundFails
    \/ RoundIsLost
    \/ \E a \in Observing : Observe(a)
    \/ Interviewed
    \/ Targeted
    \/ Generated
    \/ Verified
    \/ \E manifest \in Layouts \cup { "missing", "invalid" } : CuratorEdits(manifest)
    \/ Restart
    \/ Graduated

Spec == Init /\ [][Next]_vars

-----------------------------------------------------------------------------
(* What the session must never do.                                         *)

\* The rung of a mode; a curator request is an aside of repo targeting.
Rank ==
    [ intake_intelligence |-> 0, repo_targeting |-> 1, curator_request |-> 1,
      architecture_design |-> 2, scaffold_plan |-> 3, domain_synthesis |-> 4,
      branch_write |-> 5, static_verify |-> 6, smoke_verify |-> 7,
      live_verify |-> 8, rebase_verify |-> 9, pr_graduation |-> 10 ]

\* What governed state d must have on record before the session leaves rung r.
Evidence(d, r) ==
    CASE r = 0 -> d.design_confirmed
      [] r = 1 -> d.repo_authorized
      [] r = 2 -> d.synthesis_complete
      [] r = 3 -> d.plan_status = "approved"
      [] r = 4 -> d.domain_complete
      [] r = 5 -> d.written
      [] r = 6 -> d.static = "passed"
      [] r = 7 -> d.smoke = "passed" /\ d.live_intent
      [] r = 8 -> d.drive = "passed" /\ d.live = "passed"
      [] r = 9 -> d.rebase = "passed" /\ d.rebase_static = "passed"

L == INSTANCE Ladder WITH
        Top <- 10, Gated <- { 0, 3 },
        rung <- Rank[mode],
        approval <- Decided("approve"),
        proven <- { r \in 0 .. 9 : Evidence(domain, r) }

\* Modes are climbed one by one on evidence that stays on record, and the
\* design and the artifact plan are each left behind only in a round that
\* answers an approval of the user's: specs.yml's transitions, proceeds_to and
\* preconditions together, whatever the order the author tries things in.
Climbs == L!Ascent

\* In every mode all the evidence of the modes before it is on record, and
\* none of the modes after it.
EarnedInOrder == L!EarnedInOrder

\* Neither the mode a session sits in nor any mode ahead of it has its exit
\* open, so no later round can spoil the evidence it is about to leave on.
\* Repository targeting alone waits for a second action once writing is
\* authorized.  EarnedInOrder is not inductive without it.
NoOpenExit ==
    \A m \in Modes \ { "repo_targeting", "curator_request" } :
        Rank[m] >= Rank[mode] => Eligible(m, domain) = m

\* What the session records as written is what the user approved: the planned
\* paths, laid out by the manifest they were planned under, none left out.
WrittenIsWhatWasApproved ==
    domain.written => /\ tree.scaffold = domain.plan
                      /\ ~domain.plan_has_requested

\* A standalone scaffold never lands in a repository of somebody else's, even
\* half of it, and even when the manifest goes away between the authorization
\* and the write.
NeverOverwrites == tree.occupied => tree.scaffold # "standalone"

\* From the plan's approval on, the last decision the user made is that
\* approval: no rejection can arrive that the session would ignore.
ApprovalIsTheLastWord == domain.plan_status = "approved" => domain.decision = "approve"

\* A confirmed design has every answer but that to Q3 on record, and a
\* delegation that validates.
DesignIsAnswered ==
    domain.design_confirmed =>
        Questions \ { 3 } \subseteq domain.recorded /\ ~domain.delegation_error

\* Past live verification, the program was really driven end to end and
\* passed, whatever status the author reported.
GraduatedProgramWasDriven == Rank[mode] > 8 => measured.drive = "passed"

\* A graduated session whose last run of the post-rebase rung reported the audit
\* finalized has an audit that states the verdict on record.  Before that the
\* audit may be ahead of the record: its handler writes before the engine
\* commits, and rounds are lost in between.
AuditTellsTheTruth ==
    mode = "pr_graduation" /\ measured.audited => tree.audit = domain.rebase_static

\* An audit that states a post-rebase verdict at all, even one of a round that
\* was lost, is that of a program whose last live drive passed.
AuditedWasDriven == tree.audit # "" => measured.drive = "passed"

\* Graduation is earned even by an engine whose guards sometimes read a
\* reported status before the reaction has canonicalized it.
GraduationIsEarned ==
    mode = "pr_graduation" =>
        /\ domain.static = "passed" /\ domain.smoke = "passed" /\ domain.live_intent
        /\ domain.live = "passed" /\ domain.rebase_static = "passed"
        /\ domain.written /\ domain.plan_status = "approved"

-----------------------------------------------------------------------------
(* What must happen.                                                       *)

\* The engine opens a round for every notice, and a graduation driver opens
\* rounds where no notice comes.
Scheduled == WF_vars(Continue) /\ WF_vars(Drive)

\* An author that keeps trying does, sooner or later, the work its mode is for,
\* and the generated program passes; the rebase may be a no-op.
Cooperative ==
    /\ SF_vars(SynthesizeDomainLogic)
    /\ SF_vars(WriteScaffoldArtifacts)
    /\ SF_vars(RunStaticVerification("passed"))
    /\ SF_vars(RunSmokeVerification("passed: text", "passed"))
    /\ SF_vars(ConfirmLiveProviderIntent)
    /\ SF_vars(RunGeneratedLiveDrive("passed", "passed"))
    /\ SF_vars(RunLiveProviderVerification("passed: text"))
    /\ SF_vars(GitRebaseLatest("no-op"))
    /\ SF_vars(\E finalized \in BOOLEAN :
                   RunRebaseStaticVerification("passed: text", finalized))

LiveSpec == Spec /\ Scheduled /\ Cooperative

\* Once the user has approved the plan, and nothing stands where it would be
\* written, the session graduates without the user's help, whatever else the
\* author tries on the way: no mode of the second half is a dead end.
ApprovedPlanGraduates ==
    (domain.plan_status = "approved" /\ NothingInTheWay) ~> (mode = "pr_graduation")
=============================================================================
