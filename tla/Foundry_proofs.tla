--------------------------- MODULE Foundry_proofs ---------------------------
(***************************************************************************)
(* Theorems about Foundry, for every set of layouts and of target          *)
(* directories, whether or not curators edit, users ask for paths and      *)
(* servers restart.  Types, earned graduations, the approval's last word   *)
(* and what is written are right under any reading of guards; that a       *)
(* session climbs the ladder of its modes, and what follows from that, the *)
(* audit included, when a guard reads what the reactions have settled.     *)
(***************************************************************************)
EXTENDS Foundry, TLAPS

-----------------------------------------------------------------------------
(* Type correctness.                                                       *)

\* The guards of a mode lead to a mode, whatever the governed state.
LEMMA EligibleIsAMode ==
    ASSUME NEW m \in Modes, NEW d
    PROVE  Eligible(m, d) \in Modes
BY DEF Eligible, Modes

\* The verdict of a status argument is a status.
LEMMA ParsedIsAStatus ==
    ASSUME NEW arg
    PROVE  Parsed(arg) \in Status /\ ParsedRebase(arg) \in Status
BY DEF Parsed, ParsedRebase, Status, Verdicts

\* A commit of a well-typed governed state keeps the session well typed.
LEMMA SettleKeepsTypes ==
    ASSUME TypeOK, NEW a, NEW written, NEW settled \in Domain,
           Settle(a, written, settled)
    PROVE  /\ mode' \in Modes
           /\ round' \in Channels \cup { "none" }
           /\ notice' \in BOOLEAN
           /\ domain' \in Domain
<1>1. \A d : Moved(a, d) \in Modes
    BY EligibleIsAMode DEF Moved, TypeOK
<1>2. mode' \in Modes
    BY <1>1 DEF Settle
<1> QED
    BY <1>2 DEF Settle, TypeOK

\* Triggers, failing rounds and observations keep the types.
LEMMA RoundTypes ==
    ASSUME TypeOK,
           Triggered \/ RoundFails \/ \E a \in Observing : Observe(a)
    PROVE  TypeOK'
<1>1. CASE Triggered
  <2>1. ASSUME NEW decision \in { "approve", "reject" }, UserConfirms(decision)
        PROVE  TypeOK'
    BY <2>1 DEF TypeOK, UserConfirms, Open, Accepts, Channels, Domain
  <2>2. CASE UserSpeaks \/ Continue \/ Drive
    BY <2>2 DEF TypeOK, UserSpeaks, Continue, Drive, Open, Channels
  <2> QED
    BY <1>1, <2>1, <2>2 DEF Triggered
<1>2. CASE RoundFails
    BY <1>2 DEF TypeOK, RoundFails
<1>3. ASSUME NEW a \in Observing, Observe(a)
      PROVE  TypeOK'
    BY <1>3, SettleKeepsTypes DEF TypeOK, Observe, Commit
<1> QED
    BY <1>1, <1>2, <1>3

\* So does the interview.
LEMMA InterviewTypes ==
    ASSUME TypeOK, Interviewed
    PROVE  TypeOK'
<1>1. CASE RecordProgramTarget
  <2>1. [ domain EXCEPT !.target_dir_confirmed = TRUE ] \in Domain
    BY DEF TypeOK, Domain
  <2> QED
    BY <1>1, <2>1, SettleKeepsTypes DEF TypeOK, RecordProgramTarget, Commit
<1>2. ASSUME NEW choice \in { "default", "design" }, ChooseDesignPath(choice)
      PROVE  TypeOK'
  <2>1. [ domain EXCEPT !.design_path = choice ] \in Domain
    BY DEF TypeOK, Domain
  <2> QED
    BY <1>2, <2>1, SettleKeepsTypes DEF TypeOK, ChooseDesignPath, Commit
<1>3. CASE ApplyDefaultSkeleton
  <2>1. [ domain EXCEPT !.recorded = Questions, !.finalized = TRUE,
                        !.delegation_error = FALSE ] \in Domain
    BY DEF TypeOK, Domain
  <2> QED
    BY <1>3, <2>1, SettleKeepsTypes DEF TypeOK, ApplyDefaultSkeleton, Commit
<1>4. ASSUME NEW n \in Questions, NEW refused \in BOOLEAN, RecordAnswer(n, refused)
      PROVE  TypeOK'
  <2> DEFINE answered == [ domain EXCEPT !.recorded = @ \cup { n } ]
             settled == IF n # 5 THEN answered
                        ELSE [ domain EXCEPT
                                 !.recorded = IF refused THEN @ ELSE @ \cup { n },
                                 !.delegation_error = refused ]
  <2>a. domain.recorded \cup { n } \in SUBSET Questions
    BY DEF TypeOK, Domain
  <2>b. answered \in Domain
    BY <2>a DEF TypeOK, Domain
  <2>c. ASSUME n = 5
        PROVE  [ domain EXCEPT !.recorded = IF refused THEN @ ELSE @ \cup { n },
                               !.delegation_error = refused ] \in Domain
    BY <2>a DEF TypeOK, Domain
  <2>1. settled \in Domain
    BY <2>b, <2>c
  <2>2. /\ Settle(AnswerName(n), answered, settled)
        /\ UNCHANGED << transit, tree, measured >>
    BY <1>4 DEF RecordAnswer
  <2> HIDE DEF answered, settled
  <2> QED
    BY <2>1, <2>2, SettleKeepsTypes DEF TypeOK
<1>5. CASE RecordDocuments
  <2>1. [ domain EXCEPT !.documents_recorded = TRUE ] \in Domain
    BY DEF TypeOK, Domain
  <2> QED
    BY <1>5, <2>1, SettleKeepsTypes DEF TypeOK, RecordDocuments, Commit
<1>6. CASE RecordSkills
  <2>1. [ domain EXCEPT !.skills_recorded = TRUE ] \in Domain
    BY DEF TypeOK, Domain
  <2> QED
    BY <1>6, <2>1, SettleKeepsTypes DEF TypeOK, RecordSkills, Commit
<1>7. CASE FinalizeIntake
  <2>1. [ domain EXCEPT !.finalized = TRUE ] \in Domain
    BY DEF TypeOK, Domain
  <2> QED
    BY <1>7, <2>1, SettleKeepsTypes DEF TypeOK, FinalizeIntake, Commit
<1>8. CASE ConfirmDesign
  <2>1. [ domain EXCEPT !.design_confirmed = TRUE ] \in Domain
    BY DEF TypeOK, Domain
  <2> QED
    BY <1>8, <2>1, SettleKeepsTypes DEF TypeOK, ConfirmDesign, Commit
<1>9. ASSUME NEW n \in Questions, RejectDesign(n)
      PROVE  TypeOK'
  <2>a. domain.recorded \ Reopens(n) \in SUBSET Questions
    BY DEF TypeOK, Domain
  <2>b. \A b \in BOOLEAN :
            [ domain EXCEPT !.recorded = @ \ Reopens(n), !.finalized = b,
                            !.design_confirmed = FALSE ] \in Domain
    BY <2>a DEF TypeOK, Domain
  <2>1. [ domain EXCEPT !.recorded = @ \ Reopens(n), !.finalized = (n = 3),
                        !.design_confirmed = FALSE ] \in Domain
    <3>1. (n = 3) \in BOOLEAN
      OBVIOUS
    <3> QED
      BY <3>1, <2>b
  <2> QED
    BY <1>9, <2>1, SettleKeepsTypes DEF TypeOK, RejectDesign, Commit
<1> QED
    BY <1>1, <1>2, <1>3, <1>4, <1>5, <1>6, <1>7, <1>8, <1>9 DEF Interviewed

\* So does targeting.
LEMMA TargetTypes ==
    ASSUME TypeOK, Targeted
    PROVE  TypeOK'
<1>1. ASSUME NEW kind \in { "standalone_repo", "existing_repo", "other" },
             SelectRepoTarget(kind)
      PROVE  TypeOK'
  <2>1. [ domain EXCEPT !.target_kind = kind, !.repo_authorized = FALSE,
                        !.repo_blocked = FALSE ] \in Domain
    BY DEF TypeOK, Domain
  <2> QED
    BY <1>1, <2>1, SettleKeepsTypes DEF TypeOK, SelectRepoTarget, Commit
<1>2. CASE AuthorizeStandalone
  <2>1. [ domain EXCEPT !.target_kind = "standalone_repo",
                        !.repo_authorized = TRUE, !.repo_blocked = FALSE,
                        !.manifest_status = "not_required" ] \in Domain
    BY DEF TypeOK, Domain
  <2> QED
    BY <1>2, <2>1, SettleKeepsTypes DEF TypeOK, AuthorizeStandalone, Commit
<1>3. CASE LoadWiringManifest
  <2>1. [ domain EXCEPT !.target_kind = "existing_repo",
                        !.manifest_status = "valid", !.repo_blocked = FALSE,
                        !.repo_authorized = TRUE ] \in Domain
    BY DEF TypeOK, Domain
  <2> QED
    BY <1>3, <2>1, SettleKeepsTypes DEF TypeOK, LoadWiringManifest, Commit
<1>4. CASE LoadMissingManifest
    BY <1>4 DEF TypeOK, Tree, LoadMissingManifest
<1>5. CASE AuthorizeExisting
  <2>1. [ domain EXCEPT !.repo_authorized = TRUE ] \in Domain
    BY DEF TypeOK, Domain
  <2> QED
    BY <1>5, <2>1, SettleKeepsTypes DEF TypeOK, AuthorizeExisting, Commit
<1>6. CASE CreateCuratorRequest
  <2>1. [ domain EXCEPT !.request_lodged = TRUE ] \in Domain
    BY DEF TypeOK, Domain
  <2>2. tree' \in Tree
    BY <1>6 DEF TypeOK, Tree, CreateCuratorRequest, Requested
  <2> QED
    BY <1>6, <2>1, <2>2, SettleKeepsTypes DEF TypeOK, CreateCuratorRequest, Commit
<1> QED
    BY <1>1, <1>2, <1>3, <1>4, <1>5, <1>6 DEF Targeted

\* What is written has a valid layout, and a manifest of that layout.
LEMMA RenderedIsATree ==
    ASSUME TypeOK, CanWrite
    PROVE  /\ Rendered \in Tree
           /\ WrittenLayout \in Valid
           /\ Rendered.scaffold = WrittenLayout /\ Rendered.manifest = WrittenLayout
           /\ Rendered.occupied = tree.occupied /\ Rendered.audit = tree.audit
<1>1. WrittenLayout \in Valid
    BY DEF CanWrite, WrittenLayout, ReadsManifest, Valid
<1> QED
    BY <1>1 DEF TypeOK, Tree, Rendered

\* So does generation, which takes layouts from manifests that can be read.
LEMMA GenerationTypes ==
    ASSUME TypeOK, Generated
    PROVE  TypeOK'
<1>1. CASE SynthesizeProgramSpec
  <2>1. [ domain EXCEPT !.synthesis_complete = TRUE ] \in Domain
    BY DEF TypeOK, Domain
  <2> QED
    BY <1>1, <2>1, SettleKeepsTypes DEF TypeOK, SynthesizeProgramSpec, Commit
<1>2. ASSUME NEW a, NEW requested \in BOOLEAN, Plan(a, requested)
      PROVE  TypeOK'
  <2>1. (IF Attaching THEN tree.manifest ELSE "standalone") \in Valid
    BY <1>2 DEF Plan, ReadsManifest, Valid
  <2>2. \A p \in Valid :
            [ domain EXCEPT !.plan_status = "draft", !.plan = p,
                            !.plan_has_requested = requested ] \in Domain
    BY DEF TypeOK, Domain
  <2>3. [ domain EXCEPT !.plan_status = "draft",
                        !.plan = IF Attaching THEN tree.manifest ELSE "standalone",
                        !.plan_has_requested = requested ] \in Domain
    BY <2>1, <2>2
  <2> QED
    BY <1>2, <2>3, SettleKeepsTypes DEF TypeOK, Plan, Commit
<1>3. ASSUME NEW requested \in Requests,
             PlanArtifacts(requested) \/ ReviseArtifactPlan(requested)
      PROVE  TypeOK'
    BY <1>2, <1>3, RequestsAssumption DEF PlanArtifacts, ReviseArtifactPlan
<1>4. CASE ApproveArtifactPlan
  <2>1. [ domain EXCEPT !.plan_status = "approved" ] \in Domain
    BY DEF TypeOK, Domain
  <2> QED
    BY <1>4, <2>1, SettleKeepsTypes DEF TypeOK, ApproveArtifactPlan, Commit
<1>5. CASE SynthesizeDomainLogic
  <2>1. [ domain EXCEPT !.domain_complete = TRUE ] \in Domain
    BY DEF TypeOK, Domain
  <2> QED
    BY <1>5, <2>1, SettleKeepsTypes DEF TypeOK, SynthesizeDomainLogic, Commit
<1>6. CanWrite => Rendered \in Tree
    BY RenderedIsATree
<1>7. CASE WriteScaffoldArtifacts
  <2>1. [ domain EXCEPT !.written = TRUE ] \in Domain
    BY DEF TypeOK, Domain
  <2> QED
    BY <1>6, <1>7, <2>1, SettleKeepsTypes DEF TypeOK, WriteScaffoldArtifacts, Commit
<1>8. CASE WriteMissesPlannedPaths
    BY <1>6, <1>8 DEF TypeOK, WriteMissesPlannedPaths
<1> QED
    BY <1>1, <1>3, <1>4, <1>5, <1>7, <1>8 DEF Generated

\* An audit with another verdict changes nothing else of the target directory.
LEMMA AuditedIsATree ==
    ASSUME TypeOK, NEW verdict \in Status
    PROVE  /\ Audited(verdict) \in Tree
           /\ Audited(verdict).scaffold = tree.scaffold
           /\ Audited(verdict).manifest = tree.manifest
           /\ Audited(verdict).occupied = tree.occupied
           /\ Audited(verdict).audit = verdict
BY DEF TypeOK, Tree, Audited

\* So does verification: what is recorded is a parsed verdict.
LEMMA VerificationTypes ==
    ASSUME TypeOK, Verified
    PROVE  TypeOK'
<1>1. ASSUME NEW arg, RunStaticVerification(arg)
      PROVE  TypeOK'
  <2>1. [ domain EXCEPT !.static = Parsed(arg) ] \in Domain
    BY ParsedIsAStatus DEF TypeOK, Domain, Status
  <2> QED
    BY <1>1, <2>1, SettleKeepsTypes DEF TypeOK, RunStaticVerification
<1>2. ASSUME NEW arg, NEW outcome \in { "passed", "failed" },
             RunSmokeVerification(arg, outcome)
      PROVE  TypeOK'
  <2>1. [ domain EXCEPT !.smoke = Parsed(arg) ] \in Domain
    BY ParsedIsAStatus DEF TypeOK, Domain, Status
  <2>2. measured' \in [ smoke : Status, drive : Status, audited : BOOLEAN ]
    BY <1>2 DEF TypeOK, Status, Verdicts, RunSmokeVerification
  <2> QED
    BY <1>2, <2>1, <2>2, SettleKeepsTypes DEF TypeOK, RunSmokeVerification
<1>3. ASSUME NEW arg, NEW outcome \in Verdicts,
             RunGeneratedLiveDrive(arg, outcome)
      PROVE  TypeOK'
  <2>1. [ domain EXCEPT !.drive = outcome ] \in Domain
    BY ParsedIsAStatus DEF TypeOK, Domain, Status
  <2>2. measured' \in [ smoke : Status, drive : Status, audited : BOOLEAN ]
    BY <1>3 DEF TypeOK, Status, Verdicts, RunGeneratedLiveDrive
  <2> QED
    BY <1>3, <2>1, <2>2, SettleKeepsTypes DEF TypeOK, RunGeneratedLiveDrive
<1>4. ASSUME NEW arg, RunLiveProviderVerification(arg)
      PROVE  TypeOK'
  <2>1. [ domain EXCEPT !.live = Parsed(arg) ] \in Domain
    BY ParsedIsAStatus DEF TypeOK, Domain, Status
  <2> QED
    BY <1>4, <2>1, SettleKeepsTypes DEF TypeOK, RunLiveProviderVerification
<1>5. ASSUME NEW arg, GitRebaseLatest(arg)
      PROVE  TypeOK'
  <2>1. [ domain EXCEPT !.rebase = ParsedRebase(arg) ] \in Domain
    BY ParsedIsAStatus DEF TypeOK, Domain, Status
  <2> QED
    BY <1>5, <2>1, SettleKeepsTypes DEF TypeOK, GitRebaseLatest
<1>6. ASSUME NEW arg, NEW finalized \in BOOLEAN,
             RunRebaseStaticVerification(arg, finalized)
      PROVE  TypeOK'
  <2>0. \A verdict \in Status : [ domain EXCEPT !.rebase_static = verdict ] \in Domain
    BY DEF TypeOK, Domain
  <2>1. [ domain EXCEPT !.rebase_static = Parsed(arg) ] \in Domain
    BY <2>0, ParsedIsAStatus
  <2>2. tree' \in Tree
    <3>1. Audited(Parsed(arg)) \in Tree
      BY AuditedIsATree, ParsedIsAStatus
    <3> QED
      BY <1>6, <3>1 DEF TypeOK, RunRebaseStaticVerification
  <2>3. measured' \in [ smoke : Status, drive : Status, audited : BOOLEAN ]
    BY <1>6 DEF TypeOK, RunRebaseStaticVerification
  <2> QED
    BY <1>6, <2>1, <2>2, <2>3, SettleKeepsTypes DEF TypeOK, RunRebaseStaticVerification
<1>7. CASE ConfirmLiveProviderIntent
  <2>1. [ domain EXCEPT !.live_intent = TRUE ] \in Domain
    BY DEF TypeOK, Domain
  <2> QED
    BY <1>7, <2>1, SettleKeepsTypes DEF TypeOK, ConfirmLiveProviderIntent, Commit
<1> QED
    BY <1>1, <1>2, <1>3, <1>4, <1>5, <1>6, <1>7 DEF Verified

\* What a lost round leaves on disk: artifacts where they could be written, an
\* audit where a post-rebase verdict could be given, and nothing else of note.
LEMMA LeftoversAreTrees ==
    ASSUME TypeOK, NEW t \in Leftovers
    PROVE  /\ t \in Tree
           /\ \/ CanWrite /\ t \in { [ tree EXCEPT !.scaffold = "partial" ], Rendered }
              \/ /\ t.scaffold = tree.scaffold /\ t.manifest = tree.manifest
                 /\ t.occupied = tree.occupied
           /\ t.audit = tree.audit \/ \E arg \in StatusArgs : GivesVerdict(arg)
<1>1. CASE CanWrite /\ t \in { [ tree EXCEPT !.scaffold = "partial" ], Rendered }
    BY <1>1, RenderedIsATree DEF TypeOK, Tree
<1>2. CASE t = Requested
    BY <1>2 DEF TypeOK, Tree, Requested
<1>3. ASSUME NEW arg \in StatusArgs, GivesVerdict(arg), t = Audited(Parsed(arg))
      PROVE  /\ t \in Tree
             /\ t.scaffold = tree.scaffold /\ t.manifest = tree.manifest
             /\ t.occupied = tree.occupied
             /\ \E verdict \in StatusArgs : GivesVerdict(verdict)
    BY <1>3, AuditedIsATree, ParsedIsAStatus
<1> QED
    BY <1>1, <1>2, <1>3 DEF Leftovers

\* Every step keeps the types.
LEMMA StepKeepsTypes ==
    ASSUME TypeOK, [Next]_vars
    PROVE  TypeOK'
<1>1. ASSUME NEW manifest \in Layouts \cup { "missing", "invalid" },
             CuratorEdits(manifest)
      PROVE  TypeOK'
    BY <1>1 DEF TypeOK, Tree, Valid, CuratorEdits
<1>2. CASE RoundIsLost \/ Restart
    BY <1>2, LeftoversAreTrees DEF TypeOK, RoundIsLost, Restart
<1>3. CASE UNCHANGED vars
    BY <1>3 DEF TypeOK, vars
<1> QED
    BY <1>1, <1>2, <1>3, RoundTypes, InterviewTypes, TargetTypes,
       GenerationTypes, VerificationTypes
    DEF Next, Graduated

\* The session starts well typed.
LEMMA InitTypes ==
    ASSUME Init
    PROVE  TypeOK
<1>1. EmptyDomain \in Domain
    BY DEF EmptyDomain, Domain, Status, Valid
<1>2. tree \in Tree
    BY TargetsAssumption DEF Init
<1> QED
    BY <1>1, <1>2 DEF Init, TypeOK, Modes, Channels, Status

\* Type correctness, under either reading of guards: every field holds what
\* specs.yml's schema lets it hold, and every status is canonical.
THEOREM TypeCorrect == Spec => []TypeOK
<1> QED
    BY InitTypes, StepKeepsTypes, PTL DEF Spec

-----------------------------------------------------------------------------
(* The ladder.  Its theorems read guards on what the reactions settled.    *)

Settled == GuardViews = { "settled" }

\* EarnedInOrder is not inductive alone: the exit of smoke_verify, for one,
\* opens on half of that mode's evidence, so it must be known to be shut.
Inductive ==
    /\ TypeOK
    /\ EarnedInOrder
    /\ NoOpenExit
    /\ mode # "curator_request" /\ ~domain.repo_blocked

LadderStep == L!Stand \/ L!Climb

\* In mode m and governed state d, just the evidence of the rungs below m's is
\* on record, that of its own rung aside.
Earned(m, d) ==
    \A r \in 0 .. 9 : r # Rank[m] => (Evidence(d, r) <=> r < Rank[m])

\* Ranks run from 0 to 10, and an open exit leads one rung up.
LEMMA RanksOfModes ==
    ASSUME NEW m \in Modes
    PROVE  Rank[m] \in 0 .. 10
BY DEF Modes, Rank

LEMMA ExitsLeadUp ==
    ASSUME NEW m \in Modes \ { "curator_request" }, NEW d, ~d.repo_blocked,
           Eligible(m, d) # m
    PROVE  /\ Rank[Eligible(m, d)] = Rank[m] + 1
           /\ Eligible(m, d) # "curator_request"
<1>1. /\ Rank["intake_intelligence"] = 0 /\ Rank["repo_targeting"] = 1
      /\ Rank["architecture_design"] = 2 /\ Rank["scaffold_plan"] = 3
      /\ Rank["domain_synthesis"] = 4 /\ Rank["branch_write"] = 5
      /\ Rank["static_verify"] = 6 /\ Rank["smoke_verify"] = 7
      /\ Rank["live_verify"] = 8 /\ Rank["rebase_verify"] = 9
      /\ Rank["pr_graduation"] = 10
    BY DEF Rank
<1>2. \/ m = "intake_intelligence" /\ Eligible(m, d) = "repo_targeting"
      \/ m = "repo_targeting" /\ Eligible(m, d) = "architecture_design"
      \/ m = "architecture_design" /\ Eligible(m, d) = "scaffold_plan"
      \/ m = "scaffold_plan" /\ Eligible(m, d) = "domain_synthesis"
      \/ m = "domain_synthesis" /\ Eligible(m, d) = "branch_write"
      \/ m = "branch_write" /\ Eligible(m, d) = "static_verify"
      \/ m = "static_verify" /\ Eligible(m, d) = "smoke_verify"
      \/ m = "smoke_verify" /\ Eligible(m, d) = "live_verify"
      \/ m = "live_verify" /\ Eligible(m, d) = "rebase_verify"
      \/ m = "rebase_verify" /\ Eligible(m, d) = "pr_graduation"
    BY DEF Modes, Eligible
<1> QED
    BY <1>1, <1>2

\* EarnedInOrder says the same of a set of rungs.
LEMMA RungByRung ==
    ASSUME NEW m \in Modes, NEW d
    PROVE  { r \in 0 .. 9 : Evidence(d, r) } \ { Rank[m] } = 0 .. Rank[m] - 1
           <=> Earned(m, d)
<1> DEFINE proven == { r \in 0 .. 9 : Evidence(d, r) }
           k == Rank[m]
<1>1. k \in 0 .. 10
    BY RanksOfModes
<1>2. \A r : r \in proven <=> r \in 0 .. 9 /\ Evidence(d, r)
    OBVIOUS
<1> HIDE DEF proven, k
<1>3. proven \ { k } = 0 .. k - 1 <=> \A r \in 0 .. 9 : r # k => (r \in proven <=> r < k)
  <2>1. proven \subseteq 0 .. 9
    BY <1>2
  <2>2. ASSUME proven \ { k } = 0 .. k - 1, NEW r \in 0 .. 9, r # k
        PROVE  r \in proven <=> r < k
    <3>1. r \in proven <=> r \in 0 .. k - 1
      BY <2>2
    <3> QED
      BY <1>1, <3>1
  <2>3. ASSUME \A r \in 0 .. 9 : r # k => (r \in proven <=> r < k)
        PROVE  proven \ { k } = 0 .. k - 1
    <3>1. \A r : r \in 0 .. k - 1 <=> r \in 0 .. 9 /\ r # k /\ r < k
      BY <1>1
    <3>2. \A r : r \in proven \ { k } <=> r \in 0 .. k - 1
      BY <2>1, <2>3, <3>1
    <3> QED
      BY <3>2
  <2> QED
    BY <2>2, <2>3
<1>4. \A r \in 0 .. 9 : r \in proven <=> Evidence(d, r)
    BY <1>2
<1> QED
    BY <1>3, <1>4 DEF k, proven, Earned

\* What the commit of d by action a must be like to keep the ladder.  It leaves
\* the evidence and the exits of the other modes alone,
Elsewhere(d) ==
    /\ \A r \in 0 .. 9 : r # Rank[mode] => (Evidence(d, r) <=> Evidence(domain, r))
    /\ \A m \in Modes \ { mode, "repo_targeting", "curator_request" } :
           Eligible(m, d) = Eligible(m, domain)
    /\ ~d.repo_blocked

\* and if it opens the exit of its own, then on that mode's evidence, with an
\* approval if one is due, and proposing to take it.
Leaves(a, d) ==
    Eligible(mode, d) # mode =>
        /\ Evidence(d, Rank[mode])
        /\ mode # "repo_targeting" => Proposed(a) = Eligible(mode, d)
        /\ Rank[mode] \in { 0, 3 } => Decided("approve")

\* Such a commit keeps the invariant and stands on its rung or climbs one.
LEMMA SettleClimbs ==
    ASSUME Inductive, TypeOK', Settled,
           NEW a, NEW written, NEW d, Settle(a, written, d),
           Elsewhere(d), Leaves(a, d)
    PROVE  Inductive' /\ LadderStep
<1>1. /\ domain' = d /\ round' = "none"
      /\ mode' = IF Eligible(mode, d) = Proposed(a) THEN Proposed(a) ELSE mode
    BY DEF Settle, Settled, Moved
<1>2. /\ mode \in Modes /\ mode # "curator_request" /\ Earned(mode, domain)
      /\ mode' \in Modes
    BY RungByRung DEF Inductive, TypeOK, EarnedInOrder, L!EarnedInOrder
<1>3. Rank[mode] \in 0 .. 10
    BY <1>2, RanksOfModes
<1>4. ~Decided("approve")'
    BY <1>1 DEF Decided
<1>5. CASE mode' = mode
  <2>1. Earned(mode, d)
    BY <1>2 DEF Elsewhere, Earned
  <2>2. EarnedInOrder'
    BY <1>1, <1>2, <1>5, <2>1, RungByRung DEF EarnedInOrder, L!EarnedInOrder
  <2>3. mode # "repo_targeting" => Eligible(mode, d) = mode
    BY <1>1, <1>5 DEF Leaves
  <2>4. NoOpenExit'
    BY <1>1, <1>5, <2>3 DEF NoOpenExit, Elsewhere, Inductive
  <2>5. L!Stand
    <3>1. Rank[mode]' = Rank[mode]
      BY <1>5
    <3>2. Decided("approve")' \in BOOLEAN
      BY <1>4 DEF Decided
    <3>3. { r \in 0 .. 9 : Evidence(d, r) } \ { Rank[mode] }
              = { r \in 0 .. 9 : Evidence(domain, r) } \ { Rank[mode] }
      BY <1>2, <2>1, RungByRung
    <3> QED
      BY <1>1, <1>5, <3>1, <3>2, <3>3 DEF L!Stand
  <2> QED
    BY <1>1, <1>5, <2>2, <2>4, <2>5 DEF Inductive, LadderStep, Elsewhere
<1>6. CASE mode' # mode
  <2>1. mode' = Eligible(mode, d) /\ Eligible(mode, d) # mode
    BY <1>1, <1>6
  <2>2. /\ Rank[mode'] = Rank[mode] + 1
        /\ mode' # "curator_request"
    BY <1>2, <2>1, ExitsLeadUp DEF Elsewhere
  <2>3. Evidence(d, Rank[mode])
    BY <2>1 DEF Leaves
  <2>4. Earned(mode', d)
    BY <1>2, <1>3, <2>2, <2>3 DEF Elsewhere, Earned
  <2>5. EarnedInOrder'
    BY <1>1, <1>2, <2>4, RungByRung DEF EarnedInOrder, L!EarnedInOrder
  <2>6. NoOpenExit'
    <3>1. ASSUME NEW m \in Modes \ { "repo_targeting", "curator_request" },
                 Rank[m] >= Rank[mode']
          PROVE  Eligible(m, d) = m
      <4>1. Rank[m] \in 0 .. 10
        BY RanksOfModes
      <4>2. m # mode /\ Rank[m] >= Rank[mode]
        BY <1>3, <2>2, <3>1, <4>1
      <4> QED
        BY <4>2 DEF NoOpenExit, Elsewhere, Inductive
    <3> QED
      BY <1>1, <3>1 DEF NoOpenExit
  <2>7. L!Climb
    <3>1. Rank[mode] < 10
      BY <1>2, <1>3, <2>2, RanksOfModes
    <3>2. Rank[mode] \in { 0, 3 } => Decided("approve")
      BY <2>1 DEF Leaves
    <3>3. { r \in 0 .. 9 : Evidence(d, r) }
              = { r \in 0 .. 9 : Evidence(domain, r) } \cup { Rank[mode] }
      BY <1>3, <2>3, <3>1 DEF Elsewhere
    <3> QED
      BY <1>1, <1>4, <2>2, <3>1, <3>2, <3>3 DEF L!Climb, Decided
  <2> QED
    BY <1>1, <2>2, <2>5, <2>6, <2>7 DEF Inductive, LadderStep, Elsewhere
<1> QED
    BY <1>5, <1>6

\* Evidence and exits are made of these fields; d differs from the governed
\* state in those of rung k at most, or, for k = 10, in none.
SameBut(k, d) ==
    /\ k # 0 => d.design_confirmed = domain.design_confirmed
    /\ k # 1 => d.repo_authorized = domain.repo_authorized
    /\ d.repo_blocked = domain.repo_blocked
    /\ k # 2 => d.synthesis_complete = domain.synthesis_complete
    /\ k # 3 => (d.plan_status = "approved" <=> domain.plan_status = "approved")
    /\ k # 4 => d.domain_complete = domain.domain_complete
    /\ k # 5 => d.written = domain.written
    /\ k # 6 => d.static = domain.static
    /\ k # 7 => d.smoke = domain.smoke /\ d.live_intent = domain.live_intent
    /\ k # 8 => d.drive = domain.drive /\ d.live = domain.live
    /\ k # 9 => d.rebase = domain.rebase /\ d.rebase_static = domain.rebase_static

SameLadder(d) == SameBut(10, d)

LEMMA SameLadderSameExits ==
    ASSUME NEW d, SameLadder(d)
    PROVE  /\ \A r \in 0 .. 9 : Evidence(d, r) <=> Evidence(domain, r)
           /\ \A m \in Modes \ { "curator_request" } : Eligible(m, d) = Eligible(m, domain)
<1>1. ASSUME NEW r \in 0 .. 9
      PROVE  Evidence(d, r) <=> Evidence(domain, r)
    BY DEF SameLadder, SameBut, Evidence
<1>2. ASSUME NEW m \in Modes \ { "curator_request" }
      PROVE  Eligible(m, d) = Eligible(m, domain)
    BY DEF SameLadder, SameBut, Eligible, Modes
<1> QED
    BY <1>1, <1>2

\* In a mode other than repository targeting the exit is shut.
LEMMA ShutExit ==
    ASSUME Inductive, mode # "repo_targeting"
    PROVE  Eligible(mode, domain) = mode
<1>1. Rank[mode] \in 0 .. 10
    BY RanksOfModes DEF Inductive, TypeOK
<1> QED
    BY <1>1 DEF NoOpenExit, Inductive, TypeOK

\* A commit of other fields only may leave repository targeting, and no other
\* mode.
LEMMA InertCommit ==
    ASSUME Inductive, NEW a, NEW d, SameLadder(d)
    PROVE  Elsewhere(d) /\ Leaves(a, d)
<1>1. Elsewhere(d)
    BY SameLadderSameExits DEF Inductive, Elsewhere, SameLadder, SameBut
<1>2. Eligible(mode, d) = Eligible(mode, domain)
    BY SameLadderSameExits DEF Inductive, TypeOK
<1>3. CASE mode = "repo_targeting"
  <2>1. Rank[mode] = 1
    BY <1>3 DEF Rank
  <2>2. Eligible(mode, domain) # mode => domain.repo_authorized
    BY <1>3 DEF Eligible, Inductive
  <2>3. d.repo_authorized => Evidence(d, 1)
    BY DEF Evidence
  <2>4. Eligible(mode, d) # mode => Evidence(d, Rank[mode])
    BY <1>2, <2>1, <2>2, <2>3 DEF SameLadder, SameBut
  <2> QED
    BY <1>1, <1>3, <2>1, <2>4 DEF Leaves
<1>4. CASE mode # "repo_targeting"
  <2>1. Eligible(mode, d) = mode
    BY <1>2, <1>4, ShutExit
  <2> QED
    BY <1>1, <2>1 DEF Leaves
<1> QED
    BY <1>3, <1>4

\* A step that moves nowhere and leaves those fields alone stands on its rung.
LEMMA StandingStill ==
    ASSUME Inductive, TypeOK', mode' = mode, SameLadder(domain')
    PROVE  Inductive' /\ LadderStep
<1>1. /\ \A r \in 0 .. 9 : Evidence(domain', r) <=> Evidence(domain, r)
      /\ \A m \in Modes \ { "curator_request" } :
             Eligible(m, domain') = Eligible(m, domain)
    BY SameLadderSameExits
<1>2. { r \in 0 .. 9 : Evidence(domain', r) } = { r \in 0 .. 9 : Evidence(domain, r) }
    BY <1>1
<1>3. Rank[mode]' = Rank[mode]
    OBVIOUS
<1>4. EarnedInOrder' /\ NoOpenExit'
    BY <1>1, <1>2, <1>3 DEF Inductive, EarnedInOrder, L!EarnedInOrder, NoOpenExit
<1>5. Decided("approve")' \in BOOLEAN
    BY DEF Decided
<1> QED
    BY <1>2, <1>3, <1>4, <1>5 DEF Inductive, LadderStep, L!Stand, SameLadder, SameBut

\* Where an action that bears on the ladder can be chosen.
LEMMA ModesOfActions ==
    ASSUME TypeOK
    PROVE  /\ Chooses("confirm_design") => mode = "intake_intelligence"
           /\ \A n \in Questions : Chooses(RejectName(n)) => mode = "intake_intelligence"
           /\ Chooses("select_repo_target") => mode = "repo_targeting"
           /\ Chooses("authorize_standalone_target") => mode = "repo_targeting"
           /\ Chooses("load_wiring_manifest") => mode = "repo_targeting"
           /\ Chooses("authorize_existing_repo_target") => mode = "repo_targeting"
           /\ Chooses("synthesize_program_spec") => mode = "architecture_design"
           /\ Chooses("plan_artifacts") => mode = "scaffold_plan"
           /\ Chooses("revise_artifact_plan") => mode = "scaffold_plan"
           /\ Chooses("approve_artifact_plan") => mode = "scaffold_plan"
           /\ Chooses("synthesize_domain_logic") => mode = "domain_synthesis"
           /\ Chooses("write_scaffold_artifacts") => mode = "branch_write"
           /\ Chooses("run_static_verification") => mode = "static_verify"
           /\ Chooses("run_smoke_verification") => mode = "smoke_verify"
           /\ Chooses("confirm_live_provider_intent") => mode = "smoke_verify"
           /\ Chooses("run_generated_live_drive_verification") => mode = "live_verify"
           /\ Chooses("run_live_provider_verification") => mode = "live_verify"
           /\ Chooses("git_rebase_latest") => mode = "rebase_verify"
           /\ Chooses("run_rebase_static_verification") => mode = "rebase_verify"
BY DEF TypeOK, Modes, Chooses, Vocabulary, SessionControls, RejectName,
       AnswerName, Questions

\* Fields of its own rung are a mode's own business.
LEMMA OwnFields ==
    ASSUME Inductive, NEW d, SameBut(Rank[mode], d)
    PROVE  Elsewhere(d)
<1>1. ~d.repo_blocked
    BY DEF SameBut, Inductive
<1>2. ASSUME NEW r \in 0 .. 9, r # Rank[mode]
      PROVE  Evidence(d, r) <=> Evidence(domain, r)
    BY <1>2 DEF SameBut, Evidence
<1>3. ASSUME NEW m \in Modes \ { mode, "repo_targeting", "curator_request" }
      PROVE  Eligible(m, d) = Eligible(m, domain)
  <2>1. Rank[m] # Rank[mode]
    BY <1>3 DEF Inductive, TypeOK, Modes, Rank
  <2> QED
    BY <1>3, <2>1 DEF SameBut, Eligible, Modes, Rank
<1> QED
    BY <1>1, <1>2, <1>3 DEF Elsewhere

LEMMA InertSettle ==
    ASSUME Inductive, TypeOK', Settled,
           NEW a, NEW written, NEW d, Settle(a, written, d), SameLadder(d)
    PROVE  Inductive' /\ LadderStep
BY InertCommit, SettleClimbs

\* The mode of each rung, and what opens its exit.
ModeAt(k) ==
    CASE k = 0 -> "intake_intelligence"
      [] k = 1 -> "repo_targeting"
      [] k = 2 -> "architecture_design"
      [] k = 3 -> "scaffold_plan"
      [] k = 4 -> "domain_synthesis"
      [] k = 5 -> "branch_write"
      [] k = 6 -> "static_verify"
      [] k = 7 -> "smoke_verify"
      [] k = 8 -> "live_verify"
      [] k = 9 -> "rebase_verify"
      [] k = 10 -> "pr_graduation"

Exit(k, d) ==
    CASE k = 0 -> d.design_confirmed
      [] k = 1 -> d.repo_authorized
      [] k = 2 -> d.synthesis_complete
      [] k = 3 -> d.plan_status = "approved"
      [] k = 4 -> d.domain_complete
      [] k = 5 -> d.written
      [] k = 6 -> d.static = "passed"
      [] k = 7 -> d.live_intent
      [] k = 8 -> d.live = "passed"
      [] k = 9 -> d.rebase_static = "passed"

LEMMA ExitOfMode ==
    ASSUME NEW k \in 0 .. 9, NEW d, ~d.repo_blocked,
           Eligible(ModeAt(k), d) # ModeAt(k)
    PROVE  Exit(k, d) /\ Eligible(ModeAt(k), d) = ModeAt(k + 1)
<1>0. CASE k = 0
    BY <1>0 DEF Exit, ModeAt, Eligible
<1>1. CASE k = 1
    BY <1>1 DEF Exit, ModeAt, Eligible
<1>2. CASE k = 2
    BY <1>2 DEF Exit, ModeAt, Eligible
<1>3. CASE k = 3
    BY <1>3 DEF Exit, ModeAt, Eligible
<1>4. CASE k = 4
    BY <1>4 DEF Exit, ModeAt, Eligible
<1>5. CASE k = 5
    BY <1>5 DEF Exit, ModeAt, Eligible
<1>6. CASE k = 6
    BY <1>6 DEF Exit, ModeAt, Eligible
<1>7. CASE k = 7
    BY <1>7 DEF Exit, ModeAt, Eligible
<1>8. CASE k = 8
    BY <1>8 DEF Exit, ModeAt, Eligible
<1>9. CASE k = 9
    BY <1>9 DEF Exit, ModeAt, Eligible
<1> QED
    BY <1>0, <1>1, <1>2, <1>3, <1>4, <1>5, <1>6, <1>7, <1>8, <1>9

\* An open exit leads on, whatever stands open beside it.
LEMMA OpenExit ==
    ASSUME NEW k \in 0 .. 9, NEW d, ~d.repo_blocked, Exit(k, d)
    PROVE  Eligible(ModeAt(k), d) = ModeAt(k + 1) /\ ModeAt(k + 1) # ModeAt(k)
<1>1. /\ ModeAt(0) = "intake_intelligence" /\ ModeAt(1) = "repo_targeting"
      /\ ModeAt(2) = "architecture_design" /\ ModeAt(3) = "scaffold_plan"
      /\ ModeAt(4) = "domain_synthesis" /\ ModeAt(5) = "branch_write"
      /\ ModeAt(6) = "static_verify" /\ ModeAt(7) = "smoke_verify"
      /\ ModeAt(8) = "live_verify" /\ ModeAt(9) = "rebase_verify"
      /\ ModeAt(10) = "pr_graduation"
    BY DEF ModeAt
<1>2. /\ d.design_confirmed => Eligible("intake_intelligence", d) = "repo_targeting"
      /\ d.repo_authorized => Eligible("repo_targeting", d) = "architecture_design"
      /\ d.synthesis_complete => Eligible("architecture_design", d) = "scaffold_plan"
      /\ d.plan_status = "approved" => Eligible("scaffold_plan", d) = "domain_synthesis"
      /\ d.domain_complete => Eligible("domain_synthesis", d) = "branch_write"
    BY DEF Eligible
<1>3. /\ d.written => Eligible("branch_write", d) = "static_verify"
      /\ d.static = "passed" => Eligible("static_verify", d) = "smoke_verify"
      /\ d.live_intent => Eligible("smoke_verify", d) = "live_verify"
      /\ d.live = "passed" => Eligible("live_verify", d) = "rebase_verify"
      /\ d.rebase_static = "passed" => Eligible("rebase_verify", d) = "pr_graduation"
    BY DEF Eligible
<1>4. CASE k = 0
    BY <1>1, <1>2, <1>4 DEF Exit
<1>5. CASE k = 1
    BY <1>1, <1>2, <1>5 DEF Exit
<1>6. CASE k = 2
    BY <1>1, <1>2, <1>6 DEF Exit
<1>7. CASE k = 3
    BY <1>1, <1>2, <1>7 DEF Exit
<1>8. CASE k = 4
    BY <1>1, <1>2, <1>8 DEF Exit
<1>9. CASE k = 5
    BY <1>1, <1>3, <1>9 DEF Exit
<1>10. CASE k = 6
    BY <1>1, <1>3, <1>10 DEF Exit
<1>11. CASE k = 7
    BY <1>1, <1>3, <1>11 DEF Exit
<1>12. CASE k = 8
    BY <1>1, <1>3, <1>12 DEF Exit
<1>13. CASE k = 9
    BY <1>1, <1>3, <1>13 DEF Exit
<1> QED
    BY <1>4, <1>5, <1>6, <1>7, <1>8, <1>9, <1>10, <1>11, <1>12, <1>13

LEMMA RankOfMode ==
    ASSUME NEW k \in 0 .. 9
    PROVE  Rank[ModeAt(k)] = k /\ (ModeAt(k) # "repo_targeting" => k # 1)
BY DEF ModeAt, Rank

\* A commit of the session's own rung k may climb if it opens the exit on the
\* evidence of that rung and with an approval where one is due.
LEMMA OwnSettle ==
    ASSUME Inductive, TypeOK', Settled,
           NEW a, NEW written, NEW d, Settle(a, written, d),
           NEW k \in 0 .. 9, mode = ModeAt(k), SameBut(k, d),
           Exit(k, d) => /\ Evidence(d, k)
                         /\ k # 1 => Proposed(a) = ModeAt(k + 1)
                         /\ k \in { 0, 3 } => Decided("approve")
    PROVE  Inductive' /\ LadderStep
<1>1. Rank[mode] = k /\ ~d.repo_blocked /\ (mode # "repo_targeting" => k # 1)
    BY RankOfMode DEF SameBut, Inductive
<1>2. Elsewhere(d)
    BY <1>1, OwnFields
<1>3. Leaves(a, d)
    BY <1>1, ExitOfMode DEF Leaves
<1> QED
    BY <1>2, <1>3, SettleClimbs

-----------------------------------------------------------------------------
(* What a step may do to the ladder, under either reading of guards: the    *)
(* session stays where it is, or it commits other fields, or it commits     *)
(* those of its own rung.                                                   *)

\* The modes whose exit opens in one commit for both readings, and which a
\* session therefore leaves in that very round.
Prompt == { 0, 2, 3, 4, 5, 7 }

Stands == mode' = mode /\ SameLadder(domain')

Inert(a, w, d) == Settle(a, w, d) /\ SameLadder(w) /\ SameLadder(d)

\* If the commit of rung k leaves its exit open, it was open before, or the
\* commit brings that rung's evidence, with an approval where one is due, and
\* proposes to take it.
Work(k, a, w, d) ==
    /\ mode = ModeAt(k)
    /\ Settle(a, w, d)
    /\ SameBut(k, w) /\ SameBut(k, d)
    /\ Exit(k, w) => Exit(k, d)
    /\ Exit(k, d) =>
          \/ Exit(k, domain)
          \/ /\ Evidence(d, k)
             /\ k # 1 => Proposed(a) = ModeAt(k + 1)
             /\ k \in { 0, 3 } => Decided("approve")
             /\ k \in Prompt => Exit(k, w)

Moves ==
    \/ Stands
    \/ \E a, w, d : Inert(a, w, d)
    \/ \E k \in 0 .. 9 : \E a, w, d : Work(k, a, w, d)

\* No session is in the aside that only repo_blocked leads to.
NoAside == mode # "curator_request" /\ ~domain.repo_blocked

\* A commit that both readings see alike.
LEMMA PlainWork ==
    ASSUME NEW k \in 0 .. 9, NEW a, NEW d, mode = ModeAt(k), Commit(a, d), SameBut(k, d),
           Exit(k, d) => /\ Evidence(d, k)
                         /\ k # 1 => Proposed(a) = ModeAt(k + 1)
                         /\ k \in { 0, 3 } => Decided("approve")
    PROVE  Moves
<1>1. Work(k, a, d, d)
    BY DEF Work, Commit
<1> QED
    BY <1>1 DEF Moves

LEMMA PlainInert ==
    ASSUME NEW a, NEW d, Commit(a, d), SameLadder(d)
    PROVE  Moves
<1>1. Inert(a, d, d)
    BY DEF Inert, Commit
<1> QED
    BY <1>1 DEF Moves

\* Triggers, failing rounds and observations bear on no rung.
LEMMA RoundMoves ==
    ASSUME TypeOK, NoAside,
           Triggered \/ RoundFails \/ \E a \in Observing : Observe(a)
    PROVE  Moves
<1>1. CASE UserSpeaks \/ Continue \/ Drive
    BY <1>1 DEF UserSpeaks, Continue, Drive, Open, Moves, Stands, SameLadder, SameBut
<1>2. ASSUME NEW decision, UserConfirms(decision)
      PROVE  Moves
  <2>1. SameLadder([ domain EXCEPT !.decision = decision ])
    BY DEF SameLadder, SameBut, TypeOK, Domain
  <2> QED
    BY <1>2, <2>1 DEF UserConfirms, Open, Moves, Stands
<1>3. CASE RoundFails
    BY <1>3 DEF RoundFails, Moves, Stands, SameLadder, SameBut
<1>4. ASSUME NEW a \in Observing, Observe(a)
      PROVE  Moves
  <2>1. SameLadder(domain)
    BY DEF SameLadder, SameBut
  <2> QED
    BY <1>4, <2>1, PlainInert DEF Observe
<1> QED
    BY <1>1, <1>2, <1>3, <1>4 DEF Triggered

\* The interview bears on its rung with the confirmation of the design and
\* with its rejection alone.
LEMMA InterviewMoves ==
    ASSUME TypeOK, NoAside, Interviewed
    PROVE  Moves
<1>1. CASE RecordProgramTarget
  <2>1. SameLadder([ domain EXCEPT !.target_dir_confirmed = TRUE ])
    BY DEF SameLadder, SameBut, TypeOK, Domain
  <2> QED
    BY <1>1, <2>1, PlainInert DEF RecordProgramTarget
<1>2. ASSUME NEW choice, ChooseDesignPath(choice)
      PROVE  Moves
  <2>1. SameLadder([ domain EXCEPT !.design_path = choice ])
    BY DEF SameLadder, SameBut, TypeOK, Domain
  <2> QED
    BY <1>2, <2>1, PlainInert DEF ChooseDesignPath
<1>3. CASE ApplyDefaultSkeleton
  <2>1. SameLadder([ domain EXCEPT !.recorded = Questions, !.finalized = TRUE,
                                   !.delegation_error = FALSE ])
    BY DEF SameLadder, SameBut, TypeOK, Domain
  <2> QED
    BY <1>3, <2>1, PlainInert DEF ApplyDefaultSkeleton
<1>4. ASSUME NEW n \in Questions, NEW refused, RecordAnswer(n, refused)
      PROVE  Moves
  <2> DEFINE answered == [ domain EXCEPT !.recorded = @ \cup { n } ]
             settled == IF n # 5 THEN answered
                        ELSE [ domain EXCEPT
                                 !.recorded = IF refused THEN @ ELSE @ \cup { n },
                                 !.delegation_error = refused ]
  <2>1. SameLadder(answered) /\ SameLadder(settled)
    BY DEF SameLadder, SameBut, TypeOK, Domain
  <2>2. Settle(AnswerName(n), answered, settled)
    BY <1>4 DEF RecordAnswer
  <2> HIDE DEF answered, settled
  <2>3. Inert(AnswerName(n), answered, settled)
    BY <2>1, <2>2 DEF Inert
  <2> QED
    BY <2>3 DEF Moves
<1>5. CASE RecordDocuments
  <2>1. SameLadder([ domain EXCEPT !.documents_recorded = TRUE ])
    BY DEF SameLadder, SameBut, TypeOK, Domain
  <2> QED
    BY <1>5, <2>1, PlainInert DEF RecordDocuments
<1>6. CASE RecordSkills
  <2>1. SameLadder([ domain EXCEPT !.skills_recorded = TRUE ])
    BY DEF SameLadder, SameBut, TypeOK, Domain
  <2> QED
    BY <1>6, <2>1, PlainInert DEF RecordSkills
<1>7. CASE FinalizeIntake
  <2>1. SameLadder([ domain EXCEPT !.finalized = TRUE ])
    BY DEF SameLadder, SameBut, TypeOK, Domain
  <2> QED
    BY <1>7, <2>1, PlainInert DEF FinalizeIntake
<1>8. CASE ConfirmDesign
  <2> DEFINE d == [ domain EXCEPT !.design_confirmed = TRUE ]
  <2>1. /\ mode = "intake_intelligence" /\ Decided("approve")
        /\ Commit("confirm_design", d)
    BY <1>8, ModesOfActions DEF ConfirmDesign
  <2>2. SameBut(0, d) /\ d.design_confirmed
    BY DEF SameBut, TypeOK, Domain
  <2>3. Evidence(d, 0)
    BY <2>2 DEF Evidence
  <2>4. Proposed("confirm_design") = ModeAt(1)
    BY DEF Proposed, ProceedsTo, ModeAt
  <2> HIDE DEF d
  <2> QED
    BY <2>1, <2>2, <2>3, <2>4, PlainWork DEF ModeAt
<1>9. ASSUME NEW n \in Questions, RejectDesign(n)
      PROVE  Moves
  <2> DEFINE d == [ domain EXCEPT !.recorded = @ \ Reopens(n), !.finalized = (n = 3),
                                  !.design_confirmed = FALSE ]
  <2>1. mode = "intake_intelligence" /\ Commit(RejectName(n), d)
    BY <1>9, ModesOfActions DEF RejectDesign
  <2>2. SameBut(0, d) /\ ~d.design_confirmed
    BY DEF SameBut, TypeOK, Domain
  <2>3. ~Exit(0, d)
    BY <2>2 DEF Exit
  <2> HIDE DEF d
  <2> QED
    BY <2>1, <2>2, <2>3, PlainWork DEF ModeAt
<1> QED
    BY <1>1, <1>2, <1>3, <1>4, <1>5, <1>6, <1>7, <1>8, <1>9 DEF Interviewed

\* Repository targeting opens its exit with an authorization, and may take it
\* in any later round.
LEMMA TargetMoves ==
    ASSUME TypeOK, NoAside, Targeted
    PROVE  Moves
<1>1. ASSUME NEW kind, SelectRepoTarget(kind)
      PROVE  Moves
  <2> DEFINE d == [ domain EXCEPT !.target_kind = kind, !.repo_authorized = FALSE,
                                  !.repo_blocked = FALSE ]
  <2>1. mode = "repo_targeting" /\ Commit("select_repo_target", d)
    BY <1>1, ModesOfActions DEF SelectRepoTarget
  <2>2. SameBut(1, d) /\ ~d.repo_authorized
    BY DEF SameBut, TypeOK, Domain, NoAside
  <2>3. ~Exit(1, d)
    BY <2>2 DEF Exit
  <2> HIDE DEF d
  <2> QED
    BY <2>1, <2>2, <2>3, PlainWork DEF ModeAt
<1>2. CASE AuthorizeStandalone
  <2> DEFINE d == [ domain EXCEPT !.target_kind = "standalone_repo",
                                  !.repo_authorized = TRUE, !.repo_blocked = FALSE,
                                  !.manifest_status = "not_required" ]
  <2>1. mode = "repo_targeting" /\ Commit("authorize_standalone_target", d)
    BY <1>2, ModesOfActions DEF AuthorizeStandalone
  <2>2. SameBut(1, d) /\ d.repo_authorized
    BY DEF SameBut, TypeOK, Domain, NoAside
  <2>3. Exit(1, d) => Evidence(d, 1)
    BY <2>2 DEF Exit, Evidence
  <2> HIDE DEF d
  <2> QED
    BY <2>1, <2>2, <2>3, PlainWork DEF ModeAt
<1>3. CASE LoadWiringManifest
  <2> DEFINE d == [ domain EXCEPT !.target_kind = "existing_repo",
                                  !.manifest_status = "valid",
                                  !.repo_blocked = FALSE, !.repo_authorized = TRUE ]
  <2>1. mode = "repo_targeting" /\ Commit("load_wiring_manifest", d)
    BY <1>3, ModesOfActions DEF LoadWiringManifest
  <2>2. SameBut(1, d) /\ d.repo_authorized
    BY DEF SameBut, TypeOK, Domain, NoAside
  <2>3. Exit(1, d) => Evidence(d, 1)
    BY <2>2 DEF Exit, Evidence
  <2> HIDE DEF d
  <2> QED
    BY <2>1, <2>2, <2>3, PlainWork DEF ModeAt
<1>4. CASE LoadMissingManifest
    BY <1>4 DEF LoadMissingManifest, Moves, Stands, SameLadder, SameBut
<1>5. CASE AuthorizeExisting
  <2> DEFINE d == [ domain EXCEPT !.repo_authorized = TRUE ]
  <2>1. mode = "repo_targeting" /\ Commit("authorize_existing_repo_target", d)
    BY <1>5, ModesOfActions DEF AuthorizeExisting
  <2>2. SameBut(1, d) /\ d.repo_authorized
    BY DEF SameBut, TypeOK, Domain
  <2>3. Exit(1, d) => Evidence(d, 1)
    BY <2>2 DEF Exit, Evidence
  <2> HIDE DEF d
  <2> QED
    BY <2>1, <2>2, <2>3, PlainWork DEF ModeAt
<1>6. CASE CreateCuratorRequest
  <2>1. SameLadder([ domain EXCEPT !.request_lodged = TRUE ])
    BY DEF SameLadder, SameBut, TypeOK, Domain
  <2> QED
    BY <1>6, <2>1, PlainInert DEF CreateCuratorRequest
<1> QED
    BY <1>1, <1>2, <1>3, <1>4, <1>5, <1>6 DEF Targeted

\* A plan is drafted without opening an exit; the rest of the way to the written
\* program is one rung per mode.
LEMMA GenerationMoves ==
    ASSUME TypeOK, NoAside, Generated
    PROVE  Moves
<1>1. CASE SynthesizeProgramSpec
  <2> DEFINE d == [ domain EXCEPT !.synthesis_complete = TRUE ]
  <2>1. mode = "architecture_design" /\ Commit("synthesize_program_spec", d)
    BY <1>1, ModesOfActions DEF SynthesizeProgramSpec
  <2>2. SameBut(2, d) /\ d.synthesis_complete
    BY DEF SameBut, TypeOK, Domain
  <2>3. Exit(2, d) => Evidence(d, 2)
    BY <2>2 DEF Exit, Evidence
  <2>4. Proposed("synthesize_program_spec") = ModeAt(3)
    BY DEF Proposed, ProceedsTo, ModeAt
  <2> HIDE DEF d
  <2> QED
    BY <2>1, <2>2, <2>3, <2>4, PlainWork DEF ModeAt
<1>2. ASSUME NEW a, NEW requested, Plan(a, requested), domain.plan_status # "approved"
      PROVE  Moves
  <2> DEFINE d == [ domain EXCEPT
                      !.plan_status = "draft",
                      !.plan = IF Attaching THEN tree.manifest ELSE "standalone",
                      !.plan_has_requested = requested ]
  <2>1. Commit(a, d)
    BY <1>2 DEF Plan
  <2>2. SameLadder(d)
    BY <1>2 DEF SameLadder, SameBut, TypeOK, Domain
  <2> HIDE DEF d
  <2> QED
    BY <2>1, <2>2, PlainInert
<1>3. ASSUME NEW requested, PlanArtifacts(requested) \/ ReviseArtifactPlan(requested)
      PROVE  Moves
    BY <1>2, <1>3 DEF PlanArtifacts, ReviseArtifactPlan
<1>4. CASE ApproveArtifactPlan
  <2> DEFINE d == [ domain EXCEPT !.plan_status = "approved" ]
  <2>1. /\ mode = "scaffold_plan" /\ Decided("approve")
        /\ Commit("approve_artifact_plan", d)
    BY <1>4, ModesOfActions DEF ApproveArtifactPlan
  <2>2. SameBut(3, d) /\ d.plan_status = "approved"
    BY DEF SameBut, TypeOK, Domain
  <2>3. Exit(3, d) => Evidence(d, 3)
    BY <2>2 DEF Exit, Evidence
  <2>4. Proposed("approve_artifact_plan") = ModeAt(4)
    BY DEF Proposed, ProceedsTo, ModeAt
  <2> HIDE DEF d
  <2> QED
    BY <2>1, <2>2, <2>3, <2>4, PlainWork DEF ModeAt
<1>5. CASE SynthesizeDomainLogic
  <2> DEFINE d == [ domain EXCEPT !.domain_complete = TRUE ]
  <2>1. mode = "domain_synthesis" /\ Commit("synthesize_domain_logic", d)
    BY <1>5, ModesOfActions DEF SynthesizeDomainLogic
  <2>2. SameBut(4, d) /\ d.domain_complete
    BY DEF SameBut, TypeOK, Domain
  <2>3. Exit(4, d) => Evidence(d, 4)
    BY <2>2 DEF Exit, Evidence
  <2>4. Proposed("synthesize_domain_logic") = ModeAt(5)
    BY DEF Proposed, ProceedsTo, ModeAt
  <2> HIDE DEF d
  <2> QED
    BY <2>1, <2>2, <2>3, <2>4, PlainWork DEF ModeAt
<1>6. CASE WriteScaffoldArtifacts
  <2> DEFINE d == [ domain EXCEPT !.written = TRUE ]
  <2>1. mode = "branch_write" /\ Commit("write_scaffold_artifacts", d)
    BY <1>6, ModesOfActions DEF WriteScaffoldArtifacts, CanWrite
  <2>2. SameBut(5, d) /\ d.written
    BY DEF SameBut, TypeOK, Domain
  <2>3. Exit(5, d) => Evidence(d, 5)
    BY <2>2 DEF Exit, Evidence
  <2>4. Proposed("write_scaffold_artifacts") = ModeAt(6)
    BY DEF Proposed, ProceedsTo, ModeAt
  <2> HIDE DEF d
  <2> QED
    BY <2>1, <2>2, <2>3, <2>4, PlainWork DEF ModeAt
<1>7. CASE WriteMissesPlannedPaths
    BY <1>7 DEF WriteMissesPlannedPaths, Moves, Stands, SameLadder, SameBut
<1> QED
    BY <1>1, <1>3, <1>4, <1>5, <1>6, <1>7 DEF Generated

\* Verdicts are read twice: as the author wrote them, and as they were parsed.
\* A word that opens an exit when it is read as written opens it when parsed.
\* A mode of two pieces of evidence has the first on record when the second
\* opens its exit; the first alone does not open it.
LEMMA VerificationMoves ==
    ASSUME TypeOK, NoAside, Verified
    PROVE  Moves
<1>0. Parsed("passed") = "passed"
    BY DEF Parsed
<1>1. ASSUME NEW arg \in StatusArgs, RunStaticVerification(arg)
      PROVE  Moves
  <2> DEFINE d == [ domain EXCEPT !.static = Parsed(arg) ]
             w == [ domain EXCEPT !.static = arg ]
  <2>1. mode = "static_verify" /\ Settle("run_static_verification", w, d)
    BY <1>1, ModesOfActions DEF RunStaticVerification
  <2>2. /\ SameBut(6, d) /\ d.static = Parsed(arg)
        /\ SameBut(6, w) /\ w.static = arg
    BY DEF SameBut, TypeOK, Domain
  <2>3. (Exit(6, w) => Exit(6, d)) /\ (Exit(6, d) => Evidence(d, 6))
    BY <1>0, <2>2 DEF Exit, Evidence
  <2>4. Proposed("run_static_verification") = ModeAt(7)
    BY DEF Proposed, ProceedsTo, ModeAt
  <2> HIDE DEF d, w
  <2>5. Work(6, "run_static_verification", w, d)
    BY <2>1, <2>2, <2>3, <2>4 DEF Work, ModeAt, Prompt
  <2> QED
    BY <2>5 DEF Moves
<1>2. ASSUME NEW arg \in StatusArgs, NEW outcome, RunSmokeVerification(arg, outcome)
      PROVE  Moves
  <2> DEFINE d == [ domain EXCEPT !.smoke = Parsed(arg) ]
             w == [ domain EXCEPT !.smoke = arg ]
  <2>1. mode = "smoke_verify" /\ Settle("run_smoke_verification", w, d)
    BY <1>2, ModesOfActions DEF RunSmokeVerification
  <2>2. /\ SameBut(7, d) /\ d.live_intent = domain.live_intent
        /\ SameBut(7, w) /\ w.live_intent = domain.live_intent
    BY DEF SameBut, TypeOK, Domain
  <2>3. (Exit(7, w) => Exit(7, d)) /\ (Exit(7, d) => Exit(7, domain))
    BY <2>2 DEF Exit
  <2> HIDE DEF d, w
  <2>4. Work(7, "run_smoke_verification", w, d)
    BY <2>1, <2>2, <2>3 DEF Work, ModeAt
  <2> QED
    BY <2>4 DEF Moves
<1>3. CASE ConfirmLiveProviderIntent
  <2> DEFINE d == [ domain EXCEPT !.live_intent = TRUE ]
  <2>1. /\ mode = "smoke_verify" /\ domain.smoke = "passed"
        /\ Commit("confirm_live_provider_intent", d)
    BY <1>3, ModesOfActions DEF ConfirmLiveProviderIntent
  <2>2. SameBut(7, d) /\ d.live_intent /\ d.smoke = domain.smoke
    BY DEF SameBut, TypeOK, Domain
  <2>3. Exit(7, d) => Evidence(d, 7)
    BY <2>1, <2>2 DEF Exit, Evidence
  <2>4. Proposed("confirm_live_provider_intent") = ModeAt(8)
    BY DEF Proposed, ProceedsTo, ModeAt
  <2> HIDE DEF d
  <2> QED
    BY <2>1, <2>2, <2>3, <2>4, PlainWork DEF ModeAt
<1>4. ASSUME NEW arg \in StatusArgs, NEW outcome, RunGeneratedLiveDrive(arg, outcome)
      PROVE  Moves
  <2> DEFINE d == [ domain EXCEPT !.drive = outcome ]
             w == [ domain EXCEPT !.drive = arg ]
  <2>1. mode = "live_verify" /\ Settle("run_generated_live_drive_verification", w, d)
    BY <1>4, ModesOfActions DEF RunGeneratedLiveDrive
  <2>2. /\ SameBut(8, d) /\ d.live = domain.live
        /\ SameBut(8, w) /\ w.live = domain.live
    BY DEF SameBut, TypeOK, Domain
  <2>3. (Exit(8, w) => Exit(8, d)) /\ (Exit(8, d) => Exit(8, domain))
    BY <2>2 DEF Exit
  <2> HIDE DEF d, w
  <2>4. Work(8, "run_generated_live_drive_verification", w, d)
    BY <2>1, <2>2, <2>3 DEF Work, ModeAt
  <2> QED
    BY <2>4 DEF Moves
<1>5. ASSUME NEW arg \in StatusArgs, RunLiveProviderVerification(arg)
      PROVE  Moves
  <2> DEFINE d == [ domain EXCEPT !.live = Parsed(arg) ]
             w == [ domain EXCEPT !.live = arg ]
  <2>1. /\ mode = "live_verify" /\ domain.drive = "passed"
        /\ Settle("run_live_provider_verification", w, d)
    BY <1>5, ModesOfActions DEF RunLiveProviderVerification
  <2>2. /\ SameBut(8, d) /\ d.live = Parsed(arg) /\ d.drive = domain.drive
        /\ SameBut(8, w) /\ w.live = arg
    BY DEF SameBut, TypeOK, Domain
  <2>3. (Exit(8, w) => Exit(8, d)) /\ (Exit(8, d) => Evidence(d, 8))
    BY <1>0, <2>1, <2>2 DEF Exit, Evidence
  <2>4. Proposed("run_live_provider_verification") = ModeAt(9)
    BY DEF Proposed, ProceedsTo, ModeAt
  <2> HIDE DEF d, w
  <2>5. Work(8, "run_live_provider_verification", w, d)
    BY <2>1, <2>2, <2>3, <2>4 DEF Work, ModeAt, Prompt
  <2> QED
    BY <2>5 DEF Moves
<1>6. ASSUME NEW arg \in StatusArgs, GitRebaseLatest(arg)
      PROVE  Moves
  <2> DEFINE d == [ domain EXCEPT !.rebase = ParsedRebase(arg) ]
             w == [ domain EXCEPT !.rebase = arg ]
  <2>1. mode = "rebase_verify" /\ Settle("git_rebase_latest", w, d)
    BY <1>6, ModesOfActions DEF GitRebaseLatest
  <2>2. /\ SameBut(9, d) /\ d.rebase_static = domain.rebase_static
        /\ SameBut(9, w) /\ w.rebase_static = domain.rebase_static
    BY DEF SameBut, TypeOK, Domain
  <2>3. (Exit(9, w) => Exit(9, d)) /\ (Exit(9, d) => Exit(9, domain))
    BY <2>2 DEF Exit
  <2> HIDE DEF d, w
  <2>4. Work(9, "git_rebase_latest", w, d)
    BY <2>1, <2>2, <2>3 DEF Work, ModeAt
  <2> QED
    BY <2>4 DEF Moves
<1>7. ASSUME NEW arg \in StatusArgs, NEW finalized \in BOOLEAN,
             RunRebaseStaticVerification(arg, finalized)
      PROVE  Moves
  <2> DEFINE d == [ domain EXCEPT !.rebase_static = Parsed(arg) ]
             w == [ domain EXCEPT !.rebase_static = arg ]
  <2>1. /\ mode = "rebase_verify" /\ domain.rebase = "passed"
        /\ Settle("run_rebase_static_verification", w, d)
    BY <1>7, ModesOfActions DEF RunRebaseStaticVerification, GivesVerdict
  <2>2. /\ SameBut(9, d) /\ d.rebase_static = Parsed(arg) /\ d.rebase = domain.rebase
        /\ SameBut(9, w) /\ w.rebase_static = arg
    BY DEF SameBut, TypeOK, Domain
  <2>3. (Exit(9, w) => Exit(9, d)) /\ (Exit(9, d) => Evidence(d, 9))
    BY <1>0, <2>1, <2>2 DEF Exit, Evidence
  <2>4. Proposed("run_rebase_static_verification") = ModeAt(10)
    BY DEF Proposed, ProceedsTo, ModeAt
  <2> HIDE DEF d, w
  <2>5. Work(9, "run_rebase_static_verification", w, d)
    BY <2>1, <2>2, <2>3, <2>4 DEF Work, ModeAt, Prompt
  <2> QED
    BY <2>5 DEF Moves
<1> QED
    BY <1>1, <1>2, <1>3, <1>4, <1>5, <1>6, <1>7 DEF Verified

\* Every step of the session is such a step.
LEMMA StepMoves ==
    ASSUME TypeOK, NoAside, [Next]_vars
    PROVE  Moves
<1>1. CASE \/ \E manifest \in Layouts \cup { "missing", "invalid" } : CuratorEdits(manifest)
           \/ RoundIsLost
           \/ Restart
           \/ Graduated
           \/ UNCHANGED vars
    BY <1>1 DEF CuratorEdits, RoundIsLost, Restart, Graduated, vars, Moves, Stands,
                SameLadder, SameBut
<1> QED
    BY <1>1, RoundMoves, InterviewMoves, TargetMoves, GenerationMoves,
       VerificationMoves DEF Next

-----------------------------------------------------------------------------
(* The ladder, when guards read what the reactions settled.                 *)

\* Every step of the session keeps the invariant and is a step of the ladder.
LEMMA StepClimbs ==
    ASSUME Inductive, Settled, [Next]_vars
    PROVE  Inductive' /\ LadderStep
<1>1. TypeOK'
    BY StepKeepsTypes DEF Inductive
<1>2. CASE Stands
    BY <1>1, <1>2, StandingStill DEF Stands
<1>3. ASSUME NEW a, NEW w, NEW d, Inert(a, w, d)
      PROVE  Inductive' /\ LadderStep
    BY <1>1, <1>3, InertSettle DEF Inert
<1>4. ASSUME NEW k \in 0 .. 9, NEW a, NEW w, NEW d, Work(k, a, w, d)
      PROVE  Inductive' /\ LadderStep
  <2>1. mode = ModeAt(k) /\ Settle(a, w, d) /\ SameBut(k, d)
    BY <1>4 DEF Work
  <2>2. CASE k = 1
    <3>1. Exit(k, d) => Evidence(d, k)
      BY <2>2 DEF Exit, Evidence
    <3> QED
      BY <1>1, <2>1, <2>2, <3>1, OwnSettle
  <2>3. CASE k # 1
    <3>1. mode # "repo_targeting"
      BY <2>1, <2>3, RankOfMode DEF Rank
    <3>2. ~Exit(k, domain)
      BY <2>1, <3>1, ShutExit, OpenExit DEF Inductive
    <3> QED
      BY <1>1, <1>4, <2>1, <3>2, OwnSettle DEF Work
  <2> QED
    BY <2>2, <2>3
<1> QED
    BY <1>2, <1>3, <1>4, StepMoves DEF Moves, Inductive, NoAside

LEMMA InitClimbs ==
    ASSUME Init
    PROVE  Inductive /\ L!Start
<1>1. TypeOK
    BY InitTypes
<1>2. mode = "intake_intelligence" /\ domain = EmptyDomain /\ round = "seed"
    BY DEF Init
<1>3. ASSUME NEW r \in 0 .. 9
      PROVE  ~Evidence(domain, r)
  <2>1. /\ domain.design_confirmed = FALSE /\ domain.repo_authorized = FALSE
        /\ domain.synthesis_complete = FALSE /\ domain.plan_status = ""
        /\ domain.domain_complete = FALSE /\ domain.written = FALSE
        /\ domain.static = "" /\ domain.live_intent = FALSE
        /\ domain.live = "" /\ domain.rebase_static = ""
    BY <1>2 DEF EmptyDomain
  <2>2. ~Evidence(domain, 0)
    BY <2>1 DEF Evidence
  <2>3. ~Evidence(domain, 1)
    BY <2>1 DEF Evidence
  <2>4. ~Evidence(domain, 2)
    BY <2>1 DEF Evidence
  <2>5. ~Evidence(domain, 3)
    BY <2>1 DEF Evidence
  <2>6. ~Evidence(domain, 4)
    BY <2>1 DEF Evidence
  <2>7. ~Evidence(domain, 5)
    BY <2>1 DEF Evidence
  <2>8. ~Evidence(domain, 6)
    BY <2>1 DEF Evidence
  <2>9. ~Evidence(domain, 7)
    BY <2>1 DEF Evidence
  <2>10. ~Evidence(domain, 8)
    BY <2>1 DEF Evidence
  <2>11. ~Evidence(domain, 9)
    BY <2>1 DEF Evidence
  <2> QED
    BY <2>2, <2>3, <2>4, <2>5, <2>6, <2>7, <2>8, <2>9, <2>10, <2>11
<1>4. Rank[mode] = 0
    BY <1>2 DEF Rank
<1>5. EarnedInOrder /\ L!Start
    BY <1>2, <1>3, <1>4 DEF EarnedInOrder, L!EarnedInOrder, L!Start, Decided
<1>6. NoOpenExit
    BY <1>2 DEF NoOpenExit, Eligible, EmptyDomain, Modes
<1> QED
    BY <1>1, <1>2, <1>5, <1>6 DEF Inductive, EmptyDomain

\* Whatever the author tries and in whatever order, a mode is only reached with
\* the evidence of all modes below it on record and none of those above, and no
\* exit ahead stands open.
THEOREM EarnedAlways ==
    ASSUME Settled
    PROVE  Spec => [](EarnedInOrder /\ NoOpenExit)
<1>1. Init => Inductive
    BY InitClimbs
<1>2. Inductive /\ [Next]_vars => Inductive'
    BY StepClimbs
<1>3. Inductive => EarnedInOrder /\ NoOpenExit
    BY DEF Inductive
<1> QED
    BY <1>1, <1>2, <1>3, PTL DEF Spec

\* The session implements the ladder: it climbs mode by mode, each on its own
\* evidence, and leaves the two modes that end with the user's approval only in
\* a round that answers one.
THEOREM ImplementsLadder ==
    ASSUME Settled
    PROVE  Spec => Climbs
<1>1. Init => Inductive /\ L!Start
    BY InitClimbs
<1>2. Inductive /\ [Next]_vars => Inductive' /\ LadderStep
    BY StepClimbs
<1>3. LadderStep => [L!Stand \/ L!Climb]_(L!ladder)
    BY DEF LadderStep
<1> QED
    BY <1>1, <1>2, <1>3, PTL DEF Spec, Climbs, L!Ascent

-----------------------------------------------------------------------------
(* Under either reading of guards.  A verdict that the author words its own *)
(* way may leave the exit of a mode open, to be taken in a later round, and *)
(* evidence that no guard reads may be spoilt before that.                  *)

\* What the guards read: each exit behind is open and each ahead is shut, as is
\* the session's own if it is left promptly; and live verification was agreed
\* to after a smoke run that passed.
Guarded ==
    /\ TypeOK
    /\ NoAside
    /\ \A r \in 0 .. 9 : r < Rank[mode] => Exit(r, domain)
    /\ \A r \in 0 .. 9 :
           r > Rank[mode] \/ (r = Rank[mode] /\ r \in Prompt) => ~Exit(r, domain)
    /\ Rank[mode] > 7 => domain.smoke = "passed"

\* A mode without that aside has a rung.
LEMMA RungOfMode ==
    ASSUME TypeOK, NoAside
    PROVE  \E k \in 0 .. 10 : mode = ModeAt(k) /\ Rank[mode] = k
<1>1. \/ mode = "intake_intelligence" \/ mode = "repo_targeting"
      \/ mode = "architecture_design" \/ mode = "scaffold_plan"
      \/ mode = "domain_synthesis" \/ mode = "branch_write"
      \/ mode = "static_verify" \/ mode = "smoke_verify"
      \/ mode = "live_verify" \/ mode = "rebase_verify" \/ mode = "pr_graduation"
    BY DEF TypeOK, Modes, NoAside
<1>2. /\ ModeAt(0) = "intake_intelligence" /\ ModeAt(1) = "repo_targeting"
      /\ ModeAt(2) = "architecture_design" /\ ModeAt(3) = "scaffold_plan"
      /\ ModeAt(4) = "domain_synthesis" /\ ModeAt(5) = "branch_write"
      /\ ModeAt(6) = "static_verify" /\ ModeAt(7) = "smoke_verify"
      /\ ModeAt(8) = "live_verify" /\ ModeAt(9) = "rebase_verify"
      /\ ModeAt(10) = "pr_graduation"
    BY DEF ModeAt
<1>3. \A k \in 0 .. 10 : Rank[ModeAt(k)] = k
  <2>1. Rank[ModeAt(10)] = 10
    BY <1>2 DEF Rank
  <2>2. \A k \in 0 .. 10 : k \in 0 .. 9 \/ k = 10
    OBVIOUS
  <2> QED
    BY <2>1, <2>2, RankOfMode
<1>4. \E k \in 0 .. 10 : mode = ModeAt(k)
    BY <1>1, <1>2
<1> QED
    BY <1>3, <1>4

\* Exits are made of the fields of their own rungs.
LEMMA SameExits ==
    ASSUME NEW k \in 0 .. 10, NEW d, SameBut(k, d)
    PROVE  \A r \in 0 .. 9 : r # k => (Exit(r, d) <=> Exit(r, domain))
BY DEF SameBut, Exit

\* A step that moves nowhere and bears on no rung keeps what the guards read.
LEMMA GuardedStanding ==
    ASSUME Guarded, TypeOK', mode' = mode, SameLadder(domain')
    PROVE  Guarded'
<1>1. \A r \in 0 .. 9 : Exit(r, domain') <=> Exit(r, domain)
    BY SameExits DEF SameLadder
<1>2. NoAside' /\ domain'.smoke = domain.smoke
    BY DEF Guarded, NoAside, SameLadder, SameBut
<1> QED
    BY <1>1, <1>2 DEF Guarded

\* A commit that leaves the exits of the other modes alone keeps it, provided
\* that its own is open as settled if it is as written, and, if the session
\* leaves promptly, was opened for both readings with the proposal to take it.
LEMMA GuardedSettle ==
    ASSUME Guarded, TypeOK',
           NEW a, NEW w, NEW d, Settle(a, w, d),
           NEW k \in 0 .. 9, mode = ModeAt(k), SameBut(k, w), SameBut(k, d),
           Exit(k, w) => Exit(k, d),
           k \in Prompt /\ Exit(k, d) =>
               /\ Exit(k, w) /\ Proposed(a) = ModeAt(k + 1)
               /\ k = 7 => d.smoke = "passed"
    PROVE  Guarded'
<1>1. /\ Rank[mode] = k /\ ~w.repo_blocked /\ ~d.repo_blocked /\ domain' = d
      /\ k # 7 => d.smoke = domain.smoke
    BY RankOfMode DEF Settle, SameBut, Guarded, NoAside
<1>2. \A r \in 0 .. 9 : r # k => (Exit(r, d) <=> Exit(r, domain))
    BY SameExits
<1>3. PICK v \in { w, d } : mode' = Moved(a, v)
    BY GuardViewsAssumption DEF Settle
<1>4. ~v.repo_blocked /\ (Exit(k, v) => Exit(k, d))
    BY <1>1, <1>3
<1>5. CASE Eligible(mode, v) = mode
  <2>1. mode' = mode
    BY <1>3, <1>5 DEF Moved
  <2>2. ~Exit(k, v)
    BY <1>4, <1>5, OpenExit
  <2>3. k \in Prompt => ~Exit(k, d)
    BY <1>3, <2>2
  <2>4. NoAside'
    BY <1>1, <2>1 DEF NoAside, Guarded
  <2> QED
    BY <1>1, <1>2, <2>1, <2>3, <2>4 DEF Guarded
<1>6. CASE Eligible(mode, v) # mode
  <2>1. Exit(k, v) /\ Eligible(mode, v) = ModeAt(k + 1)
    BY <1>4, <1>6, ExitOfMode
  <2>2. Exit(k, d)
    BY <1>4, <2>1
  <2>3. CASE mode' = mode
    <3>1. k \notin Prompt
      BY <1>3, <1>6, <2>1, <2>2, <2>3 DEF Moved
    <3>2. NoAside'
      BY <1>1, <2>3 DEF NoAside, Guarded
    <3>3. \A r \in 0 .. 9 : r > k \/ (r = k /\ r \in Prompt) => ~Exit(r, d)
      BY <1>1, <1>2, <3>1 DEF Guarded
    <3>4. k > 7 => d.smoke = "passed"
      BY <1>1 DEF Guarded
    <3>5. \A r \in 0 .. 9 : r < k => Exit(r, d)
      BY <1>1, <1>2 DEF Guarded
    <3> QED
      BY <1>1, <2>3, <3>2, <3>3, <3>4, <3>5 DEF Guarded
  <2>4. CASE mode' # mode
    <3>1. mode' = ModeAt(k + 1)
      BY <1>3, <2>1, <2>4 DEF Moved
    <3>2. mode' # "curator_request"
      BY <1>4, <1>6, <2>1, <3>1, ExitsLeadUp DEF Guarded, TypeOK, NoAside
    <3>3. Rank[mode'] = k + 1
      BY <1>1, <1>4, <1>6, <2>1, <3>1, ExitsLeadUp DEF Guarded, TypeOK, NoAside
    <3>4. \A r \in 0 .. 9 : r < k + 1 => Exit(r, d)
      BY <1>1, <1>2, <2>2 DEF Guarded
    <3>5. \A r \in 0 .. 9 : r > k => ~Exit(r, d)
      BY <1>1, <1>2 DEF Guarded
    <3>6. k + 1 > 7 => d.smoke = "passed"
      BY <1>1, <2>2 DEF Guarded, Prompt
    <3>7. NoAside'
      BY <1>1, <3>2 DEF NoAside
    <3> QED
      BY <1>1, <3>3, <3>4, <3>5, <3>6, <3>7 DEF Guarded
  <2> QED
    BY <2>3, <2>4
<1> QED
    BY <1>5, <1>6

\* At the last rung a commit of other fields moves nothing.
LEMMA GuardedEnd ==
    ASSUME Guarded, TypeOK', NEW a, NEW w, NEW d, Inert(a, w, d), mode = ModeAt(10)
    PROVE  Guarded'
<1>1. mode = "pr_graduation"
    BY DEF ModeAt
<1>2. mode' = mode /\ domain' = d
    BY <1>1, GuardViewsAssumption DEF Inert, Settle, Moved, Eligible
<1> QED
    BY <1>2, GuardedStanding DEF Inert

\* Every step keeps what the guards read.
LEMMA StepGuarded ==
    ASSUME Guarded, [Next]_vars
    PROVE  Guarded'
<1>1. TypeOK'
    BY StepKeepsTypes DEF Guarded
<1>2. CASE Stands
    BY <1>1, <1>2, GuardedStanding DEF Stands
<1>3. ASSUME NEW a, NEW w, NEW d, Inert(a, w, d)
      PROVE  Guarded'
  <2>1. PICK k \in 0 .. 10 : mode = ModeAt(k) /\ Rank[mode] = k
    BY RungOfMode DEF Guarded
  <2>2. CASE k = 10
    BY <1>1, <1>3, <2>1, <2>2, GuardedEnd
  <2>3. CASE k # 10
    <3>1. k \in 0 .. 9 /\ SameBut(k, w) /\ SameBut(k, d)
      BY <1>3, <2>3 DEF Inert, SameLadder, SameBut
    <3>2. (Exit(k, w) <=> Exit(k, domain)) /\ (Exit(k, d) <=> Exit(k, domain))
      BY <1>3, <3>1, SameExits DEF Inert, SameLadder
    <3>3. k \in Prompt => ~Exit(k, domain)
      BY <2>1, <3>1 DEF Guarded
    <3> QED
      BY <1>1, <1>3, <2>1, <3>1, <3>2, <3>3, GuardedSettle DEF Inert
  <2> QED
    BY <2>2, <2>3
<1>4. ASSUME NEW k \in 0 .. 9, NEW a, NEW w, NEW d, Work(k, a, w, d)
      PROVE  Guarded'
  <2>1. k \in Prompt => ~Exit(k, domain)
    BY <1>4, RankOfMode DEF Work, Guarded
  <2>2. k \in Prompt /\ Exit(k, d) =>
            /\ Exit(k, w) /\ Proposed(a) = ModeAt(k + 1)
            /\ k = 7 => d.smoke = "passed"
    <3>1. 1 \notin Prompt
      BY DEF Prompt
    <3>2. k = 7 /\ Evidence(d, k) => d.smoke = "passed"
      BY DEF Evidence
    <3> QED
      BY <1>4, <2>1, <3>1, <3>2 DEF Work
  <2> QED
    BY <1>1, <1>4, <2>2, GuardedSettle DEF Work
<1> QED
    BY <1>2, <1>3, <1>4, StepMoves DEF Moves, Guarded

LEMMA InitGuarded ==
    ASSUME Init
    PROVE  Guarded
<1>1. mode = "intake_intelligence" /\ domain = EmptyDomain /\ Rank[mode] = 0
    BY DEF Init, Rank
<1>2. /\ domain.design_confirmed = FALSE /\ domain.repo_authorized = FALSE
      /\ domain.synthesis_complete = FALSE /\ domain.plan_status = ""
      /\ domain.domain_complete = FALSE /\ domain.written = FALSE
      /\ domain.static = "" /\ domain.live_intent = FALSE
      /\ domain.live = "" /\ domain.rebase_static = "" /\ domain.repo_blocked = FALSE
    BY <1>1 DEF EmptyDomain
<1>3. \A r \in 0 .. 9 : ~Exit(r, domain)
  <2> SUFFICES ASSUME NEW r \in 0 .. 9
               PROVE  ~Exit(r, domain)
    OBVIOUS
  <2>1. CASE r \in { 0, 1, 2 }
    BY <1>2, <2>1 DEF Exit
  <2>2. CASE r \in { 3, 4, 5 }
    BY <1>2, <2>2 DEF Exit
  <2>3. CASE r \in { 6, 7 }
    BY <1>2, <2>3 DEF Exit
  <2>4. CASE r \in { 8, 9 }
    BY <1>2, <2>4 DEF Exit
  <2> QED
    BY <2>1, <2>2, <2>3, <2>4
<1>4. NoAside
    BY <1>1, <1>2 DEF NoAside
<1> QED
    BY <1>1, <1>3, <1>4, InitTypes DEF Guarded

\* Graduation is earned whichever way guards are read, for every mixture of
\* readings: no session gets to pr_graduation but with passed verdicts on record
\* and with the approved plan written, though the author may
\* word verdicts as it likes and a guard may read them before they are parsed.
THEOREM GraduationAlwaysEarned == Spec => []GraduationIsEarned
<1>1. Init => Guarded
    BY InitGuarded
<1>2. Guarded /\ [Next]_vars => Guarded'
    BY StepGuarded
<1>3. Guarded => GraduationIsEarned
  <2> SUFFICES ASSUME Guarded, mode = "pr_graduation"
               PROVE  /\ domain.static = "passed" /\ domain.smoke = "passed" /\ domain.live_intent
                      /\ domain.live = "passed" /\ domain.rebase_static = "passed"
                      /\ domain.written /\ domain.plan_status = "approved"
    BY DEF GraduationIsEarned
  <2>1. Rank[mode] = 10
    BY DEF Rank
  <2>2. /\ Exit(3, domain) /\ Exit(5, domain) /\ Exit(6, domain)
        /\ Exit(7, domain) /\ Exit(8, domain) /\ Exit(9, domain)
    BY <2>1 DEF Guarded
  <2>3. domain.plan_status = "approved" /\ domain.written /\ domain.static = "passed"
    BY <2>2 DEF Exit
  <2>4. domain.live_intent /\ domain.live = "passed" /\ domain.rebase_static = "passed"
    BY <2>2 DEF Exit
  <2> QED
    BY <2>1, <2>3, <2>4 DEF Guarded
<1> QED
    BY <1>1, <1>2, <1>3, PTL DEF Spec

-----------------------------------------------------------------------------
(* Which part of the session writes which fields.                          *)

KeepsDesign ==
    /\ domain'.recorded = domain.recorded
    /\ domain'.delegation_error = domain.delegation_error
    /\ domain'.finalized = domain.finalized
    /\ domain'.design_confirmed = domain.design_confirmed

KeepsPlan ==
    /\ domain'.plan_status = domain.plan_status
    /\ domain'.plan = domain.plan
    /\ domain'.plan_has_requested = domain.plan_has_requested
    /\ domain'.written = domain.written

KeepsDecision == domain'.decision = domain.decision

KeepsDrive == domain'.drive = domain.drive /\ measured'.drive = measured.drive

LEMMA RoundFrame ==
    ASSUME TypeOK, Triggered \/ RoundFails \/ \E a \in Observing : Observe(a)
    PROVE  /\ KeepsDesign /\ KeepsPlan /\ KeepsDrive /\ UNCHANGED tree
           /\ ~KeepsDecision => /\ round' = "user_confirmation"
                                /\ round' \in Accepts[mode]
                                /\ mode \notin Terminal
<1>1. CASE UserSpeaks \/ Continue \/ Drive
    BY <1>1 DEF UserSpeaks, Continue, Drive, Open, KeepsDesign, KeepsPlan,
                KeepsDecision, KeepsDrive
<1>2. ASSUME NEW decision, UserConfirms(decision)
      PROVE  /\ KeepsDesign /\ KeepsPlan /\ KeepsDrive /\ UNCHANGED tree
             /\ round' = "user_confirmation" /\ round' \in Accepts[mode]
             /\ mode \notin Terminal
    BY <1>2 DEF UserConfirms, Open, KeepsDesign, KeepsPlan, KeepsDrive, TypeOK, Domain
<1>3. CASE RoundFails
    BY <1>3 DEF RoundFails, KeepsDesign, KeepsPlan, KeepsDecision, KeepsDrive
<1>4. ASSUME NEW a \in Observing, Observe(a)
      PROVE  KeepsDesign /\ KeepsPlan /\ KeepsDecision /\ KeepsDrive /\ UNCHANGED tree
    BY <1>4 DEF Observe, Commit, Settle, KeepsDesign, KeepsPlan, KeepsDecision, KeepsDrive
<1> QED
    BY <1>1, <1>2, <1>3, <1>4 DEF Triggered

LEMMA InterviewFrame ==
    ASSUME TypeOK, Interviewed
    PROVE  KeepsPlan /\ KeepsDecision /\ KeepsDrive /\ UNCHANGED tree
<1> USE DEF KeepsPlan, KeepsDecision, KeepsDrive, Commit, Settle, TypeOK, Domain
<1>1. CASE RecordProgramTarget
    BY <1>1 DEF RecordProgramTarget
<1>2. ASSUME NEW choice, ChooseDesignPath(choice)
      PROVE  KeepsPlan /\ KeepsDecision /\ KeepsDrive /\ UNCHANGED tree
    BY <1>2 DEF ChooseDesignPath
<1>3. CASE ApplyDefaultSkeleton
    BY <1>3 DEF ApplyDefaultSkeleton
<1>4. ASSUME NEW n \in Questions, NEW refused, RecordAnswer(n, refused)
      PROVE  KeepsPlan /\ KeepsDecision /\ KeepsDrive /\ UNCHANGED tree
    BY <1>4 DEF RecordAnswer
<1>5. CASE RecordDocuments
    BY <1>5 DEF RecordDocuments
<1>6. CASE RecordSkills
    BY <1>6 DEF RecordSkills
<1>7. CASE FinalizeIntake
    BY <1>7 DEF FinalizeIntake
<1>8. CASE ConfirmDesign
    BY <1>8 DEF ConfirmDesign
<1>9. ASSUME NEW n \in Questions, RejectDesign(n)
      PROVE  KeepsPlan /\ KeepsDecision /\ KeepsDrive /\ UNCHANGED tree
    BY <1>9 DEF RejectDesign
<1> QED
    BY <1>1, <1>2, <1>3, <1>4, <1>5, <1>6, <1>7, <1>8, <1>9 DEF Interviewed

LEMMA TargetFrame ==
    ASSUME TypeOK, Targeted
    PROVE  /\ KeepsDesign /\ KeepsPlan /\ KeepsDecision /\ KeepsDrive
           /\ tree'.scaffold = tree.scaffold /\ tree'.manifest = tree.manifest
           /\ tree'.occupied = tree.occupied
<1> USE DEF KeepsDesign, KeepsPlan, KeepsDecision, KeepsDrive, Commit, Settle,
            TypeOK, Domain, Tree
<1>1. ASSUME NEW kind, SelectRepoTarget(kind)
      PROVE  /\ KeepsDesign /\ KeepsPlan /\ KeepsDecision /\ KeepsDrive
             /\ UNCHANGED tree
    BY <1>1 DEF SelectRepoTarget
<1>2. CASE AuthorizeStandalone
    BY <1>2 DEF AuthorizeStandalone
<1>3. CASE LoadWiringManifest
    BY <1>3 DEF LoadWiringManifest
<1>4. CASE LoadMissingManifest
    BY <1>4 DEF LoadMissingManifest
<1>5. CASE AuthorizeExisting
    BY <1>5 DEF AuthorizeExisting
<1>6. CASE CreateCuratorRequest
    BY <1>6 DEF CreateCuratorRequest, Requested
<1> QED
    BY <1>1, <1>2, <1>3, <1>4, <1>5, <1>6 DEF Targeted

LEMMA GenerationFrame ==
    ASSUME TypeOK, Generated
    PROVE  KeepsDesign /\ KeepsDecision /\ KeepsDrive
<1> USE DEF KeepsDesign, KeepsDecision, KeepsDrive, Commit, Settle, TypeOK, Domain
<1>1. CASE SynthesizeProgramSpec
    BY <1>1 DEF SynthesizeProgramSpec
<1>2. ASSUME NEW a, NEW requested, Plan(a, requested)
      PROVE  KeepsDesign /\ KeepsDecision /\ KeepsDrive
    BY <1>2 DEF Plan
<1>3. ASSUME NEW requested, PlanArtifacts(requested) \/ ReviseArtifactPlan(requested)
      PROVE  KeepsDesign /\ KeepsDecision /\ KeepsDrive
    BY <1>2, <1>3 DEF PlanArtifacts, ReviseArtifactPlan
<1>4. CASE ApproveArtifactPlan
    BY <1>4 DEF ApproveArtifactPlan
<1>5. CASE SynthesizeDomainLogic
    BY <1>5 DEF SynthesizeDomainLogic
<1>6. CASE WriteScaffoldArtifacts
    BY <1>6 DEF WriteScaffoldArtifacts
<1>7. CASE WriteMissesPlannedPaths
    BY <1>7 DEF WriteMissesPlannedPaths
<1> QED
    BY <1>1, <1>3, <1>4, <1>5, <1>6, <1>7 DEF Generated

LEMMA VerificationFrame ==
    ASSUME TypeOK, Verified
    PROVE  /\ KeepsDesign /\ KeepsPlan /\ KeepsDecision
           /\ tree'.scaffold = tree.scaffold /\ tree'.manifest = tree.manifest
           /\ tree'.occupied = tree.occupied
<1> USE DEF KeepsDesign, KeepsPlan, KeepsDecision, Settle, TypeOK, Domain, Tree
<1>1. ASSUME NEW arg, RunStaticVerification(arg)
      PROVE  KeepsDesign /\ KeepsPlan /\ KeepsDecision /\ UNCHANGED tree
    BY <1>1 DEF RunStaticVerification
<1>2. ASSUME NEW arg, NEW outcome, RunSmokeVerification(arg, outcome)
      PROVE  KeepsDesign /\ KeepsPlan /\ KeepsDecision /\ UNCHANGED tree
    BY <1>2 DEF RunSmokeVerification
<1>3. CASE ConfirmLiveProviderIntent
    BY <1>3 DEF ConfirmLiveProviderIntent, Commit
<1>4. ASSUME NEW arg, NEW outcome, RunGeneratedLiveDrive(arg, outcome)
      PROVE  KeepsDesign /\ KeepsPlan /\ KeepsDecision /\ UNCHANGED tree
    BY <1>4 DEF RunGeneratedLiveDrive
<1>5. ASSUME NEW arg, RunLiveProviderVerification(arg)
      PROVE  KeepsDesign /\ KeepsPlan /\ KeepsDecision /\ UNCHANGED tree
    BY <1>5 DEF RunLiveProviderVerification
<1>6. ASSUME NEW arg, GitRebaseLatest(arg)
      PROVE  KeepsDesign /\ KeepsPlan /\ KeepsDecision /\ UNCHANGED tree
    BY <1>6 DEF GitRebaseLatest
<1>7. ASSUME NEW arg, NEW finalized, RunRebaseStaticVerification(arg, finalized)
      PROVE  /\ KeepsDesign /\ KeepsPlan /\ KeepsDecision
             /\ tree'.scaffold = tree.scaffold /\ tree'.manifest = tree.manifest
             /\ tree'.occupied = tree.occupied
    BY <1>7 DEF RunRebaseStaticVerification, Audited
<1> QED
    BY <1>1, <1>2, <1>3, <1>4, <1>5, <1>6, <1>7 DEF Verified

\* Everything that is left: curators, lost rounds, restarts, stuttering.
LEMMA OutsideFrame ==
    ASSUME TypeOK,
           \/ \E manifest \in Layouts \cup { "missing", "invalid" } : CuratorEdits(manifest)
           \/ RoundIsLost \/ Restart \/ Graduated \/ UNCHANGED vars
    PROVE  UNCHANGED << mode, domain, measured >>
BY DEF CuratorEdits, RoundIsLost, Restart, Graduated, vars

-----------------------------------------------------------------------------
(* The interview.                                                          *)

\* A design that is finalized or confirmed has every answer but that to Q3.
Answered ==
    domain.finalized \/ domain.design_confirmed =>
        Questions \ { 3 } \subseteq domain.recorded /\ ~domain.delegation_error

LEMMA StepAnswered ==
    ASSUME TypeOK, Answered, [Next]_vars
    PROVE  Answered'
<1>0. 5 \in Questions \ { 3 }
    BY DEF Questions
<1>1. ASSUME KeepsDesign
      PROVE  Answered'
    BY <1>1 DEF Answered, KeepsDesign
<1>2. CASE Interviewed
  <2> USE DEF Answered, Commit, Settle, TypeOK, Domain
  <2>1. CASE RecordProgramTarget
    BY <2>1 DEF RecordProgramTarget
  <2>2. ASSUME NEW choice, ChooseDesignPath(choice)
        PROVE  Answered'
    BY <2>2 DEF ChooseDesignPath
  <2>3. CASE ApplyDefaultSkeleton
    BY <2>3 DEF ApplyDefaultSkeleton
  <2>4. ASSUME NEW n \in Questions, NEW refused \in BOOLEAN, RecordAnswer(n, refused)
        PROVE  Answered'
    <3>1. /\ domain'.finalized = domain.finalized
          /\ domain'.design_confirmed = domain.design_confirmed
      BY <2>4 DEF RecordAnswer
    <3>2. CASE n = 5
      <4>1. 5 \notin domain.recorded
        BY <2>4, <3>2 DEF RecordAnswer
      <4>2. ~(domain.finalized \/ domain.design_confirmed)
        BY <1>0, <4>1
      <4> QED
        BY <3>1, <4>2
    <3>3. CASE n # 5
      <4>1. domain' = [ domain EXCEPT !.recorded = @ \cup { n } ]
        BY <2>4, <3>3 DEF RecordAnswer
      <4> QED
        BY <4>1
    <3> QED
      BY <3>2, <3>3
  <2>5. CASE RecordDocuments
    BY <2>5 DEF RecordDocuments
  <2>6. CASE RecordSkills
    BY <2>6 DEF RecordSkills
  <2>7. CASE FinalizeIntake
    BY <2>7 DEF FinalizeIntake
  <2>8. CASE ConfirmDesign
    BY <2>8 DEF ConfirmDesign
  <2>9. ASSUME NEW n \in Questions, RejectDesign(n)
        PROVE  Answered'
    <3>1. domain' = [ domain EXCEPT !.recorded = @ \ Reopens(n), !.finalized = (n = 3),
                                    !.design_confirmed = FALSE ]
      BY <2>9 DEF RejectDesign
    <3>2. CASE n = 3
      <4>1. domain.finalized /\ Reopens(n) = { 3 }
        BY <2>9, <3>2 DEF RejectDesign, Reopens
      <4> QED
        BY <3>1, <4>1
    <3>3. CASE n # 3
      BY <3>1, <3>3
    <3> QED
      BY <3>2, <3>3
  <2> QED
    BY ONLY <1>2, <2>1, <2>2, <2>3, <2>4, <2>5, <2>6, <2>7, <2>8, <2>9 DEF Interviewed
<1>3. CASE UNCHANGED domain
    BY <1>3, <1>1 DEF KeepsDesign
<1> QED
    BY <1>1, <1>2, <1>3, RoundFrame, TargetFrame, GenerationFrame, VerificationFrame,
       OutsideFrame DEF Next

\* However the user answers, rejects and answers again, a design is confirmed
\* with all its answers but Q3's, and never on a delegation that was refused.
THEOREM DesignAlwaysAnswered == Spec => []DesignIsAnswered
<1>1. Init => Answered
  <2>1. EmptyDomain.finalized = FALSE /\ EmptyDomain.design_confirmed = FALSE
    BY DEF EmptyDomain
  <2> QED
    BY <2>1 DEF Init, Answered
<1>2. TypeOK /\ Answered /\ [Next]_vars => Answered'
    BY StepAnswered
<1>3. Answered => DesignIsAnswered
    BY DEF Answered, DesignIsAnswered
<1> QED
    BY <1>1, <1>2, <1>3, TypeCorrect, PTL DEF Spec

-----------------------------------------------------------------------------
(* The plan, the files and the drive.                                      *)

\* A mode the user can still decide in has not left the plan's approval behind.
LEMMA UndecidedPlan ==
    ASSUME Guarded, mode \in { "intake_intelligence", "repo_targeting",
                                 "architecture_design", "scaffold_plan" }
    PROVE  domain.plan_status # "approved"
<1>1. Rank[mode] \in 0 .. 3 /\ 3 \in Prompt
    BY DEF Rank, Prompt
<1>2. ~Exit(3, domain)
    BY <1>1 DEF Guarded
<1> QED
    BY <1>2 DEF Exit

LEMMA StepLastWord ==
    ASSUME Guarded, ApprovalIsTheLastWord, [Next]_vars
    PROVE  ApprovalIsTheLastWord'
<1>1. TypeOK
    BY DEF Guarded
<1>2. ASSUME KeepsPlan, KeepsDecision
      PROVE  ApprovalIsTheLastWord'
    BY <1>2 DEF ApprovalIsTheLastWord, KeepsPlan, KeepsDecision
<1>3. CASE Triggered \/ RoundFails \/ \E a \in Observing : Observe(a)
  <2>1. CASE KeepsDecision
    BY <1>1, <1>2, <1>3, <2>1, RoundFrame
  <2>2. CASE ~KeepsDecision
    <3>1. KeepsPlan /\ "user_confirmation" \in Accepts[mode]
      BY <1>1, <1>3, <2>2, RoundFrame
    <3>2. mode \in { "intake_intelligence", "scaffold_plan" }
      BY <1>1, <3>1 DEF Accepts, TypeOK
    <3>3. domain.plan_status # "approved"
      BY <3>2, UndecidedPlan
    <3> QED
      BY <3>1, <3>3 DEF ApprovalIsTheLastWord, KeepsPlan
  <2> QED
    BY <2>1, <2>2
<1>4. CASE Generated
  <2>1. KeepsDecision
    BY <1>1, <1>4, GenerationFrame
  <2>2. ASSUME domain'.plan_status = domain.plan_status
        PROVE  ApprovalIsTheLastWord'
    BY <2>1, <2>2 DEF ApprovalIsTheLastWord, KeepsDecision
  <2>3. ASSUME domain'.plan_status = "draft"
        PROVE  ApprovalIsTheLastWord'
    BY <2>3 DEF ApprovalIsTheLastWord
  <2> USE DEF Commit, Settle, TypeOK, Domain
  <2>4. CASE SynthesizeProgramSpec
    BY <1>1, <2>2, <2>4 DEF SynthesizeProgramSpec
  <2>5. ASSUME NEW requested, PlanArtifacts(requested) \/ ReviseArtifactPlan(requested)
        PROVE  ApprovalIsTheLastWord'
    BY <1>1, <2>3, <2>5 DEF PlanArtifacts, ReviseArtifactPlan, Plan
  <2>6. CASE ApproveArtifactPlan
    BY <1>1, <2>6 DEF ApproveArtifactPlan, Decided, ApprovalIsTheLastWord
  <2>7. CASE SynthesizeDomainLogic
    BY <1>1, <2>2, <2>7 DEF SynthesizeDomainLogic
  <2>8. CASE WriteScaffoldArtifacts
    BY <1>1, <2>2, <2>8 DEF WriteScaffoldArtifacts
  <2>9. CASE WriteMissesPlannedPaths
    BY <1>1, <2>2, <2>9 DEF WriteMissesPlannedPaths
  <2> QED
    BY <1>4, <2>4, <2>5, <2>6, <2>7, <2>8, <2>9 DEF Generated
<1>5. CASE UNCHANGED domain
    BY <1>5 DEF ApprovalIsTheLastWord
<1> QED
    BY <1>1, <1>2, <1>3, <1>4, <1>5, InterviewFrame, TargetFrame, VerificationFrame,
       OutsideFrame DEF Next

\* From the plan's approval on, no decision of the user's is left to take back
\* what the session goes on to do, whichever way guards are read.
THEOREM LastWordAlways == Spec => []ApprovalIsTheLastWord
<1>1. Init => Guarded /\ ApprovalIsTheLastWord
  <2>1. EmptyDomain.plan_status = ""
    BY DEF EmptyDomain
  <2> QED
    BY <2>1, InitGuarded DEF Init, ApprovalIsTheLastWord
<1>2. /\ Guarded /\ ApprovalIsTheLastWord
      /\ [Next]_vars
      => Guarded' /\ ApprovalIsTheLastWord'
    BY StepGuarded, StepLastWord
<1> QED
    BY <1>1, <1>2, PTL DEF Spec

\* The drive on record is the outcome of the last drive that really ran.
DriveIsMeasured == domain.drive = measured.drive

LEMMA StepDriven ==
    ASSUME TypeOK, DriveIsMeasured, [Next]_vars
    PROVE  DriveIsMeasured'
<1>1. ASSUME KeepsDrive
      PROVE  DriveIsMeasured'
    BY <1>1 DEF DriveIsMeasured, KeepsDrive
<1>2. CASE Verified
  <2> USE DEF KeepsDrive, Settle, TypeOK, Domain
  <2>1. ASSUME NEW arg, RunStaticVerification(arg)
        PROVE  KeepsDrive
    BY <2>1 DEF RunStaticVerification
  <2>2. ASSUME NEW arg, NEW outcome, RunSmokeVerification(arg, outcome)
        PROVE  KeepsDrive
    BY <2>2 DEF RunSmokeVerification
  <2>3. CASE ConfirmLiveProviderIntent
    BY <1>1, <2>3 DEF ConfirmLiveProviderIntent, Commit
  <2>4. ASSUME NEW arg, NEW outcome, RunGeneratedLiveDrive(arg, outcome)
        PROVE  DriveIsMeasured'
    <3>1. domain'.drive = outcome /\ measured'.drive = outcome
      BY <2>4 DEF RunGeneratedLiveDrive
    <3> QED
      BY <3>1 DEF DriveIsMeasured
  <2>5. ASSUME NEW arg, RunLiveProviderVerification(arg)
        PROVE  KeepsDrive
    BY <2>5 DEF RunLiveProviderVerification
  <2>6. ASSUME NEW arg, GitRebaseLatest(arg)
        PROVE  KeepsDrive
    BY <2>6 DEF GitRebaseLatest
  <2>7. ASSUME NEW arg, NEW finalized, RunRebaseStaticVerification(arg, finalized)
        PROVE  KeepsDrive
    BY <2>7 DEF RunRebaseStaticVerification
  <2> QED
    BY <1>1, <1>2, <2>1, <2>2, <2>3, <2>4, <2>5, <2>6, <2>7 DEF Verified
<1>3. CASE UNCHANGED << domain, measured >>
    BY <1>3 DEF DriveIsMeasured
<1> QED
    BY <1>1, <1>2, <1>3, RoundFrame, InterviewFrame, TargetFrame, GenerationFrame,
       OutsideFrame DEF Next

\* Whatever the author reports, a session past live verification has driven the
\* generated program end to end, last time successfully.
THEOREM AlwaysDriven ==
    ASSUME Settled
    PROVE  Spec => []GraduatedProgramWasDriven
<1>1. Init => Inductive /\ DriveIsMeasured
  <2> DEFINE nothing == [ smoke |-> "", drive |-> "", audited |-> FALSE ]
  <2>1. EmptyDomain.drive = "" /\ nothing.drive = ""
    BY DEF EmptyDomain
  <2>2. Init => domain = EmptyDomain /\ measured = nothing
    BY DEF Init
  <2> QED
    BY <2>1, <2>2, InitClimbs DEF DriveIsMeasured
<1>2. Inductive /\ DriveIsMeasured /\ [Next]_vars => Inductive' /\ DriveIsMeasured'
    BY StepClimbs, StepDriven DEF Inductive
<1>3. Inductive /\ DriveIsMeasured => GraduatedProgramWasDriven
  <2> SUFFICES ASSUME Inductive, DriveIsMeasured, Rank[mode] > 8
               PROVE  domain.drive = "passed"
    BY DEF DriveIsMeasured, GraduatedProgramWasDriven
  <2>1. mode \in Modes /\ Earned(mode, domain)
    BY RungByRung DEF Inductive, TypeOK, EarnedInOrder, L!EarnedInOrder
  <2>2. Evidence(domain, 8)
    BY <2>1, RanksOfModes DEF Earned
  <2> QED
    BY <2>2 DEF Evidence
<1> QED
    BY <1>1, <1>2, <1>3, PTL DEF Spec

\* A repository that has a project of its own has no scaffold for a standalone
\* one, and no manifest of one to attach by.
Untouched == tree.occupied => tree.manifest # "standalone" /\ tree.scaffold # "standalone"

LEMMA StepUntouched ==
    ASSUME TypeOK, Untouched, [Next]_vars
    PROVE  Untouched'
<1>1. ASSUME tree'.scaffold = tree.scaffold, tree'.manifest = tree.manifest,
             tree'.occupied = tree.occupied
      PROVE  Untouched'
    BY <1>1 DEF Untouched
<1>2. ASSUME CanWrite, tree' = Rendered
      PROVE  Untouched'
  <2>1. /\ tree'.scaffold = WrittenLayout /\ tree'.manifest = WrittenLayout
        /\ tree'.occupied = tree.occupied
    BY <1>2, RenderedIsATree
  <2>2. tree.occupied => WrittenLayout # "standalone"
    BY <1>2 DEF CanWrite, NothingInTheWay, WrittenLayout, Untouched
  <2> QED
    BY <2>1, <2>2 DEF Untouched
<1>3. CASE Generated
  <2>1. ASSUME UNCHANGED tree
        PROVE  Untouched'
    BY <1>1, <2>1
  <2>2. CASE SynthesizeProgramSpec
    BY <2>1, <2>2 DEF SynthesizeProgramSpec
  <2>3. ASSUME NEW requested, PlanArtifacts(requested) \/ ReviseArtifactPlan(requested)
        PROVE  Untouched'
    BY <2>1, <2>3 DEF PlanArtifacts, ReviseArtifactPlan, Plan
  <2>4. CASE ApproveArtifactPlan
    BY <2>1, <2>4 DEF ApproveArtifactPlan
  <2>5. CASE SynthesizeDomainLogic
    BY <2>1, <2>5 DEF SynthesizeDomainLogic
  <2>6. CASE WriteScaffoldArtifacts \/ WriteMissesPlannedPaths
    BY <1>2, <2>6 DEF WriteScaffoldArtifacts, WriteMissesPlannedPaths
  <2> QED
    BY <1>3, <2>2, <2>3, <2>4, <2>5, <2>6 DEF Generated
<1>4. ASSUME NEW manifest \in Layouts \cup { "missing", "invalid" }, CuratorEdits(manifest)
      PROVE  Untouched'
  <2>1. tree' = [ tree EXCEPT !.manifest = manifest ]
    BY <1>4 DEF CuratorEdits
  <2>2. manifest # "standalone"
    BY LayoutsAssumption
  <2> QED
    BY <2>1, <2>2 DEF Untouched, TypeOK, Tree
<1>5. CASE RoundIsLost \/ Restart
  <2>1. tree' = tree \/ tree' \in Leftovers
    BY <1>5 DEF RoundIsLost, Restart
  <2>2. CASE tree' = [ tree EXCEPT !.scaffold = "partial" ]
    BY <2>2 DEF Untouched, TypeOK, Tree
  <2>3. CASE CanWrite /\ tree' = Rendered
    BY <1>2, <2>3
  <2> QED
    BY <1>1, <2>1, <2>2, <2>3, LeftoversAreTrees
<1>6. CASE Graduated \/ UNCHANGED vars
    BY <1>1, <1>6 DEF Graduated, vars
<1> QED
    BY <1>1, <1>3, <1>4, <1>5, <1>6, RoundFrame, InterviewFrame, TargetFrame,
       VerificationFrame DEF Next

\* No session, restarted or not, and no curator make the writer put a standalone
\* project into somebody else's repository.
THEOREM NeverOverwritten == Spec => []NeverOverwrites
<1>1. Init => Untouched
  <2> SUFFICES ASSUME Init
               PROVE  Untouched
    OBVIOUS
  <2>1. tree.scaffold = "none" /\ tree.manifest # "standalone"
    BY TargetsAssumption DEF Init
  <2> QED
    BY <2>1 DEF Untouched
<1>2. TypeOK /\ Untouched /\ [Next]_vars => Untouched'
    BY StepUntouched
<1>3. Untouched => NeverOverwrites
    BY DEF Untouched, NeverOverwrites
<1> QED
    BY <1>1, <1>2, <1>3, TypeCorrect, PTL DEF Spec

\* Nothing is written in any mode up to the writer's own.
LEMMA Unwritten ==
    ASSUME Guarded, mode \in { "intake_intelligence", "repo_targeting",
                                 "architecture_design", "scaffold_plan",
                                 "domain_synthesis", "branch_write" }
    PROVE  ~domain.written
<1>1. Rank[mode] \in 0 .. 5 /\ 5 \in Prompt
    BY DEF Rank, Prompt
<1>2. ~Exit(5, domain)
    BY <1>1 DEF Guarded
<1> QED
    BY <1>2 DEF Exit

LEMMA StepWritten ==
    ASSUME Guarded, WrittenIsWhatWasApproved, [Next]_vars
    PROVE  WrittenIsWhatWasApproved'
<1>1. TypeOK
    BY DEF Guarded
<1>2. ASSUME KeepsPlan, tree'.scaffold = tree.scaffold
      PROVE  WrittenIsWhatWasApproved'
    BY <1>2 DEF WrittenIsWhatWasApproved, KeepsPlan
<1>3. ASSUME ~domain.written, domain'.written = domain.written
      PROVE  WrittenIsWhatWasApproved'
    BY <1>3 DEF WrittenIsWhatWasApproved
<1>4. CASE Generated
  <2> USE DEF Commit, Settle, TypeOK, Domain
  <2>1. CASE SynthesizeProgramSpec
    BY <1>1, <1>2, <2>1 DEF SynthesizeProgramSpec, KeepsPlan
  <2>2. ASSUME NEW requested, PlanArtifacts(requested) \/ ReviseArtifactPlan(requested)
        PROVE  WrittenIsWhatWasApproved'
    <3>1. mode = "scaffold_plan"
      BY <1>1, <2>2, ModesOfActions DEF PlanArtifacts, ReviseArtifactPlan, Plan
    <3>2. domain'.written = domain.written
      BY <1>1, <2>2 DEF PlanArtifacts, ReviseArtifactPlan, Plan
    <3> QED
      BY <1>3, <3>1, <3>2, Unwritten
  <2>3. CASE ApproveArtifactPlan
    <3>1. mode = "scaffold_plan"
      BY <1>1, <2>3, ModesOfActions DEF ApproveArtifactPlan
    <3>2. domain'.written = domain.written
      BY <1>1, <2>3 DEF ApproveArtifactPlan
    <3> QED
      BY <1>3, <3>1, <3>2, Unwritten
  <2>4. CASE SynthesizeDomainLogic
    BY <1>1, <1>2, <2>4 DEF SynthesizeDomainLogic, KeepsPlan
  <2>5. CASE WriteScaffoldArtifacts
    <3>1. /\ tree'.scaffold = WrittenLayout /\ domain'.plan = domain.plan
          /\ domain'.plan_has_requested = domain.plan_has_requested
      BY <1>1, <2>5, RenderedIsATree DEF WriteScaffoldArtifacts
    <3>2. WrittenLayout = domain.plan /\ ~domain.plan_has_requested
      BY <2>5 DEF WriteScaffoldArtifacts, WritesThePlan
    <3> QED
      BY <3>1, <3>2 DEF WrittenIsWhatWasApproved
  <2>6. CASE WriteMissesPlannedPaths
    <3>1. mode = "branch_write" /\ UNCHANGED domain
      BY <1>1, <2>6, ModesOfActions DEF WriteMissesPlannedPaths, CanWrite
    <3> QED
      BY <1>3, <3>1, Unwritten
  <2> QED
    BY <1>4, <2>1, <2>2, <2>3, <2>4, <2>5, <2>6 DEF Generated
<1>5. ASSUME NEW manifest, CuratorEdits(manifest)
      PROVE  WrittenIsWhatWasApproved'
  <2>1. tree'.scaffold = tree.scaffold /\ UNCHANGED domain
    BY <1>1, <1>5 DEF CuratorEdits, TypeOK, Tree
  <2> QED
    BY <1>2, <2>1 DEF KeepsPlan
<1>6. CASE RoundIsLost \/ Restart
  <2>1. UNCHANGED domain /\ (tree' = tree \/ tree' \in Leftovers)
    BY <1>6 DEF RoundIsLost, Restart
  <2>2. CASE CanWrite
    <3>1. mode = "branch_write"
      BY <1>1, <2>2, ModesOfActions DEF CanWrite
    <3> QED
      BY <1>3, <2>1, <3>1, Unwritten
  <2>3. CASE ~CanWrite
    <3>1. tree'.scaffold = tree.scaffold
      BY <1>1, <2>1, <2>3, LeftoversAreTrees
    <3> QED
      BY <1>2, <2>1, <3>1 DEF KeepsPlan
  <2> QED
    BY <2>2, <2>3
<1>7. CASE Graduated \/ UNCHANGED vars
  <2>1. UNCHANGED << domain, tree >>
    BY <1>7 DEF Graduated, vars
  <2> QED
    BY <1>2, <2>1 DEF KeepsPlan
<1> QED
    BY <1>1, <1>2, <1>4, <1>5, <1>6, <1>7, RoundFrame, InterviewFrame, TargetFrame,
       VerificationFrame DEF Next

\* What a session has on record as written is the plan the user approved, under
\* the manifest it was planned with, also when a curator edits that manifest
\* between the plan and the write or a crash cuts a write short, and whichever
\* way guards are read.
THEOREM WrittenAsApproved == Spec => []WrittenIsWhatWasApproved
<1>1. Init => Guarded /\ WrittenIsWhatWasApproved
  <2>1. EmptyDomain.written = FALSE
    BY DEF EmptyDomain
  <2> QED
    BY <2>1, InitGuarded DEF Init, WrittenIsWhatWasApproved
<1>2. /\ Guarded /\ WrittenIsWhatWasApproved
      /\ [Next]_vars
      => Guarded' /\ WrittenIsWhatWasApproved'
    BY StepGuarded, StepWritten
<1> QED
    BY <1>1, <1>2, PTL DEF Spec

-----------------------------------------------------------------------------
(* The graduation audit.                                                   *)

KeepsVerdict ==
    /\ domain'.rebase_static = domain.rebase_static
    /\ measured'.audited = measured.audited

KeepsAudit == tree'.audit = tree.audit

\* The verdict on record and the report that its audit was finalized change in
\* a commit of the post-rebase rung alone.
LEMMA VerdictFrame ==
    ASSUME TypeOK, [Next]_vars
    PROVE  \/ \E arg \in StatusArgs, finalized \in BOOLEAN :
                 RunRebaseStaticVerification(arg, finalized)
           \/ KeepsVerdict
<1> USE DEF KeepsVerdict, Commit, Settle, TypeOK, Domain
<1>1. CASE Triggered
  <2>1. ASSUME NEW decision, UserConfirms(decision)
        PROVE  KeepsVerdict
    BY <2>1 DEF UserConfirms, Open
  <2>2. CASE UserSpeaks \/ Continue \/ Drive
    BY <2>2 DEF UserSpeaks, Continue, Drive, Open
  <2> QED
    BY <1>1, <2>1, <2>2 DEF Triggered
<1>2. CASE RoundFails
    BY <1>2 DEF RoundFails
<1>3. ASSUME NEW a \in Observing, Observe(a)
      PROVE  KeepsVerdict
    BY <1>3 DEF Observe
<1>4. CASE Interviewed
  <2>1. CASE RecordProgramTarget
    BY <2>1 DEF RecordProgramTarget
  <2>2. ASSUME NEW choice, ChooseDesignPath(choice)
        PROVE  KeepsVerdict
    BY <2>2 DEF ChooseDesignPath
  <2>3. CASE ApplyDefaultSkeleton
    BY <2>3 DEF ApplyDefaultSkeleton
  <2>4. ASSUME NEW n \in Questions, NEW refused, RecordAnswer(n, refused)
        PROVE  KeepsVerdict
    BY <2>4 DEF RecordAnswer
  <2>5. CASE RecordDocuments
    BY <2>5 DEF RecordDocuments
  <2>6. CASE RecordSkills
    BY <2>6 DEF RecordSkills
  <2>7. CASE FinalizeIntake
    BY <2>7 DEF FinalizeIntake
  <2>8. CASE ConfirmDesign
    BY <2>8 DEF ConfirmDesign
  <2>9. ASSUME NEW n \in Questions, RejectDesign(n)
        PROVE  KeepsVerdict
    BY <2>9 DEF RejectDesign
  <2> QED
    BY <1>4, <2>1, <2>2, <2>3, <2>4, <2>5, <2>6, <2>7, <2>8, <2>9 DEF Interviewed
<1>5. CASE Targeted
  <2>1. ASSUME NEW kind, SelectRepoTarget(kind)
        PROVE  KeepsVerdict
    BY <2>1 DEF SelectRepoTarget
  <2>2. CASE AuthorizeStandalone
    BY <2>2 DEF AuthorizeStandalone
  <2>3. CASE LoadWiringManifest
    BY <2>3 DEF LoadWiringManifest
  <2>4. CASE LoadMissingManifest
    BY <2>4 DEF LoadMissingManifest
  <2>5. CASE AuthorizeExisting
    BY <2>5 DEF AuthorizeExisting
  <2>6. CASE CreateCuratorRequest
    BY <2>6 DEF CreateCuratorRequest
  <2> QED
    BY <1>5, <2>1, <2>2, <2>3, <2>4, <2>5, <2>6 DEF Targeted
<1>6. CASE Generated
  <2>1. CASE SynthesizeProgramSpec
    BY <2>1 DEF SynthesizeProgramSpec
  <2>2. ASSUME NEW requested, PlanArtifacts(requested) \/ ReviseArtifactPlan(requested)
        PROVE  KeepsVerdict
    BY <2>2 DEF PlanArtifacts, ReviseArtifactPlan, Plan
  <2>3. CASE ApproveArtifactPlan
    BY <2>3 DEF ApproveArtifactPlan
  <2>4. CASE SynthesizeDomainLogic
    BY <2>4 DEF SynthesizeDomainLogic
  <2>5. CASE WriteScaffoldArtifacts
    BY <2>5 DEF WriteScaffoldArtifacts
  <2>6. CASE WriteMissesPlannedPaths
    BY <2>6 DEF WriteMissesPlannedPaths
  <2> QED
    BY <1>6, <2>1, <2>2, <2>3, <2>4, <2>5, <2>6 DEF Generated
<1>7. CASE Verified
  <2>1. ASSUME NEW arg, RunStaticVerification(arg)
        PROVE  KeepsVerdict
    BY <2>1 DEF RunStaticVerification
  <2>2. ASSUME NEW arg, NEW outcome, RunSmokeVerification(arg, outcome)
        PROVE  KeepsVerdict
    BY <2>2 DEF RunSmokeVerification
  <2>3. CASE ConfirmLiveProviderIntent
    BY <2>3 DEF ConfirmLiveProviderIntent
  <2>4. ASSUME NEW arg, NEW outcome, RunGeneratedLiveDrive(arg, outcome)
        PROVE  KeepsVerdict
    BY <2>4 DEF RunGeneratedLiveDrive
  <2>5. ASSUME NEW arg, RunLiveProviderVerification(arg)
        PROVE  KeepsVerdict
    BY <2>5 DEF RunLiveProviderVerification
  <2>6. ASSUME NEW arg, GitRebaseLatest(arg)
        PROVE  KeepsVerdict
    BY <2>6 DEF GitRebaseLatest
  <2> QED
    BY <1>7, <2>1, <2>2, <2>3, <2>4, <2>5, <2>6 DEF Verified
<1>8. CASE \/ \E manifest \in Layouts \cup { "missing", "invalid" } : CuratorEdits(manifest)
           \/ RoundIsLost \/ Restart \/ Graduated \/ UNCHANGED vars
    BY <1>8, OutsideFrame
<1> QED
    BY <1>1, <1>2, <1>3, <1>4, <1>5, <1>6, <1>7, <1>8 DEF Next

\* The audit changes only where a post-rebase verdict can be given, whether or
\* not the round that gives it is lost.
LEMMA AuditFrame ==
    ASSUME TypeOK, [Next]_vars
    PROVE  KeepsAudit \/ mode = "rebase_verify"
<1> USE DEF KeepsAudit
<1>1. CASE Generated
  <2>1. ASSUME CanWrite, tree' = Rendered
        PROVE  KeepsAudit
    BY <2>1, RenderedIsATree
  <2>2. CASE WriteScaffoldArtifacts \/ WriteMissesPlannedPaths
    BY <2>1, <2>2 DEF WriteScaffoldArtifacts, WriteMissesPlannedPaths
  <2>3. ASSUME NEW requested, PlanArtifacts(requested) \/ ReviseArtifactPlan(requested)
        PROVE  KeepsAudit
    BY <2>3 DEF PlanArtifacts, ReviseArtifactPlan, Plan
  <2>4. CASE SynthesizeProgramSpec \/ ApproveArtifactPlan \/ SynthesizeDomainLogic
    BY <2>4 DEF SynthesizeProgramSpec, ApproveArtifactPlan, SynthesizeDomainLogic
  <2> QED
    BY <1>1, <2>2, <2>3, <2>4 DEF Generated
<1>2. CASE Targeted
  <2>1. ASSUME NEW kind, SelectRepoTarget(kind)
        PROVE  KeepsAudit
    BY <2>1 DEF SelectRepoTarget
  <2>2. CASE \/ AuthorizeStandalone \/ LoadWiringManifest \/ AuthorizeExisting
    BY <2>2 DEF AuthorizeStandalone, LoadWiringManifest, AuthorizeExisting
  <2>3. CASE LoadMissingManifest \/ CreateCuratorRequest
    BY <2>3 DEF LoadMissingManifest, CreateCuratorRequest, Requested, TypeOK, Tree
  <2> QED
    BY <1>2, <2>1, <2>2, <2>3 DEF Targeted
<1>3. CASE Verified
  <2>1. ASSUME NEW arg, NEW finalized, RunRebaseStaticVerification(arg, finalized)
        PROVE  mode = "rebase_verify"
    BY <2>1, ModesOfActions DEF RunRebaseStaticVerification, GivesVerdict
  <2>2. ASSUME NEW arg, NEW outcome,
               \/ RunSmokeVerification(arg, outcome) \/ RunGeneratedLiveDrive(arg, outcome)
        PROVE  KeepsAudit
    BY <2>2 DEF RunSmokeVerification, RunGeneratedLiveDrive
  <2>3. ASSUME NEW arg,
               \/ RunStaticVerification(arg) \/ RunLiveProviderVerification(arg)
               \/ GitRebaseLatest(arg) \/ ConfirmLiveProviderIntent
        PROVE  KeepsAudit
    BY <2>3 DEF RunStaticVerification, RunLiveProviderVerification, GitRebaseLatest,
                ConfirmLiveProviderIntent
  <2> QED
    BY <1>3, <2>1, <2>2, <2>3 DEF Verified
<1>4. ASSUME NEW manifest, CuratorEdits(manifest)
      PROVE  KeepsAudit
    BY <1>4 DEF CuratorEdits, TypeOK, Tree
<1>5. CASE RoundIsLost \/ Restart
  <2>1. tree' = tree \/ tree' \in Leftovers
    BY <1>5 DEF RoundIsLost, Restart
  <2> QED
    BY <2>1, LeftoversAreTrees, ModesOfActions DEF GivesVerdict
<1>6. CASE Graduated \/ UNCHANGED vars
    BY <1>6 DEF Graduated, vars
<1> QED
    BY <1>1, <1>2, <1>3, <1>4, <1>5, <1>6, RoundFrame, InterviewFrame DEF Next

\* Before graduation no verdict on record opens the last exit, so the step that
\* graduates is one that records its verdict; after it nothing runs.
LEMMA StepAudited ==
    ASSUME Inductive, Settled, AuditTellsTheTruth, [Next]_vars
    PROVE  AuditTellsTheTruth'
<1> SUFFICES ASSUME mode' = "pr_graduation", measured'.audited
             PROVE  tree'.audit = domain'.rebase_static
    BY DEF AuditTellsTheTruth
<1>1. TypeOK /\ Inductive'
    BY StepClimbs DEF Inductive
<1>2. CASE mode = "pr_graduation"
  <2>1. KeepsAudit
    BY <1>1, <1>2, AuditFrame
  <2>2. KeepsVerdict
    BY <1>1, <1>2, VerdictFrame, ModesOfActions DEF RunRebaseStaticVerification, GivesVerdict
  <2> QED
    BY <1>2, <2>1, <2>2 DEF KeepsAudit, KeepsVerdict, AuditTellsTheTruth
<1>3. CASE mode # "pr_graduation"
  <2>1. domain.rebase_static # "passed"
    <3>1. /\ Rank["rebase_verify"] >= Rank[mode]
          /\ "rebase_verify" \in Modes \ { "repo_targeting", "curator_request" }
      BY <1>1, <1>3 DEF TypeOK, Modes, Rank
    <3>2. Eligible("rebase_verify", domain) = "rebase_verify"
      BY <3>1 DEF Inductive, NoOpenExit
    <3> QED
      BY <3>2 DEF Eligible
  <2>2. domain'.rebase_static = "passed"
    <3>1. Earned(mode', domain')
      BY <1>1, RungByRung DEF Inductive, TypeOK, EarnedInOrder, L!EarnedInOrder
    <3>2. Rank[mode'] = 10
      BY DEF Rank
    <3>3. Evidence(domain', 9)
      BY <3>1, <3>2 DEF Earned
    <3> QED
      BY <3>3 DEF Evidence
  <2>3. PICK arg \in StatusArgs, finalized \in BOOLEAN :
            RunRebaseStaticVerification(arg, finalized)
    BY <1>1, <2>1, <2>2, VerdictFrame DEF KeepsVerdict
  <2>4. finalized
    BY <1>1, <2>3 DEF RunRebaseStaticVerification, TypeOK
  <2>5. tree'.audit = Parsed(arg)
    BY <1>1, <2>3, <2>4, AuditedIsATree, ParsedIsAStatus DEF RunRebaseStaticVerification
  <2>6. domain'.rebase_static = Parsed(arg)
    BY <1>1, <2>3 DEF RunRebaseStaticVerification, Settle, TypeOK, Domain
  <2> QED
    BY <2>5, <2>6
<1> QED
    BY <1>2, <1>3

\* Rounds may be lost between the handler that writes the audit and the commit
\* of its verdict, servers may restart there and audits may fail to be written:
\* a session that graduates with its audit reported finalized leaves one that
\* states the verdict it graduated on.
THEOREM GraduatesWithItsAudit ==
    ASSUME Settled
    PROVE  Spec => []AuditTellsTheTruth
<1>1. Init => Inductive /\ AuditTellsTheTruth
    BY InitClimbs DEF Init, AuditTellsTheTruth
<1>2. /\ Inductive /\ AuditTellsTheTruth /\ [Next]_vars
      => Inductive' /\ AuditTellsTheTruth'
    BY StepClimbs, StepAudited
<1> QED
    BY <1>1, <1>2, PTL DEF Spec

\* Nobody writes a verdict into the audit before live verification is behind.
HasAudit == tree.audit # ""
AuditedLate == HasAudit => Rank[mode] > 8

LEMMA StepAuditedLate ==
    ASSUME Inductive, Settled, AuditedLate, [Next]_vars
    PROVE  AuditedLate'
<1>1. TypeOK /\ Inductive' /\ LadderStep
    BY StepClimbs DEF Inductive
<1>2. /\ Rank[mode] \in 0 .. 10
      /\ Rank[mode'] \in 0 .. 10
    BY <1>1, RanksOfModes DEF Inductive, TypeOK
<1>3. Rank[mode'] = Rank[mode] \/ Rank[mode'] = Rank[mode] + 1
    BY <1>1 DEF LadderStep, L!Stand, L!Climb
<1>4. CASE HasAudit'
  <2>1. Rank[mode] > 8
    <3>1. CASE KeepsAudit
      <4>1. HasAudit
        BY <1>4, <3>1, Zenon DEF KeepsAudit, HasAudit
      <4> QED
        BY <4>1 DEF AuditedLate
    <3>2. CASE mode = "rebase_verify"
      BY <3>2 DEF Rank
    <3> QED
      BY <1>1, <3>1, <3>2, AuditFrame
  <2>2. Rank[mode'] > 8
    BY ONLY <1>2, <1>3, <2>1
  <2> QED
    BY <2>2 DEF AuditedLate
<1>5. CASE ~HasAudit'
    BY <1>5 DEF AuditedLate
<1> QED
    BY <1>4, <1>5

\* Whoever finds an audit with a post-rebase verdict in the target directory,
\* though the session never recorded it, has a program that was driven end to
\* end, last time successfully.
THEOREM AuditsOnlyTheDriven ==
    ASSUME Settled
    PROVE  Spec => []AuditedWasDriven
<1>1. Init => Inductive /\ AuditedLate
  <2>1. Init => ~HasAudit
    BY TargetsAssumption, Zenon DEF Init, HasAudit
  <2> QED
    BY <2>1, InitClimbs DEF AuditedLate
<1>2. Inductive /\ AuditedLate /\ [Next]_vars => Inductive' /\ AuditedLate'
    BY StepClimbs, StepAuditedLate
<1>3. AuditedLate /\ GraduatedProgramWasDriven => AuditedWasDriven
    BY Zenon DEF AuditedLate, HasAudit, GraduatedProgramWasDriven, AuditedWasDriven
<1> QED
    BY <1>1, <1>2, <1>3, AlwaysDriven, PTL DEF Spec
=============================================================================
