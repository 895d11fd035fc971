# Verification of the pgas-new foundry

`pgas-new` builds programs for the PGAS engine.  A user talks to a *foundry
session*: an LLM author interviews the user, a deterministic synthesizer turns
the answers into a program specification, models write and repair the bodies of
its stages, a writer puts the result into a repository, and a ladder of
verification steps (static, smoke, live, post-rebase) leads to graduation.  The
specifications in this directory say what such a session may do and what it must
never do; TLC checks them on small instances and TLAPS proves the most important
of them for every instance.  All paths below are relative to the repository.

## The system

| part | source | state it keeps | how it interacts |
|---|---|---|---|
| foundry session | `src/foundry-program/specs.yml`, `handlers.ts`, `registration.ts` | mode, governed fields (intake, repo, plan, graduation), pending notice | one action per round; handlers call the synthesizer, planner, writer, drive and write to the target directory |
| PGAS engine | external package | sessions, rounds, snapshots | opens rounds on triggers and notices, enforces vocabulary and preconditions, commits, takes transitions |
| transit store | `synthesizer-store.ts` | map session -> spec and bodies, in process memory | written by the synthesizer and domain synthesis, read by planner and writer |
| program synthesizer | `synthesizer.ts`, `stage-classifier.ts`, `engine-primitive-registry.ts`, `json-normalize.ts` | none (pure) | generates the state machines of the program: confirmation loops, collections, delegation |
| domain synthesis | `domain-synthesis.ts`, `reasoning-contract.ts`, `governance-gate.ts`, `capability-registry.ts`, `program-purity.ts` | per call: contracts, bodies, attempts; on disk: a cache of contracts and bodies, shared by all sessions | contract, then generate / verify / repair per stage; models and services over HTTP; the result goes to the transit store |
| planner and writer | `src/pgas-new/artifact-plan.ts`, `template-renderer.ts`, `existing-repo.ts` | the target directory | plan paths, refuse to overwrite, write, assert |
| wiring manifest | `src/pgas-new/wiring-manifest.ts` | `.pgas/wiring.yml` of the target | published by the repository's curator, read again by every handler that needs it |
| curator request, graduation audit | `curator-request.ts`, `graduation-audit.ts` | files in the target | written by handlers |
| live drive | `generated-live-drive.ts`, `verification-env.ts` | working directory, provider proxy, kill timer; in the runner: what it read, sent and harvested | spawns a runner that boots the generated program, drives it end to end and leaves a report; the caller judges it |
| confirmation loop of a generated program | `synthesizer.ts` (reactions and the specification around them) | items with status and text, a mirror, the decision applied last, the derived guard and cursor, the escape | the author proposes, the user decides, reactions enforce, derived paths gate the transition |
| collection of a generated program | `synthesizer.ts` (`collection_lifecycle` without a confirmation loop) | items with status and flag, a mirror of the flags, the gate, the last violation | the author states intents, a reaction applies them, a reaction or a derived path computes the gate |
| modes of a generated program | `stage-classifier.ts`, `synthesizer/topology.ts`, `synthesizer.ts` (`apply*ModeWiring`) | mode, guard fields, export triggers | the author takes actions, guards open transitions, hubs reset theirs, hooks render exports |
| delegation of a generated program | `synthesizer.ts` (`applyDelegation*`, `applyDocuments*`, the handlers and reactions they render) | the intake of documents, what was read of them, the document the program points at, for each child whether it was asked and its result, for a fan-out how many items are answered and with what | the user uploads, the author asks children, a child's answer lands in the round, reactions at the end of every round point at the next document |
| command runner | `command-runner.ts` | one child process | its error and close events settle one promise |
| REPL | `src/repl/runner.ts` | session, mode as last heard, running and abort flags, two input gates, a queue | triggers over HTTP, rounds over SSE, controls, polls |
| REPL renderer, token | `src/repl/renderer.ts`, `auth-token.ts` | none | layout; a token read from a file |
| CLI and server | `cli.ts`, `foundry-server.ts`, `index.ts` | a server process | port, health, shutdown |
| gates, composite checks, control plane, attach profile | `gates.ts`, `composite-checks.ts`, `control-plane.ts`, `governed-attach-profile.ts` | none | pure helpers, or test-only mirrors |

What makes the session hard to test: the author may try any action of a mode in
any order, any number of times, with any argument; a decision of the user stays
in the governed state after the round it was made in; statuses are recorded as
the author words them and canonicalized by reactions afterwards, while guards
wait for the canonical word; the manifest is read again from disk by four
handlers while its curator may edit it; the writer leaves files behind when it
fails; spec and bodies live in process memory while everything else is durable;
and the modes of the second half accept no input of the user's, so a lost
continuation is a stopped session.  The REPL runs on one thread, but every line
the user types has a handler of its own that gives way at each await: replies,
retries, aborts, polls and the goodbye of different lines interleave freely over
seven shared variables.  Domain synthesis has no locks: calls of different
sessions read and write one cache directory wherever one of them awaits a model or
a service, files outlive the programs they were written for, and a crash may leave
half of one.  A live drive is two processes with a timer each: the caller kills
the runner at any point, the runner gives up on its own deadline, and the trigger
it gave up on goes on.  A confirmation loop applies a decision by three reactions
that each write a part, to a target somebody else computed, and clients repeat what
got no answer.  A program that delegates points all its children at one field, which
transitions and reactions of three kinds write, the latter whatever the mode.  The bodies
and contracts the foundry falls back on are judged by gates that were written for the
answers of models, on a fixture that is made by other code than the program's.  `PROJECT.json` lists these hazards at the
lines where they bite, with the properties that watch them.

### What makes each part correct

* **Session**: modes are climbed in order, on evidence that stays on record; the
  two human gates are passed only by an approval; what is written is what was
  approved, and nothing else is overwritten; recorded evidence is the truth;
  an approved plan graduates.
* **Planner and writer**: all or nothing, never over somebody's files.
* **Domain synthesis**: a file never lies about what its body was verified for; a
  published result is complete and fits its program; degradation is explicit; a
  repair is about the stage it is made for; all stages or none; every call ends.
* **Gates of stages**: what the foundry writes itself passes its own gates; a repair leaves
  alone what is right; a right body that needs no more than the program serves is accepted;
  a document prints what was approved; every body that lets go is judged.
* **REPL**: text is served one line at a time, in order; the prompt is never locked;
  an abort is not forgotten and nothing is served after the goodbye; every waiting
  line is served or dropped and every handler ends; an approval goes to the gate
  the session is at.
* **Live drive**: one outcome, whoever wins the race, and everything borrowed given
  back; it passes only a program that was driven to completion in this drive, and
  that is not broken in what the scripts probe; no decision is spent on an item that
  was decided before.
* **Confirmation loop**: an item is accepted only as the user saw it; the mirror says
  what the statuses say; a decision counts once; items come one after the other; a
  review ends.
* **Collection**: its items move one at a time, along declared edges only; the review is
  left only when every item is terminal; a review that can be completed is.
* **Topology**: a hub is left only on purpose, an action opens the one branch it is for, an
  export is rendered when it is entered, sessions end.
* **Delegation**: a child runs on its own document, whatever happens between the upload
  and its request; a fan-out asks its child once for each item, in order, and is left
  when the last one is answered; no stage waits for a child in vain.

## Modules

| module | what it is |
|---|---|
| `Foundry` | the session with its handlers, reactions, transit store and target directory; its properties and fairness |
| `Ladder` | the abstract promise: climb one rung at a time on its evidence, past gated rungs on an approval |
| `FoundryClaims` | what the documents say of the session and the code does not do |
| `MCFoundry` | the instances TLC checks |
| `Foundry_proofs` | theorems about the session and their proofs |
| `Repl` | the REPL: lines, handlers, gates, queue, rounds, controls; its properties and fairness |
| `Turnstile` | the abstract promise for text: one at a time, the oldest first, forgotten together, none after the close |
| `MCRepl` | the instances TLC checks |
| `Repl_proofs` | theorems about the REPL and their proofs |
| `DriveVerdicts` | the verdicts a drive is judged by, as pure operators on reports |
| `LiveDrive` | caller, runner and engine of a drive; its properties and fairness |
| `OneVerdict` | the abstract promise: one outcome, given while the resource is held; released; returned |
| `MCLiveDrive` | the instances TLC checks |
| `LiveDrive_proofs` | theorems about the drive and their proofs |
| `ConfirmationLoop` | the confirmation loop of a generated program; its properties and fairness |
| `OneByOne` | the abstract promise: planned items are shown and resolved one after the other |
| `MCConfirmationLoop` | the instance TLC checks |
| `ConfirmationLoop_proofs` | theorems about the loop and their proofs |
| `CollectionLifecycle` | a collection whose items have a life cycle, in a generated program; its properties and fairness |
| `StatusBoard` | the abstract promise: items take declared edges one at a time; closed when all are terminal |
| `MCCollectionLifecycle` | the life cycles TLC checks |
| `CollectionLifecycle_proofs` | theorems about collections and their proofs |
| `Topology` | what the synthesizer makes of stages and transitions, as pure operators: archetypes, planned actions, guards, channels, modes |
| `ProgramTopology` | a session of a program over any topology; its properties and fairness |
| `MCProgramTopology` | the 41 topologies TLC checks |
| `Delegation` | children, documents and fan-outs of a generated program; its properties and fairness |
| `OneEach` | the abstract promise: each item is answered once, in order, with an answer to itself |
| `MCDelegation` | the programs TLC checks |
| `Delegation_proofs` | theorems about delegation and their proofs |
| `DomainSynthesis` | calls of domain synthesis over a shared cache; its properties and fairness |
| `AllOrNothing` | the abstract promise: stages filled in order, published all or none |
| `MCDomainSynthesis` | the instances TLC checks |
| `DomainSynthesis_proofs` | theorems about domain synthesis and their proofs |
| `StageContracts` | the contract of a reasoning stage, as pure operators: its judgement, repair and derivation |
| `StageBodies` | the bodies the foundry writes itself, as pure operators, and what an export prints |
| `StageGates` | the judgement of a contract, of the drafts and of the body of a stage; its properties and fairness |
| `MCStageGates` | the stages, answers, drafts and program states TLC checks |
| `StageGates_proofs` | theorems about contracts, bodies and exports, and about the sessions of `ProgramTopology`, and their proofs |

The components meet where their modules abstract from each other: `Foundry` takes of
domain synthesis that the transit store gets all bodies or none (`Publish`, and
`ImplementsAllOrNothing`), and of the drive that a call gives one verdict that is
recorded whatever the author claims (`GatePasses`, and `ImplementsOneVerdict`).
`LiveDrive` takes of a confirmation loop that a decision is given to the item
proposed first (`FirstProposed` in both).  `DomainSynthesis` takes of a gate that it
accepts or refuses; `StageGates` says of one stage which.

### Foundry

State: `mode`; `round`, the channel of the trigger being answered, or `none`;
`notice`, whether an auto-continuation is waiting; `domain`, the governed fields
that some guard, precondition or handler reads (free text, JSON payloads and
evidence ids are left out); `transit`, what the in-process store holds; `tree`,
what matters of the target directory (manifest, curator request, a project of its
own, generated artifacts, the verdict the graduation audit states); `measured`, a
history variable with the outcomes of the smoke and live runs that really took
place, and what the last recorded run of the post-rebase rung reported of its audit
(`audit_finalized`).

One step is one of

* a trigger opening a round: `UserSpeaks`, `UserConfirms` (which ingests the
  decision into the governed state first), `Continue` (a notice), `Drive` (a
  graduation driver that opens a round without one);
* the round's action.  `Interviewed`, `Targeted`, `Generated` and `Verified`
  group the actions by mode; each checks the vocabulary (`Chooses`), its
  preconditions and whatever makes the handler throw, and then commits with
  `Settle`: the mutations, the reactions they set off, the transition, the end of
  the round, and the notice, as one atomic step.  Actions that touch no field
  a guard reads are `Observe`;
* a round that fails: `RoundFails` commits nothing; `LoadMissingManifest` and
  `WriteMissesPlannedPaths` commit nothing but leave files behind, because their
  handlers write before they throw;
* a round that is lost: `RoundIsLost` leaves on disk what its handler wrote and
  commits nothing.  Three handlers write (`Leftovers`): artifacts, some or all of
  them, a curator request, and the graduation audit, which is rewritten before the
  engine commits the verdict in it (`handlers.ts:1289`, `1742`).  With restarts
  switched off artifacts are not lost like this, because what is left of them is in
  the way of the next write for good;
* `CuratorEdits` and `Restart`.  A restart loses the notice, the round in flight
  and the transit store, and leaves what the round's handler may have written.

**Transitions.**  `specs.yml` has, for every mode, guards (`Eligible`), and for
thirteen actions a proposal (`ProceedsTo`).  A round proposes the mode its action
names, or else the one whose guard held when the round began, and the proposal is
taken if its guard holds on the state the round leaves.  The engine is not part
of this repository; this reading is the one under which the comments of
`specs.yml:540-542`, the end-to-end tests
(`tests/integration/foundry-end-to-end.test.ts:197-318`) and the repo-targeting
tests (`foundry-repo-targeting-flow.test.ts:475-597`) describe what happens.  One
thing they leave open is a parameter: does the guard see a status as the action
wrote it or as the reaction settled it?  `GuardViews = {"settled"}` is the first
reading; `{"written", "settled"}` allows both at every step.  `all` checks its properties
under both, `live` and `blocked` under the first.

**Statuses.**  `StatusArgs` has a canonical word, a sentence that leads with one,
and a no-op phrase.  `Parsed` and `ParsedRebase` say what the reactions make of
them; a text no parser accepts fails the round.

### Ladder

`Foundry` implements `Ladder` with the rank of the mode as the rung, the rungs
whose evidence (`Evidence`) is on record as what is proven, and "this round
answers an approval" as the approval; rungs 0 (interview) and 3 (plan) are gated.
`Climbs` is the abstract specification under that mapping, checked as a property
and proved as a theorem.

### Repl

State: the `ReplState` of the code (`sessionId`, `mode`, `running`,
`abortRequested`), the closure variables of `runStreamingRepl` (`inputBusy`,
`textBusy`, `pendingInputs`, and `exit` for `exiting` with the progress of
`finish`), the lines typed so far, and for each line `pc`, `at` and `count`: at
which await its handler stands, which session the outstanding call is about, and
how often the round was retried (or whether a poll has seen a round count
before).  `live` is the server's side: the mode each session is really in.

* A line that is submitted is queued, or its handler starts (`Type`).  The
  synchronous part of a handler up to its first await is one step (`Start`,
  `Route`), during which nothing else happens (`Awaiting`).  What follows a reply
  is one step again, and so on.
* The `finally` clause of `dispatchInput` is `Settle`.  It is a microtask: it runs
  before any reply is looked at (`Quiet` guards every action that follows a reply),
  but not before the next line of one chunk of input, which readline emits without
  giving way.  `Settle` releases the gates, forgets the queue if an abort was asked
  for, and serves the next line, all in one step, as the code does.
* Text: `StartText`, `Created`, `Route`; then a round: `SeesAbort`,
  `RoundCompletes`, `RoundFails`, `RoundUnauthorized`, `Retry`, `BackoffEnds`, and
  `RoundEnds` for the `finally` of `runTrigger`.  A completed round clears `running`
  before the stream is closed, which is an await.
* Controls: `StartApprove`, `StartReject`, `Refreshed`, then `ControlAnswered`,
  `Polled`, `PollAgain`, `DeadlinePasses` for the wait afterwards, which asks for
  the session the REPL is in at that time, not the one the control went to.
* The commands `StartNew`, `StartAbort`/`AbortAnswered`, `StartResume`/`Resumed`,
  `StartReading`/`Read`, and leaving: `StartExit`, `Interrupt`, `Leaves`,
  `GoodbyeSaid`, `QuittingEnds`.  `Throws` is a call whose error the handler leaves
  to `dispatchInput`.
* The server is external.  `EngineMoves` moves a session to any mode at any time;
  a call may succeed, fail or, where the code looks at it, be unauthorized.  Modes
  are told apart as far as the REPL does: `other` stands for all modes without text
  channel and plan gate.

A bracketed paste is one line of kind `text`; `/help`, an unknown command and an
empty answer change nothing.

`Turnstile` is implemented under: lines typed have arrived, queued text lines wait,
a text line whose handler is in flight is served, and the turnstile is open until
the user leaves.

### LiveDrive

State: the caller's place (`drive`), what it borrowed (`proxy`, the working directory
with `report`) and its `verdict`; the runner's place (`pc`), the answers of a reading
as they come in (`got`), what it believes (`seen`, `before`, `triggers`, `used`,
`history`, `exported`, the uploads) and its own `late` flag; the engine's `queue` of
triggers and `engine`, the session as it really is.  `fault` is how this generated
program is broken, if it is: a fact it does not deliver, a loop that ignores
decisions, a keyed collection that keeps the first element, and so on.

* The caller: `Setup` clears the directory and opens the proxy, `Spawn` renders and
  starts the runner, `Judge` reads the report when the process has closed,
  `CloseProxy` and `RemoveDirectory` are the `finally` clause.  `Kill` is the kill
  timer; SIGKILL ends the process, whose pipes then close.
* The runner: one step between two awaits.  A reading of the state is three
  concurrent requests (`Get`), pieced together in `StateRead`; a round is waited for
  by polling (`PollAgain`); `SendDecision`, `PostFile`, `SendEntry` send triggers,
  which end as `Answered`, `SessionOver`, `TimesOut` or `Refused`.  Writing the report
  is two steps, so a kill may tear it.  The seven runners the source renders differ in
  which of these they have, which `Runner` and its siblings in `DriveVerdicts` tell.
* Engine, provider and generated program are external: rounds happen, land files,
  take decisions, fail.
* The verdicts are pure operators (`DriveVerdicts`), one for each `assess*` function,
  and `GatePasses` for the conjunction `handlers.ts` draws.

`OneVerdict` is implemented with the verdict as outcome, the open proxy as what is
held, and the settled call as the return.

### ConfirmationLoop

State: `items` and `mirror`, `pending` and `applied` (the saved decision and the
fingerprint of the last one applied), `shown` (the summary), `draft` and `unapplied`
(the proposal and whether it is still to be placed), `guard` and `cursor` (derived
when a round ends), `idle` and `arm` (the no-action escape); `asked` is the call a
client may repeat and `ruling` a history variable with what the user decided on what
he saw.

A trigger is two steps.  Its ingestion (`Confirm`, `Repeat`, `TextOpens`) includes the
three `AfterIngestion` reactions (save, enforce, summarize).  The round it opens ends
with one action of the author (`Proposes`, `CompletesReview`, `RoutesBlocked`,
`ActsOtherwise`, or `Idles`, the fallback of an author with no admissible action), the
`AfterRound` reaction (`ChoreographCollection`), the derived paths (`Derive`) and the
transition (`Transits`); or it fails (`RoundFails`) and what was ingested stays.

What is taken of the engine, from the emitted specification and the tests: a guard
that only becomes true in a round may be taken now or in the next; a mutation of one
field of the summary leaves the others; the arm of the escape stays set.  What is taken of
clients: one that repeats a call stamps its calls and repeats only a decision it made
about an item that was shown; unstamped calls are not repeated.  `NoDeadEnds` assumes
that every decision leads to a status the loop can go on from, which the validation
of descriptors does not check.

`OneByOne` is implemented with the terminal items as the resolved ones and the first
proposed item as the one before the user.

### CollectionLifecycle

State: `items` (name, status, the flag the reaction writes, a number to sum), `mirror`
(the array of flags that the derived path reads; arrays only), `guard` (the field the
transition asks for), `violation`, `granted` (guard fields of moves that are true), and
`act`, what the author did in the round that is open.  `descriptor` is chosen at the start
from those `Accepted` lets through.

A planning stage leaves the items as its model wrote them (`PlanCompletes`): without
names, with one name twice, in an unknown or a terminal status, none, or text that is no
list.  In the review a round opens with an intent (`Intends`), `complete_<stage>`
(`CompletesReview`) or any other action (`ActsOtherwise`).  Its end is one step
(`RoundEnds`): the reaction that applies the intent or leaves a violation (`ApplyEvent`),
then the one that computes the gate, in the order in which they are declared, or the
derived path (`Gate`), then the transition (`Transits`); or the round fails and nothing of
it is kept.  The mutation of `complete_<stage>` sets the guard field itself and comes
before both.  Other actions may set and take back guard fields.

`StatusBoard` is implemented with the statuses as the board.  It is closed when the review
is left, except where nothing computes the gate (`Ungated`, see "Disagreements").

### Topology and ProgramTopology

`Topology` is what `synthesizeProgramSpecFromDomain` makes of the stages and transitions
of an intake, as functions of the intake: the archetype of a stage (`classifyStage`), the
transitions after stale ones were replaced (`Refreshed`) and the completion guard was put
in (`Edges`), the planned actions with their unique names and guards (`Plan`, one transition
at a time in the order in which `planTransitionActions` walks its groups, `NextOf`), what makes it
throw (`Refused`), and what is emitted: `ActionMap`, `Vocabulary`, `Transitions`,
`HubGuards`.  The words of a stage are the set of vocabularies that some word of it is in;
names and paths are tuples of their segments, so that two are equal exactly if the strings
are, but for slugs with an underscore where `SafeIdentifier` says what is left of a slug.

`ProgramTopology` runs a session of such a program: the author takes an action (`Take`),
or calls nothing that proceeds (`Stay`), an export is drained (`Drain`), a hub takes its
guards back on the way in (`Enter`), and writing its trigger renders an export
(`rendered`).  What is taken of the engine: an action that proceeds to a mode gets there
if a transition to it is open on the state the action leaves; where nothing is proposed,
a transition whose guard holds is inferred, any of them, or none
(`tests/integration/hub-mode-autoadvance-falsifier.test.ts`;
`.dd-report-exp/document-finalization/TASK1-REPORT.md:13-29`).  Whether the reaction of a
hub is called when the hub is entered from itself is left open (`MayReset`).

### Delegation

A program is a line of stages.  `Programs` is a set of descriptors: whether documents are
taken in, with a fidelity floor or not, whether a child reads them on the upload stage,
how many sources are configured, and the kind of each stage: the upload, plain work, a
child on no document (`child`, or `ad_hoc` if it may be asked any number of times), a
child on a document of its own (`sliced`), or a fan-out over the documents (`loop`) or the
sources (`sources`); and the `place` of each stage's child in `delegation.children`, which
numbers the documents of the sliced children (`Ordinal`) and which nothing holds to the
order of the stages.  `Validated` is what the validation of descriptors sees to, and one
thing it does not: that the stages which read documents come after the upload.

State: the intake (`refs`, `skip`, `asked`, `received`), what was read of it (`source`,
`ready`), the document pointed at (`current`), for each stage whether its child was asked
and what document it ran on (`requested`, `result`), the guard fields of the transitions
(`left`), and the fan-out (`index`, `complete`, `results`).  Documents are numbers: their
ids, and so the keys of the results, are distinct.

The user uploads references or sends the skip status (`Upload`, `SkipArrives`).  A round is
two steps.  First the author's action with its handler and its child: `Begin`,
`RequestUpload`, `IngestDocuments`, `SkipDocuments`, `Request`, `Proceed`, or one of the
others.  Then `RoundEnds`: the reaction that settles the source and the one that advances
the fan-out, both on the snapshot of the round's mutations, and the transition.  As in
`ConfirmationLoop`, a guard that comes true in a round may be taken then or later, unless
the action proposed it; one that held when the round began moves the session whatever the
author does.

What is taken of the engine: children are `Sync` channels, so that a result with a final
status (complete, failed or declined) lands in the round of the request
(`tests/integration/delegation-engine-falsifier.test.ts:27-63`).  A round that fails commits
nothing and is no step.  What is taken of the author: he puts no document of his own in
the argument that a transition action has for the slice.

`OneEach` is implemented with the items the fan-out finds, the answers of the items below
`index`, and "its stage was left".

### DomainSynthesis

State: `env`, the environment of this process (provider, author required, fallback
allowed); for each session `program` and `result` (the transit store) and `call`, one
record for the call under way: its place, the stage it is `at`, the attempt, what the
model is told to `repair`, the contracts `woven` so far, the stages with a derived
contract (`reasons`), the `sources` filled so far; and on disk `bodies` and `contracts`.

A body is not text but its provenance: the stage, kind, contract, woven contracts and
service it passed the gate for, and whether it is the mechanical fallback.  That is
all the properties tell apart; what a gate tests inside a body is abstracted to
"passes or not", and a stored body that is run again (`Recheck`) can only pass if it
was made for the same service.  The prompt of a stage embeds the specification of the
whole program, so a key holds the whole program but its service, and the contracts
woven into it.

* Reasoning stages first: `FindContract`, `AskForContract`, `ContractAnswered`,
  `AskContractAgain`, `FallBackToContract`, `NoContract`, and `DeriveContract` or
  `Unconfigured` without a provider.  A derived contract is judged like an author's and
  may be refused, which ends the call (`DerivedRefused`; `StageContracts` says when).
  `WeaveSpec` synthesizes the specification again.
* Then each stage in order: the three lookups (`Named`: the key, then its former
  forms; `Alike`: a body of a stage of the same name with the same reads and items),
  which end in `Replay`, `ReplayRefused`, `Recheck` or `CannotRead`; or `Generate` with
  its attempts, the attempts of a second model (`Escalate`, `EscalateAgain`) and the
  mechanical body (`FallBack`); or a template (`Render`).  `BodyPasses` files the body
  and goes on; `BodyRefused` and `Exhausted` end the call.
* `Record` for a reasoning stage, `Publish` at the end.  `Crash` loses everything but
  the disk, `CrashInBody` and `CrashInContract` leave a torn file.

One thread runs all sessions: a call in `Running` goes on to its next await before
anything else happens.  A crash may come at any time.

`AllOrNothing` is implemented, for each session, with the stages below `at` as filled
and the published program as what is published.

### StageContracts, StageBodies and StageGates

One reasoning stage, `prior`, gets its `contract`; then one later `stage` gets its body.

* The contract: `Answer` (repaired, then judged: `Repaired`, `SoundContract`), `NoAnswer`,
  and `Derive` or `GiveUp` when nobody is there to ask or the attempts are used up.  A
  derived contract is judged, and not repaired.
* The stage takes one way (`Route`): the two connectors of the host and the exports have a
  body that the foundry writes, and so do the integrations of a repository, by http or by
  module.  A plain stage gets drafts of a model (`Draft`, `NoDraft`; those of a second model
  are further drafts) and at last the mechanical body (`Render`).
* The judgement: `TextVerdict` looks at the text (stub markers, then what is unsafe, then
  governed constructs, which end the call, then form and types), `MayRun` at what a gate
  asks before it runs anything.  The run ends with `Settle`, or with `TimeOut` when the body
  waits for ever; a body that spins stays `running`.  `Holds` is what each gate asserts.
* The fixture (`Seeded`) is made up from the reads a stage declares.  `Served` is what the
  program lays out of the same reads.  A few stages of early examples have samples that are
  there for every body (`crm_lookup` and three more); no stage of the run has their names.
* `Publish` follows the body of an export into the program, with the items and paths it
  meets there (`Sections`).

A body is what its text says, how its call ends, which inputs it cannot do without and
what it returns; a contract is its fields, templates and example.  Templates and items
are the text before a placeholder and what stands for the placeholder.  What a type
checker and the detector of governed constructs make of a text is an input.

## Runs

| run | instance | shows |
|---|---|---|
| `all` | two layouts, three kinds of directory, curator, requested paths, restarts, both views of guards | graduation is earned whichever view a guard takes; approved writes, last word, answered design |
| `live` | one layout, guards on settled statuses, fair scheduling and author | an approved plan graduates; the refinement `Climbs`; with rounds lost between a write and its commit, a graduated session's audit states the verdict on record |
| `blocked` (violated) | curator publishes a manifest late | the foundry's own request file blocks the attachment |
| `repl_lines` | two lines of any kind, two sessions, two retries, fair handlers | nothing after the goodbye, the refinement `ImplementsTurnstile`, waiting lines are served or dropped, handlers end |
| `drive_verdicts` | nine sets of scripts, every fault, answers when rounds are done | no broken program passes, no decision is spent on a decided item |
| `drive_early` | four sets of scripts, every fault, answers at any time | a pass means this program was driven in this drive; the refinement `ImplementsOneVerdict` with its liveness |
| `loop_review` | up to two items, three decisions, one of which needs an instruction | accepted as seen, the refinement `ImplementsOneByOne`, reviews end |
| `lifecycle_programs` | fourteen life cycles of either storage, two items planned in any way; four of the life cycles are refused; fair author | the refinement `ImplementsBoard`, reviews that can be completed are |
| `topology_sessions` | 41 topologies: branches under any three guards, hubs of both kinds, exports, stale and refused transitions; fair author | hubs hold, one branch opens, exports are rendered on entry, sessions end |
| `delegation_programs` | nine shapes of programs, up to three documents or sources, fair user and author | each child on its document, the refinement `ImplementsOneEach`, sessions end |
| `synthesis_fills` | two sessions, four programs, four environments, two attempts and two of a second model, an inherited file | truthful files, fitting results, explicit degradation, repairs, the refinement `ImplementsAllOrNothing`, calls end |
| `stages_judged` | seven reasoning stages with sixteen answers each, thirty-five later stages with right and wrong drafts, seven states of a program (33,619 states) | which contracts and bodies of the foundry's own hold, what a repair leaves alone, where fixture and program agree, what a document prints, bodies are judged |

The type invariants are proved (see "Proofs"); that of `StageGates`, which says more than
types, has a run as well.  So are `EarnedInOrder`, `NeverOverwrites`, `GraduatedProgramWasDriven`,
`NeverLockedOut`, `AbortIsRemembered`, `MirrorTellsTheTruth` and `ServicesWereCalled`: they
are theorems for every instance, and no run repeats them.

## Disagreements

One run is expected to be violated.  It checks what the repository says of itself;
`PROJECT.json` quotes it and names the lines that do otherwise.

* `blocked`: loading a missing manifest leaves a curator request at a path that every
  later attachment creates, so the write after the manifest has been published fails
  (`handlers.ts:1601`, `artifact-plan.ts:330`).

More came up while modelling.  They have no run of their own, because they follow
from what a run shows, are plain from the code, or were found with a model that no
longer has a run; they are what the models do, not what they rule out.

Session:

* After a restart a missing spec cannot be synthesized again where the guidance of
  the later modes says so (`specs.yml:398`).
* A rejection at Q3 leaves the intake finalized (`specs.yml:1217`), and the later
  answers on record, so Q3 is answered after them, though the prompt promises strict
  left-to-right order (`specs.yml:1634`).
* An approved plan with a requested path the templates do not know is written and
  then refused (`handlers.ts:1120`).
* The graduation audit is written before its verdict is committed (`handlers.ts:1289`,
  `1742`): after a lost round or a restart it may state a verdict nobody recorded, until
  the rung is run again.  Where guards read a status as the author wrote it, such an audit
  may even survive graduation: a verdict in words of the author leaves the exit shut, a
  second run is lost after it has written "failed", and any later action of the mode
  graduates on the first verdict.  TLC shows it with `GuardViews = {"written",
  "settled"}`; `AuditTellsTheTruth` is therefore checked and proved for settled guards.
* An attachment's audit is not rewritten when a curator has broken the manifest, and the
  session graduates with `audit_finalized` false and the audit of an earlier run, or
  none (`handlers.ts:1287-1294`); `AuditTellsTheTruth` speaks of audits reported finalized.
* The verdict of the smoke run is the author's word (`specs.yml:1498`).
* `create_curator_request` needs the manifest whose absence it is meant to report
  (`handlers.ts:1061`, `1868`).

REPL:

* A late reply sets a mode without a session, and the first message of the next one
  is refused (`runner.ts:321`, `484`).
* A mode that is stale or null lets text through to a session that has left the
  interview (`runner.ts:428`); an abort during the pause between two attempts does
  not keep the next attempt from being sent (`runner.ts:552`).
* A `/resume` in flight clears `running` during the round of a queued line
  (`runner.ts:379`), and leaving then aborts nothing.

Live drive:

* A record appended again with fewer fields lets a store that keeps the first element
  pass: payloads are compared over the fields of the last one
  (`generated-live-drive.ts:1480`), though the comment at `1342-1346` takes this
  comparison for the one that tells a real upsert.  The instances give payloads the
  same fields for that reason.

Domain synthesis:

* A stage whose rules or invariants were corrected gets the body of the old rules, because
  the search for alike bodies, meant for changes of an `arg_schema`, runs for every
  specification that has one, and all of them do (`domain-synthesis.ts:252`,
  `synthesizer.ts:734`).  The design says "Changed stage → invalidate it **and downstream
  dependent stages only**"
  (`src/docs/superpowers/specs/2026-06-28-foundry-domain-synthesis-design.md:171-172`).
  `ResultFits` says what is left: an alike body agrees with its stage where alike bodies
  are taken.
* A torn cache file is a miss for contracts, but `readCache` does not guard its
  `JSON.parse` (`domain-synthesis.ts:4674`), and the search for alike bodies reads
  every `.json` of the directory, the contracts too: one torn file ends every later
  call that gets that far.  The design document says "treated as miss (same posture as
  `readCache`)" (`2026-07-02-llm-reasoning-stage-synthesis-design.md:581`).
* An integration that is neither `http_api` nor a template (`db`, `sdk`, `module`) never
  passes the gate (`domain-synthesis.ts:1549-1582`); it gets a body only if an alike one
  of another program is in the directory, and then without being run.
* Service and method of an integration are not part of its key: after they change,
  the cached body fails its recheck in every retry, and the file stays
  (`domain-synthesis.ts:258`).
* The audit of a replayed fallback body has no `deterministic_fallback` flag
  (`domain-synthesis.ts:268-279`).
* "The same gate" that the mechanical body is accepted by is one it was made to pass: "It is
  guaranteed to satisfy the baseline behavioral gate" (`domain-synthesis.ts:4214-4232`).  It
  does not where a template names an `<email>` and there are several templates, several
  leads in the example, or another word before the placeholder; where a fee is asked for
  with a hint that is not a number; and where a name or a template says what a stub says.
  `Mechanizable` is the exact condition.
* A right answer for a contract is spoilt by its repair where the specification prescribes a
  list of records without describing them: the author's description of the records is
  replaced by none (`reasoning-contract.ts:720-731`).  The derived contract fails there, too.
* The judgement lets an author make a choice of a prescribed text ("must have type string or
  enum per the domain spec", `reasoning-contract.ts:893-897`).  No contract under a
  specification that binds the fields ever has one: the repair before it makes every
  prescribed field what the specification says, and it says no choices
  (`711-731`, `930-962`).  `Widened` is what it does to them.
* The fixture knows nothing of `domain_spec`, which a body may read, nor of the flat copies
  of a computed output when no field of it is named (`domain-synthesis.ts:2590-2612`): a
  right body that needs them is refused (`Blind`).
* A field that comes first and is empty hides the text of an approved item from a document
  (`domain-synthesis.ts:4083-4091`): an item with an empty `final_text` and an approved text
  is not printed.
* A call to a provider clears its timeout when the headers arrive
  (`domain-synthesis.ts:1127`), and the timer of the behavioural gate (`2869`) cannot
  fire while the body under test loops on the thread it would fire on: the context's
  own timeout (`2330`) covers loading the module, not the call of `runStage`.

REPL:

* `/approve` picks its control by a mode that rounds of text never refresh
  (`runner.ts:446`): after the first message it is null while the session is in the
  interview, and `/approve` invokes `approve_artifact_plan` there, although the comment
  (`runner.ts:881-883`) says that a single action regardless of mode fails the
  precondition check.  TLC finds this with text followed by an approval.

Collections:

* Where items are a text and no move is the author's, the gate is computed only when the
  items are written, and `complete_<stage>` sets the field itself (`topology.ts:309`): it leaves
  the review with items that are not terminal, although the registry promises "per-status
  transitions + an all-terminal aggregate gate" (`capability-registry.ts:102`).  `Ungated`
  names this place; without that exemption TLC shows it.
* Moves managed by a reaction have no reaction in a program without a confirmation loop:
  items in their source status stay there.
* The rendered reaction makes the mirror of the flags alone (`synthesizer.ts:7195-7199`),
  the exported one, which the tests call, counts the status too (`2516-2518`): in a
  generated program an item that was planned as terminal never counts, and an empty array
  never completes.
* Two items of one name: intents reach the first only, and the review cannot be completed.

Topologies:

* "The transition INTO the export stage carries a single declared `MSet
  <stage>.render_pending = true`" (`synthesizer.ts:1555-1556`): the transition of an export
  into a second export does not, because the actions of exports are not in the action map
  (`1569-1572`).  The second export is never rendered.
* An export is also entered without its trigger when a stage is left by inference: by a
  guard that is still true from an earlier visit.  Hubs take their guards back, other
  stages that transitions come back to do not.  `RenderedOnEntry` is about actions.
* An export that waits for a guard of another stage (`1541` drops only guards of its own)
  waits for ever, as no action leads there with it: `Starved`.

Delegation:

* With two sliced children before a loop over the documents, the second one is given the
  first document.  The reaction of the loop has no test of the mode: at the end of the
  very round whose transition action points at `documents[1]` it finds a current document
  that is not the one at its index, and points back at `documents[0]`
  (`synthesizer.ts:7669-7676`), although the child's purpose is "Review uploaded document
  2." (`tests/integration/delegation-slice-runtime-falsifier.test.ts:291`).  A sliced child
  directly after a loop may have the last document of the loop, because the loop's guard
  moves the session on with any action, without the one that sets the slice.  In the same
  way a sliced child directly after the upload may have the first document where another
  child is declared before it: documents are numbered by the position in
  `delegation.children` (`synthesizer.ts:4081-4085`), which is not compared with the order
  of the stages, and the upload, once ready, is left by any action.  `Disturbed` names all
  three; without that exemption TLC shows them.
* Documents below the fidelity floor are extracted and ready, and cannot be ingested
  again, while the transition wants the floor: the session stays in the upload stage,
  although the guidance says to proceed when the source is ready
  (`synthesizer.ts:3735`).  `DeadEnd` names this place.
* Where documents are required, a skip status that has arrived wins over every later
  upload, and a skipped record is never ready: the other `DeadEnd`.
* A child on the upload stage may be left unasked, because the upload's guard moves the
  session with any action, although the guidance says to wait until it has settled
  (`synthesizer.ts:3290`).

**Bounds of the session.**  There are no counters to cap: `Domain` is finite once `Layouts` is.
Two layouts are enough to make a curator's edit visible between planning and
writing; a third could only be edited once more.  `AnyDirectory` has an empty
directory, a repository without a manifest and one with a manifest, which are
the states a session can start in as far as handlers can tell them apart.  The
runs that need only one hazard switch the others off, to keep their
counterexamples short.  Deadlock is checked in every run; a session stops only in
its terminal mode, which `Graduated` states.

**Bounds of the REPL.**  `MaxLines` is two: one line is served while the other is typed at
any of its awaits, waits, is dropped, or is the one that settles.  The order of two
waiting lines needs a third; it is proved instead, with the refinement, for every number
of lines (`OneTextAlways`, `InOrderAlways`, `ServesLikeATurnstile`).  `MaxSessions` is two,
so that a line may leave a session while another goes on; a session of an earlier run
may exist already.  `RetryLimit` is 2 for the code's 3: a round that is not retried,
retried, and retried for the last time.  Deadlock is not checked: a REPL whose lines are
all typed and settled stops.

**Fairness of the session** (`LiveSpec` of `Foundry`).  `Scheduled`: a pending notice opens a round, as the
engine's continuation does, and a driver opens rounds where none is pending, as
the graduation driver of `registration.ts:35-41` is documented to do.
`Cooperative`: an author that gets a mode's round again and again does, at some
time, that mode's work, and the generated program passes.  The latter is strong
fairness of each working action, because a round may always fail or be spent on
something else.  Nothing is assumed of the user after the approval.  The liveness
run has neither curator nor restarts: with a restart in the second half the
bodies are gone for good (see "Disagreements").  Rounds may be lost in it, but those
that have written artifacts.

**Fairness of the REPL** (`LiveSpec` of `Repl`).  Weak fairness of each handler's
steps: the event loop runs what is due, and every call is answered, fails or times
out.  Strong fairness of `DeadlinePasses`, since a wait alternates between polls and
pauses while wall-clock time goes on; weak fairness of the abort that `finish`
awaits.  Nothing is assumed of the user.

**Bounds of the drive.**  `MaxTriggers` 3 and `MaxRounds` 4 let a drive enter, take a
decision, and go on; two items make a decision on the wrong one possible; one key and
two payloads are what telling a replacing store from one that keeps the first needs.
`Drives` has every single runner and two combinations: one for the composite runner
and one that is refused.  Deadlock is not checked: a settled drive stops.  In
`drive_verdicts` triggers are answered when their rounds are done (`AnswersEarly =
FALSE`), as `tests/unit/hub-tools-falsifier.test.ts:161-171` relies on when it reads the
state right after a trigger; otherwise a torn reading can let a stub pass.  `drive_early`
drops that, for the properties that do not need it.

**Fairness of the drive.**  `WF(Caller)` and `WF(Kill)`: the caller's own steps are taken
and an armed timer fires.  Nothing is assumed of runner, engine and provider: two of
the runners have no deadline of their own, and the call returns all the same.

**Bounds of the loop.**  Two items: a decision can be about the right or the wrong one,
a proposal can overwrite the other, and "one at a time" has something to forbid.  One
text: which text is where is told by whether an item has one.  Three stamps are
enough because one that can no longer be confused (it is neither the last one applied nor the one
that may be repeated) may be used again.  `Cap` is 2 for the code's 3: armed at once,
and after waiting.  Deadlock is not checked: a finished review stops.

**Fairness of the loop.**  Somebody speaks to the session (`WF(TextOpens)`), an open
round ends or fails (`WF`), an author that is asked again and again acts, and proposes
(`SF`), and the user settles an item he is shown again and again (`SF(Settle)`).  The
strong ones are needed because rounds may fail and users may revise any number of
times.

**Bounds of collections.**  Two items: one that is left behind when the other is moved, two
of one name, one planned as terminal.  Three statuses, an unknown one and a guarded way
back make a gate that opens and has to close again.  Deadlock is not checked: a finished
review stops.

**Fairness of collections.**  The plan is made and rounds end or fail (`WF`).  An author
that is asked again and again states, at some time, an intent that brings an item nearer
to a terminal status, and that round does not fail (`SF(Advance)` and `SF` of the end of
such a round); which one he picks is up to him.  `CollectionCompletes` is about life cycles
without unguarded ways back (`Onward`), since an author may go around others for ever.

**Bounds of topologies.**  Five stages and seven transitions are enough for a branch of three
with a way back, two slugs with the same identifier, and siblings with the same guard, the
completion's or none.  The guards of the big family take every value at three places; the
other topologies are one each for what the code distinguishes.  Deadlock is checked: a
session that is over rests.

**Fairness of topologies.**  The program is synthesized and exports are drained (`WF`); an
author that comes to a mode again and again tries each of its actions (`SF(Take)`), since
he may spend any number of rounds on others.

**Bounds of delegation.**  `MCPrograms` has every kind of stage, with every use of documents
and with sources, floors, and a child on the upload; sliced children before a fan-out,
after one, and apart, and three that are declared in another order than their stages; a
fan-out over nothing.  Three documents: a fan-out has a first
item, one in between and a last, and a program may have fewer documents than sliced children, as many,
or more.  Deadlock is not checked: a finished session stops.

**Fairness of delegation.**  Rounds that begin end (`WF(RoundEnds)`).  A user who is waited
for again and again uploads, at some time, something that can be read and meets the
floor, and an author that is asked again and again acts, ingests it, asks the child and
proceeds (`SF` of each).  The strong ones are needed because rounds may be spent on
anything else.  No fairness is assumed of ad hoc requests.

**Bounds of domain synthesis.**  Two stages: one whose body is accepted before the
other fails, and one whose contract is woven into the other's prompt.  Two sessions
whose programs share a stage that may be asked for the same contract, and stages of
the same name but different shape.  Two attempts and two escalations: the first, and
one that repairs.  Four environments, as a crash may change them.  The inherited file
is one that only the former key finds.

**Fairness of domain synthesis.**  Strong fairness for each session: models and
services answer or their calls fail, and the event loop gets to every answer.  It is
strong because a session is not able to move while another runs to its next await,
again and again.  The assumption leaves out the two unbounded waits listed above.

**Bounds of the gates of stages.**  One answer and one draft: each is judged by itself, and
all that is carried from one to the next is the error a model is told, of which
`DomainSynthesis` speaks.  The reasoning stages are one each for no specification, one that
binds the fields, one with too many, an undescribed list, a name that says what a stub
says, and guards that take the names a derived contract would use.  The answers are a right one, one
that is right in another way where texts may be choices, and one for each thing that can
be wrong.  The later stages take every way, with every outcome
of their service; the states of a program have items that are approved, refused and waiting
in a list, under paths and in both.  Deadlock is not checked: a stage may be refused for
good.

**Fairness of the gates of stages.**  A call that can end ends and a timer that is set
fires (`WF`).  A body that never lets go of the thread is not assumed to.

## Proofs

`Foundry_proofs` proves, for every set of layouts and every set of directories,
with curators, requested paths and restarts switched on or off:

* `TypeCorrect`: `Spec => []TypeOK`, under either view of guards.  `SettleKeepsTypes`
  reduces every action to "its new governed state is in `Domain`".
* `EarnedAlways` and `ImplementsLadder`: the session keeps
  `EarnedInOrder /\ NoOpenExit` and implements `Ladder`, assuming guards read
  settled statuses.  The inductive invariant is `Inductive`: types, the two
  properties together, and that a session is never blocked.  Neither property is
  inductive alone: a mode like `smoke_verify` has two pieces of evidence and a
  guard that looks at the second only, so one must know that its exit is shut
  while the first is still being gathered.  The argument has two halves.
  `SettleClimbs` is about commits in general: one that leaves the evidence and
  exits of other modes alone (`Elsewhere`), and opens its own exit only on its
  own evidence, with an approval where one is due (`Leaves`), keeps the invariant
  and stands or climbs.  The rest shows that every action commits like that:
  `InertSettle` for those that touch no evidence, `OwnSettle` for those that
  touch their own mode's, `StandingStill` for steps that commit nothing.
* `GraduationAlwaysEarned`: graduation is earned, under either view of guards.  Without the
  assumption about views `Inductive` is false: a verdict that the author words his own way
  may leave the exit of a mode open, to be taken in a later round, and evidence that no
  guard reads may be spoilt before that.  `Guarded` is about what guards read instead:
  every exit behind the session is open, every one ahead is shut, and so is the session's
  own in the six modes whose exit opens for both views at once (`Prompt`).  The exits are
  what earns graduation, but for the smoke run, which `Guarded` names.  Every step is one
  of three `Moves`: it stays where it is, commits other fields (`Inert`), or commits those
  of its own rung (`Work`); `StepMoves` says so for each action, and `StepGuarded` looks
  at the three.
* `DesignAlwaysAnswered`, `NeverOverwritten`: by the invariants `Answered` and
  `Untouched`, which need types only.
* `LastWordAlways`, `WrittenAsApproved`: each on top of `Guarded`, which says in which
  modes a decision may still arrive or a plan still change, and so under either view.
  `AlwaysDriven` rests on `Inductive`.  The frame lemmas (`InterviewFrame` and so on) say
  which group of actions writes which fields.
* `GraduatesWithItsAudit`: a session that has graduated with its audit reported finalized
  leaves one that states the verdict on record, whichever rounds are lost and wherever the
  server stops.  In the steps of an open rung the two may differ; the proof shows that the
  commit which graduates is the one of the handler that wrote (`StepAudited`): with the
  verdict still open the exit is shut (`NoOpenExit`), so only `run_rebase_static_verification`
  leads out, and afterwards nobody writes an audit (`AuditFrame`) nor a verdict
  (`VerdictFrame`).  `AuditsOnlyTheDriven` is what holds of every audit, those of lost
  rounds included: no verdict is written into one before the drive has passed.

Assumptions on the constants are those named in `Foundry`; TLC evaluates them in
every run.  `ASSUME Settled` in five theorems (`EarnedAlways`, `ImplementsLadder`,
`AlwaysDriven`, `GraduatesWithItsAudit`, `AuditsOnlyTheDriven`) is the reading of guards
described above; all others hold under both.

`Repl_proofs` proves, for any number of lines, sessions and retries and any kinds of
line, `ReplTypeCorrect`, `OneTextAlways`, `InOrderAlways`, `PromptNeverLocked`,
`AbortAlwaysRemembered`, `GoodbyeIsFinal` and the refinement `ServesLikeATurnstile`.
None of the properties is inductive: that one text is served at a time depends on
who may hold which gate.  The inductive invariant `Inv` adds that the gate for text
is shut exactly while a text handler is in flight, that the gate for input is shut
only while some handler that opens it is, that a round in flight is a text line's,
that the queue holds the queued lines in the order they were typed, and that lines
wait only behind a gate.  Almost every step moves one handler from one await to
another and leaves the gates alone; `Moves` says what such steps have in common
(emptying the queue is allowed), `StepMoves` that they are all like that, and
`MovesKeepInv` and `MovesTurn` deal with them at once.  `Type` and `Settle`, which
do change the gates, have proofs of their own.

`LiveDrive_proofs` proves, for any scripts, items, keys, payloads and bounds:
`DriveTypeCorrect`, `PassedAlwaysDriven` and the safety half of the refinement,
`DriveGivesOneVerdict`.  That a pass means this program was driven is not inductive: it
says something of the engine when all that is left is a report.  The invariant adds
what holds on the way there: where the runner and the caller can be at the same time
(`Staged`); that whatever the runner has read or written of a finished program is true
of the engine, which stays in its final mode (`TrueToEngine`); that no report of an
earlier drive survives the setup (`FreshStart`); and that a runner that broke says so in
its report (`BrokenSaysSo`).

Two more theorems are about drives whose triggers are answered when their rounds are done
(`~AnswersEarly`, as in `drive_verdicts`).  `DecisionsFindTheirItems`: the invariant
`Prompted` says that at most one trigger is out, and whose it is (`Handshake`), so that
the engine stands still while the runner reads it, and that what was read is what the engine
holds until the runner asks again (`Fresh`).  `PassedAlwaysSound`: a broken program gives
itself away in every state of its session (`EngineTells`, `Shows`), in what the runner
noted (`RunnerTells`), and so in the report of any drive that may pass (`ReportTells`); a
lemma for each script shows that its verdict sees it.  It assumes `ValuesApart`, that no
payload is a part of another, and needs to: with payloads `{a1}` and `{a1, a2}` a store
that keeps the first element passes (see "Disagreements").  The verdicts count appends by the
set of their indices (`Appends`), about which the library's facts on finite sets speak.

`ConfirmationLoop_proofs` proves, for any number of items, any decisions without dead
ends, any texts, stamps and cap: `LoopTypeCorrect`, `MirrorAlwaysTrue`,
`AcceptedAlwaysSeen`, `TargetAlwaysActive`, `DecisionAlwaysCounts`, `ReviewsOneByOne`.
`TargetAlwaysActive` and `DecisionAlwaysCounts` are proved and not checked by a run.  The inductive invariant is a shape: of `n` items the first `k` are terminal, the next
one may be proposed, and the rest wait (`Loop(n, k)`).  The mirror and the summary are
then functions of `n` and `k`, and every step either keeps `k` or makes it `k + 1`.  The
other half (`Settled`) is what makes repetitions harmless: the fingerprint of what is
pending, and of a call that may be repeated, is the one that is remembered.

`CollectionLifecycle_proofs` proves, for any life cycles, items, guards and bounds,
`CollectionTypeCorrect` and the refinement `LifecycleIsABoard`.  Neither the gate nor the
mirror is looked at when items move, so the invariant says what each may claim: a flag is
up only on an item of an array whose status is terminal, the mirror claims nothing that
the statuses do not, and an open gate means that all items are terminal, where anything
computes it.

`Delegation_proofs` proves, for any validated programs and any number of documents:
`TypeCorrect`, `ChildrenHaveTheirDocuments` and the refinement `FanOutIsOneEach`.  What a
child runs on is decided where the field is written, at the upload, by transitions and by
the fan-out, and matters where the child is asked.  The invariant says what holds in
between: a stage behind the upload is reached with what was taken in, for good (`Taken`);
stages ahead have not been left, and their children have not been asked (`Reached`); at a
sliced stage that nothing disturbs, the field points at its document, and it points at
the first from the ingestion on until a transition says otherwise (`Taken`, `Pointed`;
`Apart` is the upload whose next stage has a child for another one); and the
fan-out, once it may be asked, has the current item at its index and an answer to each
item before it (`InOrder`).

`StageGates_proofs` proves every invariant of `StageGates`, for any reasoning stages with
their answers, later stages, drafts, states of a program and budgets.  What is hard is not the steps but
that two operators agree, one that makes something and one that judges it; so each
invariant reduces a reachable state to an equation between operators, and lemmas about
these do the rest.

* `StagesTypeCorrect`, by `Staged`: the contract is there before a body is asked for.
* `RepairAlwaysKeeps`, by `ContractInv`: the contract is the repaired answer exactly if that
  passes.  The lemmas say that a repair of the fields and then of the example leaves a
  contract that passes as it is, or, where the specification binds the fields, widens it.
* `ServedAlwaysFound`, by `DraftInv`: a draft that returned was judged by its inputs and
  output alone.  The rest compares, read by read, what the fixture holds with what the
  program serves.
* `ExportsAlwaysApproved`, by `PrintInv`: what is printed is what `Sections` makes of the
  state that was met.
* `OwnBodiesAlwaysHold`, by `BodyInv`: a body is accepted exactly if it may run, returns, has
  its inputs and holds, and one of the foundry's is `OwnBody`.  There is a lemma for each way
  (`Route`); that of the mechanical body shows that `Mechanizable` is exactly what its gate
  asks of the values and items it makes.
* `DerivedAlwaysHolds`, by `DerivedInv`: a derived contract was judged as it is.  The lemmas
  go through the judgement conjunct by conjunct.

Filtering a sequence is recursive in the community modules, so the operators take the
elements at a set of indices (`Chosen`): the k-th is the one with k - 1 indices below it.
`NthExists` shows by an injection of ranks that there is exactly one for each k, and
`ChosenIs` that nothing else is in the result; every lemma about usable names, sound fields and generic
fields rests on these two.  For the same reason two records of an item are merged by
`Over`, the provers not knowing `@@`, and the first that fits is the one with the least index.

The assumptions say of the constants what the code sees to.  `StageBounds`: budgets are numbers.
`ContractedAreTyped`, `StagesAreTyped`: a specification has distinct keys, as an object does, and
none without being given; an answer has fields and templates
of the form the parser leaves; an export is computed and a stage with a connector is an
adapter, because the classifier calls them so.  `ReadsAreTyped`: a read is of one of the four
forms that the fixture and the mirrors tell apart (`seedPriorStageOutputs`).  `DomainsAreTyped`: the texts of an item are texts, as
`stringField` skips everything else.  `OwnNamesAreFine` and `OwnTextsAreFine`: the names
and texts that the foundry's own bodies and contracts are made of, literals in the source, are not
among those that its checks refuse.

The same module speaks of an instance of `ProgramTopology`, for any set of intakes, and
proves all its action properties.

* `PlannedApart` is about the plan of an intake with any number of transitions: names are
  unique, and so are the guards of the transitions that leave one stage.  The plan is the last
  value of a recursive function, so both the function and what holds of its values are proved
  by a least counterexample (`PlansExist`, `PlanIsApart`).  `StepIsApart` is the step: the next
  transition is one that is left (`NextIsLeft`, a count), a name with a suffix is free
  (`FreeIsFree`, by the pigeonhole principle), and a guard of a branch is none of its siblings'
  (`GuardIsApart`, `NoBranchIsAlone`).
* `HubsHold`: a hub is left by its own actions only.  The invariant `HubIsFresh` is that in a
  hub no guard of a transition out of it is true: actions that enter it reset them, and an
  action that stays writes one guard, its own, which leads back.
* `OneBranchAlwaysOpens`, `RenderedAlwaysOnEntry`: an action that is taken finds its way open
  (`TakenIsOpen`), and what it writes besides its guard is a guard of no transition
  (`WrittenIsOwn`).

`IntakesAreTyped`: an intake has lists of stages and transitions, and a stage.
`GuardsArePlain`, which `HubsHold` does without: no guard that an intake names is a path that
actions write for another purpose, as `<stage>.result_json` or `<stage>.render_pending`.
Nothing in the code checks this.  TLC evaluates both on the topologies of the run
(`PlainIntakes`).

`DomainSynthesis_proofs` proves, for any sessions, stages, programs, contracts, services,
environments, budgets and truthful inherited files: `SynthesisTypeCorrect`,
`DiskAlwaysTellsTheTruth`, `ResultsAlwaysFit`, `ServicesAlwaysCalled`,
`DegradationAlwaysExplicit`, `RepairAlwaysOfThisStage`, `CallsAreAllOrNothing`.  Sessions
meet only on the disk, so the invariant is a statement about one call's record, its
program and the environment (`CallOK`), for each session, and one about files alone
(`DiskOK`).  `CallOK` says that what a call has filled so far already fits (`Stocked`),
that derived contracts have their reasons and are allowed (`Explained`), that contracts
are there when bodies are made (`Contracted`), that the repair is the attempt before
(`Told`), and that attempts are within the budget of their place (`Budgeted`, `Placed`).
A lemma for each group of actions shows that a step takes one record to another that
is `CallOK` and keeps files truthful; that the others are untouched is one argument
for all (`SetsOK`).

Only model-checked: liveness (`ApprovedPlanGraduates`, `QueueMoves`, `HandlersEnd`,
`ReviewEnds`, `CollectionCompletes`, `ParentEnds`, `SessionEnds`, `CallsEnd`, `JudgedUnlessItSpins`, the liveness of `OneVerdict`), which is out of the prover's
reach; `PassedMeansSound` and `DecisionFindsItsItem` where triggers are answered early, for
which they are false.  Every invariant that a run checks is stated by
a theorem.  The invariants `Guarded`, `Prompted` and `Sound` were checked by TLC on
the instances of the runs before they were proved.  `NoOpenExit` is
proved with `EarnedInOrder`, of which it is the strengthening, and has no run of its own.

## Not modelled

* The engine itself: its persistence, its LLM calls and its repair loop appear as
  rounds that fail.
* Texts: prompts, summaries, YAML, templates and generated sources.  Most of the
  synthesizer's 15,000 lines, the templates and the attach profile map text to text:
  what they emit is modelled where it is behaviour (the confirmation loop), not how.
* Inside the gates: the detector of governed constructs and the type check, whose answers
  are inputs; the values of samples; the notebooks and sections a template lays out.
* In generated programs: notebooks and hub sections (what a drive sees of them is in `LiveDrive`); the payload that a child is
  sent and what is harvested of its result, but for the document it ran on; the child
  programs the synthesizer renders, which appear as answers.
* Seeds of clients other than the CLI, which could set governed fields at will.
* `run_parallel_static_checks`, `run_api_blackbox_verification`, package commands
  and git status: they write fields no guard reads, and are `Observe`.
* `open_pull_request`: its mode is terminal, and a session ends on entering it.
* The REPL's prompt, spinner and wording, the check of the server at startup and the
  bytes of a bracketed paste.  Whether the server runs a trigger twice that the REPL
  sent twice is up to the engine.
* The command runner settles one promise on the first of two events and keeps no
  state; the CLI and the server bootstrap pick a port and poll for health; the gates
  of `gates.ts` mirror guards for tests only.

## Plan

1. `Ladder`, `Foundry`, `FoundryClaims`, `Foundry_proofs`: done.
2. `Repl`, `Turnstile`, `Repl_proofs`: done.
3. `DomainSynthesis`, `AllOrNothing`, `DomainSynthesis_proofs`: done; `StageContracts`,
   `StageBodies`, `StageGates`, `StageGates_proofs`: done.
4. `LiveDrive`, `DriveVerdicts`, `OneVerdict`, `LiveDrive_proofs`: done.
5. Generated programs: `ConfirmationLoop`, `OneByOne`, `ConfirmationLoop_proofs`: done;
   `Delegation`, `OneEach`, `Delegation_proofs`: done; `Topology`, `ProgramTopology`: done,
   with theorems (in `StageGates_proofs`); `CollectionLifecycle`, `StatusBoard`,
   `CollectionLifecycle_proofs`: done; the cross-checks of the emitted specification: open.
6. `ScaffoldWriter` (update mode, uniqueness of paths), `WiringManifest`
   (validation), `StatusParsing` (token table against a reference definition): open.
7. Theorems: every invariant of the runs and every action property of `ProgramTopology`: done.
   Open: theorems about the modules of 6, and a condition on an intake under which a
   program that the synthesizer does not refuse has a way from each stage to the final one.
