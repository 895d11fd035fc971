--------------------------- MODULE DomainSynthesis ---------------------------
(***************************************************************************)
(* Domain synthesis (domain-synthesis.ts, reasoning-contract.ts, the        *)
(* handler synthesize_domain_logic).  A call first gets a contract for each *)
(* reasoning stage and weaves the contracts into the specification, then    *)
(* gets a body for each stage, in order: from the cache directory, from a   *)
(* template, or from a model that is told what was wrong with its last      *)
(* body.  A body is accepted when it passes the gate of its stage.  The     *)
(* result reaches the session when every stage has one.                     *)
(*                                                                          *)
(* Sessions share the cache directory, and models take their time: calls    *)
(* interleave wherever one of them waits.  The process may crash.           *)
(*                                                                          *)
(* A body is its provenance: the gate it passed (stage, kind, contract,     *)
(* woven contracts, service) and whether it is the mechanical fallback.     *)
(***************************************************************************)
EXTENDS Naturals, FiniteSets

CONSTANTS
    Callers,            \* sessions of this process
    Size,               \* stages of a program, numbered in their order
    Programs,           \* what the synthesizer may put into the store
    Wishes,             \* [Callers -> the programs a session may ask for]
    Contracts,          \* what a stage may be asked to do
    Shape,              \* [Contracts -> what it says of reads and items, or None]
    Weaves,             \* contracts a model may author for reasoning stages
    Services,           \* the services behind an http integration
    Environments,       \* the environments a process may run in
    MaxAttempts,        \* options.maxAttempts
    MaxEscalations,     \* PGAS_SYNTH_ESCALATION_MAX_ATTEMPTS, 0 without a driver
    Declares,           \* does the specification of a program declare an arg_schema?
    Inherited,          \* body files of an earlier version of the foundry
    None, Fallback, Torn

Stages == 1 .. Size

\* reasoning: an author's stage; compute: a model writes the body; template:
\* exports, web navigation and persistence; http: an http_api of the target
\* repository; module: an integration of another kind.
Kinds == { "reasoning", "compute", "template", "http", "module" }

ASSUME ProgramsAssumption ==
    /\ Programs \subseteq [kind : [Stages -> Kinds], contract : [Stages -> Contracts], service : Services]
    /\ None \notin Programs /\ Wishes \in [Callers -> SUBSET Programs]
ASSUME EnvironmentsAssumption ==
    Environments \subseteq [provider : BOOLEAN, require : BOOLEAN, allow : BOOLEAN]
ASSUME AttemptsAssumption == MaxAttempts \in Nat \ { 0 } /\ MaxEscalations \in Nat /\ Size \in Nat
ASSUME ValuesAssumption ==
    /\ Declares \in BOOLEAN
    /\ None \notin Weaves /\ Fallback \notin Weaves /\ Torn \notin Weaves /\ None # Fallback

VARIABLES
    env,        \* the environment of this process
    program,    \* the artifact each session has in the store
    result,     \* the artifact with its bodies, None before
    call,       \* each session's call of synthesizeDomainLogic
    bodies,     \* body files in the cache directory
    contracts   \* contract files in the cache directory

vars == << env, program, result, call, bodies, contracts >>

\* What the prompts of a program say: everything but the service.
Prompt(p) == [kind |-> p.kind, contract |-> p.contract]
Prompts == { Prompt(p) : p \in Programs }

Woven == [Stages -> Weaves \cup { Fallback, None }]
Unwoven == [i \in Stages |-> None]

Body == [stage : Stages, kind : Kinds, contract : Contracts, woven : Woven,
         service : Services, fallback : BOOLEAN]
BodyKey == [stage : Stages, prompt : Prompts, woven : Woven, age : { "new", "old" }]
BodyFile == [key : BodyKey, body : Body]
TornFile == [key : BodyKey, body : { Torn }]

\* What a model is asked for a contract names its stage, what that stage is to do,
\* and which stages before it reason.
Question(p, i) == [stage |-> i, contract |-> p.contract[i],
                   after |-> { j \in 1 .. i - 1 : p.kind[j] = "reasoning" }]
Questions == [stage : Stages, contract : Contracts, after : SUBSET Stages]
ContractFile == [question : Questions, weave : Weaves \cup { Torn }]

\* How a body came into a result: accepted by the gate in this call, replayed
\* from the file of its key, or taken for alike.
Origins == { "accepted", "replayed", "alike" }
Filled == [body : Body, origin : Origins]
Sources == [Stages -> Filled \cup Weaves \cup { Fallback, None }]

\* What a call hands to the session, and nothing else is None.
Results == [program : Programs, woven : Woven, sources : Sources, reasons : SUBSET Stages,
            required : BOOLEAN]
ASSUME NoneAssumption == None \notin Filled \cup Results

Places == { "idle", "contract", "asking", "weaving", "stage", "generating", "escalating",
            "falling", "rendering", "rechecking" }
\* A body file tells the truth if its body passed the gate its key names.
Truthful(file) ==
    /\ file.body.stage = file.key.stage
    /\ file.body.kind = file.key.prompt.kind[file.key.stage]
    /\ file.body.contract = file.key.prompt.contract[file.key.stage]
    /\ file.body.woven = file.key.woven
ASSUME InheritedAssumption ==
    \A f \in Inherited : f \in BodyFile /\ f.key.age = "old" /\ Truthful(f)

NoRepair == [stage |-> 0, place |-> "idle", attempt |-> 0]

Idle == [pc |-> "idle", at |-> 1, attempt |-> 0, repair |-> NoRepair,
         woven |-> Unwoven, reasons |-> {}, sources |-> [i \in Stages |-> None],
         found |-> None]

Init ==
    /\ env \in Environments
    /\ program = [c \in Callers |-> None] /\ result = [c \in Callers |-> None]
    /\ call = [c \in Callers |-> Idle]
    /\ bodies \in SUBSET Inherited /\ contracts = {}

---------------------------------------------------------------------------
(* The session around the call.                                             *)

\* synthesize_program_spec: a new artifact replaces what was there.
Specify(c, p) ==
    /\ call[c].pc = "idle"
    /\ program' = [program EXCEPT ![c] = p] /\ result' = [result EXCEPT ![c] = None]
    /\ call' = [call EXCEPT ![c] = Idle]
    /\ UNCHANGED << env, bodies, contracts >>

\* What a call does to its own state; one that throws leaves the session what it had.
Sets(c, r) == call' = [call EXCEPT ![c] = r] /\ UNCHANGED << env, program, result >>
Fails(c) == Sets(c, Idle) /\ UNCHANGED << bodies, contracts >>

\* Where the pass over the reasoning stages goes from stage i on.
Ahead(p, i) == { j \in i .. Size : p.kind[j] = "reasoning" }
ToContract(r, p, i) ==
    IF Ahead(p, i) = {}
    THEN [r EXCEPT !.pc = "weaving", !.at = 1, !.attempt = 0, !.repair = NoRepair]
    ELSE [r EXCEPT !.pc = "contract", !.attempt = 0, !.repair = NoRepair,
                   !.at = CHOOSE j \in Ahead(p, i) : \A k \in Ahead(p, i) : j <= k]

Start(c) ==
    /\ call[c].pc = "idle" /\ program[c] # None
    /\ Sets(c, ToContract(Idle, program[c], 1))
    /\ UNCHANGED << bodies, contracts >>

---------------------------------------------------------------------------
(* Contracts of reasoning stages.                                           *)

At(c, place) == call[c].pc = place

\* The contract of the current stage is known, and on goes the pass.
Weave(c, w, reasons) ==
    Sets(c, ToContract([call[c] EXCEPT !.woven = [@ EXCEPT ![call[c].at] = w],
                                       !.reasons = @ \cup reasons],
                       program[c], call[c].at + 1))

ContractFiles(c) == { f \in contracts : f.question = Question(program[c], call[c].at) }

\* A record that cannot be read, or does not hold, is no record.
FindContract(c) ==
    /\ At(c, "contract")
    /\ \E f \in ContractFiles(c) : f.weave # Torn /\ Weave(c, f.weave, {})
    /\ UNCHANGED << bodies, contracts >>

Missing(c) == At(c, "contract") /\ \A f \in ContractFiles(c) : f.weave = Torn

AskForContract(c) ==
    /\ Missing(c) /\ env.provider
    /\ Sets(c, [call[c] EXCEPT !.pc = "asking", !.attempt = 1])
    /\ UNCHANGED << bodies, contracts >>

\* Without a provider the fallback contract is derived, unless an author is required.
DeriveContract(c) ==
    /\ Missing(c) /\ ~env.provider /\ ~env.require
    /\ Weave(c, Fallback, { call[c].at })
    /\ UNCHANGED << bodies, contracts >>

Unconfigured(c) ==
    /\ Missing(c) /\ ~env.provider /\ env.require
    /\ Fails(c)

\* The file of a contract is named by the question; a later one overwrites it.
KeepContract(c, w) ==
    contracts' = (contracts \ ContractFiles(c))
                 \cup { [question |-> Question(program[c], call[c].at), weave |-> w] }

ContractAnswered(c, w) ==
    /\ At(c, "asking")
    /\ Weave(c, w, {}) /\ KeepContract(c, w)
    /\ UNCHANGED bodies

ThisAttempt(c) == [stage |-> call[c].at, place |-> call[c].pc, attempt |-> call[c].attempt]

AskContractAgain(c) ==
    /\ At(c, "asking") /\ call[c].attempt < MaxAttempts
    /\ Sets(c, [call[c] EXCEPT !.attempt = @ + 1, !.repair = ThisAttempt(c)])
    /\ UNCHANGED << bodies, contracts >>

\* Mutant of FallBackToContract: the fallback is cached like an authored contract.
FallBackAndKeep(c) ==
    /\ At(c, "asking") /\ call[c].attempt = MaxAttempts
    /\ ~env.require /\ env.allow
    /\ Weave(c, Fallback, { call[c].at }) /\ KeepContract(c, Fallback)
    /\ UNCHANGED bodies

FallBackToContract(c) ==
    /\ At(c, "asking") /\ call[c].attempt = MaxAttempts
    /\ ~env.require /\ env.allow
    /\ Weave(c, Fallback, { call[c].at })
    /\ UNCHANGED << bodies, contracts >>

NoContract(c) ==
    /\ At(c, "asking") /\ call[c].attempt = MaxAttempts
    /\ env.require \/ ~env.allow
    /\ Fails(c)

\* The derived contract is held to what is asked of an author's, and may fall short of it.
DerivedRefused(c) ==
    /\ ~env.require
    /\ \/ Missing(c) /\ ~env.provider
       \/ At(c, "asking") /\ call[c].attempt = MaxAttempts /\ env.allow
    /\ Fails(c)

\* The specification is synthesized again with its contracts, if it has any.
WeaveSpec(c) ==
    /\ At(c, "weaving")
    /\ \/ Sets(c, [call[c] EXCEPT !.pc = "stage"]) /\ UNCHANGED << bodies, contracts >>
       \/ Ahead(program[c], 1) # {} /\ Fails(c)

---------------------------------------------------------------------------
(* The cache of bodies.                                                     *)

Kind(c) == program[c].kind[call[c].at]
Contract(c) == program[c].contract[call[c].at]
Key(c, age) == [stage |-> call[c].at, prompt |-> Prompt(program[c]), woven |-> call[c].woven, age |-> age]
FilesOf(key) == { f \in bodies : f.key = key }

\* What two contracts say of reads and items, where both say something.
Matches(a, b) == Shape[a] = None \/ Shape[b] = None \/ Shape[a] = Shape[b]

\* The lookup: the file of the key; else a file from before a change of wording; else, as every
\* specification with an arg_schema could be such a change, any body of a stage of
\* this name that looks alike, the fallback bodies last.
Named(c) == IF FilesOf(Key(c, "new")) # {} THEN FilesOf(Key(c, "new")) ELSE FilesOf(Key(c, "old"))

\* Mutant of Alike: the name of the stage is enough.
AlikeByName(c) == { f \in bodies : f.body # Torn /\ f.body.stage = call[c].at }

Alike(c) == { f \in bodies : f.body # Torn /\ f.body.stage = call[c].at
                                           /\ Matches(f.body.contract, Contract(c)) }
Preferred(files) == { f \in files : f.body.fallback => \A g \in files : g.body.fallback }
Hits(c) ==
    IF Named(c) # {} THEN [f : Named(c), origin : { "replayed" }]
    ELSE IF Declares THEN [f : Preferred(Alike(c)), origin : { "alike" }]
    ELSE {}

\* JSON.parse is not guarded here; the search reads every file of the directory.
Unreadable(c) ==
    IF Named(c) # {} THEN \E f \in Named(c) : f.body = Torn
    ELSE Declares /\ (\/ \E f \in bodies : f.body = Torn
                      \/ \E f \in contracts : f.weave = Torn)

Looks(c) == At(c, "stage") /\ call[c].at <= Size /\ Kind(c) \in { "compute", "http", "module" }

\* Mutant of FillWith: the last error is not reset for the next stage.
FillKeepingError(c, source) ==
    Sets(c, [call[c] EXCEPT !.pc = "stage", !.at = @ + 1, !.attempt = 0, !.found = None, !.sources = [@ EXCEPT ![call[c].at] = source]])

\* The stage has its body; the next one follows.
FillWith(c, source) ==
    Sets(c, [call[c] EXCEPT !.pc = "stage", !.at = @ + 1, !.attempt = 0, !.repair = NoRepair,
                            !.found = None, !.sources = [@ EXCEPT ![call[c].at] = source]])

\* An accepted body is filed under its key, over whatever is there.
Keep(c, content) ==
    bodies' = (bodies \ FilesOf(Key(c, "new"))) \cup { [key |-> Key(c, "new"), body |-> content] }

\* Reading cannot fail softly: the call ends.
CannotRead(c) == Looks(c) /\ Unreadable(c) /\ Fails(c)

\* Mutant of Replay: what is found for a stage is filed under its new key.
ReplayAndKeep(c) ==
    /\ Looks(c) /\ ~Unreadable(c) /\ Kind(c) # "http"
    /\ \E h \in Hits(c) :
          FillWith(c, [body |-> h.f.body, origin |-> h.origin]) /\ Keep(c, h.f.body)
    /\ UNCHANGED contracts

Replay(c) ==
    /\ Looks(c) /\ ~Unreadable(c) /\ Kind(c) # "http"
    /\ \E h \in Hits(c) : FillWith(c, [body |-> h.f.body, origin |-> h.origin])
    /\ UNCHANGED << bodies, contracts >>

\* The governance gate of this version may refuse what an earlier one accepted.
ReplayRefused(c) ==
    /\ Looks(c) /\ ~Unreadable(c) /\ Kind(c) # "http" /\ Hits(c) # {}
    /\ Fails(c)

\* A cached body that talks to a service is run against it again.
Recheck(c) ==
    /\ Looks(c) /\ ~Unreadable(c) /\ Kind(c) = "http"
    /\ \E h \in Hits(c) :
          Sets(c, [call[c] EXCEPT !.pc = "rechecking",
                                  !.found = [body |-> h.f.body, origin |-> h.origin]])
    /\ UNCHANGED << bodies, contracts >>

\* Mutant of RecheckPasses: a service that answers will do.
RecheckAnswers(c) ==
    /\ At(c, "rechecking")
    /\ FillWith(c, call[c].found)
    /\ UNCHANGED << bodies, contracts >>

RecheckPasses(c) ==
    /\ At(c, "rechecking")
    /\ call[c].found.body.kind = "http" /\ call[c].found.body.service = program[c].service
    /\ FillWith(c, call[c].found)
    /\ UNCHANGED << bodies, contracts >>

\* It does not fit any more, or the service is down: the file stays.
RecheckFails(c) == At(c, "rechecking") /\ Fails(c)

---------------------------------------------------------------------------
(* Generating, verifying and repairing.                                     *)

Generate(c) ==
    /\ Looks(c) /\ ~Unreadable(c) /\ Hits(c) = {} /\ Kind(c) = "compute"
    /\ Sets(c, [call[c] EXCEPT !.pc = "generating", !.attempt = 1])
    /\ UNCHANGED << bodies, contracts >>

\* Templates are neither looked up nor repaired.
Render(c) ==
    /\ \/ Looks(c) /\ ~Unreadable(c) /\ Hits(c) = {} /\ Kind(c) \in { "http", "module" }
       \/ At(c, "stage") /\ call[c].at <= Size /\ Kind(c) = "template"
    /\ Sets(c, [call[c] EXCEPT !.pc = "rendering", !.attempt = 1])
    /\ UNCHANGED << bodies, contracts >>

Judging(c) == call[c].pc \in { "generating", "escalating", "falling", "rendering" }

Verified(c) ==
    [stage |-> call[c].at, kind |-> Kind(c), contract |-> Contract(c), woven |-> call[c].woven,
     service |-> program[c].service, fallback |-> At(c, "falling")]

\* The gate runs an integration only if it is an http_api.
BodyPasses(c) ==
    /\ Judging(c) /\ Kind(c) # "module"
    /\ FillWith(c, [body |-> Verified(c), origin |-> "accepted"])
    /\ Keep(c, Verified(c))
    /\ UNCHANGED contracts

\* A construct the governance gate refuses ends the call; there is no repair.
BodyRefused(c) == Judging(c) /\ Fails(c)

\* The model threw, or its body was stubbed, unsafe, not a stage, ill-typed or wrong.
GenerateAgain(c) ==
    /\ At(c, "generating") /\ call[c].attempt < MaxAttempts
    /\ Sets(c, [call[c] EXCEPT !.attempt = @ + 1, !.repair = ThisAttempt(c)])
    /\ UNCHANGED << bodies, contracts >>

\* Mutant of EscalateAgain: after the second model the first has another go.
EscalateBack(c) ==
    /\ At(c, "escalating") /\ call[c].attempt < MaxEscalations
    /\ Sets(c, [call[c] EXCEPT !.pc = "generating", !.attempt = 1, !.repair = ThisAttempt(c)])
    /\ UNCHANGED << bodies, contracts >>

EscalateAgain(c) ==
    /\ At(c, "escalating") /\ call[c].attempt < MaxEscalations
    /\ Sets(c, [call[c] EXCEPT !.attempt = @ + 1, !.repair = ThisAttempt(c)])
    /\ UNCHANGED << bodies, contracts >>

Escalate(c) ==
    /\ At(c, "generating") /\ call[c].attempt = MaxAttempts /\ MaxEscalations > 0
    /\ Sets(c, [call[c] EXCEPT !.pc = "escalating", !.attempt = 1, !.repair = ThisAttempt(c)])
    /\ UNCHANGED << bodies, contracts >>

\* The mechanical body is judged by the same gate.
FallBack(c) ==
    /\ \/ At(c, "generating") /\ call[c].attempt = MaxAttempts /\ MaxEscalations = 0
       \/ At(c, "escalating") /\ call[c].attempt = MaxEscalations
    /\ Sets(c, [call[c] EXCEPT !.pc = "falling"])
    /\ UNCHANGED << bodies, contracts >>

Exhausted(c) == call[c].pc \in { "falling", "rendering" } /\ Fails(c)

---------------------------------------------------------------------------
(* The end of a call, and of the process.                                   *)

\* A reasoning stage needs no body but a module that records its contract.
Record(c) ==
    /\ At(c, "stage") /\ call[c].at <= Size /\ Kind(c) = "reasoning"
    /\ FillWith(c, call[c].woven[call[c].at])
    /\ UNCHANGED << bodies, contracts >>

Result(c) == [program |-> program[c], woven |-> call[c].woven, sources |-> call[c].sources,
              reasons |-> call[c].reasons, required |-> env.require]

\* Mutant of Publish: the last stage is missing.
PublishEarly(c) ==
    /\ At(c, "stage") /\ call[c].at >= Size
    /\ result' = [result EXCEPT ![c] = Result(c)]
    /\ call' = [call EXCEPT ![c] = Idle]
    /\ UNCHANGED << env, program, bodies, contracts >>

\* The artifact goes back to the store, which still holds the one it was made from.
Publish(c) ==
    /\ At(c, "stage") /\ call[c].at = Size + 1
    /\ result' = [result EXCEPT ![c] = Result(c)]
    /\ call' = [call EXCEPT ![c] = Idle]
    /\ UNCHANGED << env, program, bodies, contracts >>

\* The process dies, perhaps in the middle of a write, and another is started.
ForgetAll ==
    /\ env' \in Environments
    /\ program' = [c \in Callers |-> None] /\ result' = [c \in Callers |-> None]
    /\ call' = [c \in Callers |-> Idle]

Crash == ForgetAll /\ UNCHANGED << bodies, contracts >>
CrashInBody(c) == Judging(c) /\ Kind(c) # "module" /\ ForgetAll /\ Keep(c, Torn) /\ UNCHANGED contracts
CrashInContract(c) == At(c, "asking") /\ ForgetAll /\ KeepContract(c, Torn) /\ UNCHANGED bodies

---------------------------------------------------------------------------
Contracting(c) ==
    \/ FindContract(c) \/ AskForContract(c) \/ DeriveContract(c) \/ Unconfigured(c)
    \/ (\E w \in Weaves : ContractAnswered(c, w))
    \/ AskContractAgain(c) \/ FallBackToContract(c) \/ NoContract(c) \/ DerivedRefused(c)
    \/ WeaveSpec(c)

Finding(c) ==
    \/ CannotRead(c) \/ Replay(c) \/ ReplayRefused(c)
    \/ Recheck(c) \/ RecheckPasses(c) \/ RecheckFails(c)

Generating(c) ==
    \/ Generate(c) \/ Render(c) \/ BodyPasses(c) \/ BodyRefused(c)
    \/ GenerateAgain(c) \/ EscalateAgain(c) \/ Escalate(c) \/ FallBack(c) \/ Exhausted(c)

Moves(c) == Contracting(c) \/ Finding(c) \/ Generating(c) \/ Record(c) \/ Publish(c)

\* One thread: what follows an answer runs up to the next await.
Running == { c \in Callers : call[c].pc \in { "contract", "weaving", "stage" } }
Goes(c) == Running \subseteq { c } /\ Moves(c)

Next ==
    \/ \E c \in Callers :
        \/ Running = {} /\ \E p \in Wishes[c] : Specify(c, p)
        \/ Running = {} /\ Start(c)
        \/ Goes(c)
        \/ CrashInBody(c) \/ CrashInContract(c)
    \/ Crash

Spec == Init /\ [][Next]_vars

\* Models and services answer, or their calls time out, bodies under test give way, and
\* the event loop gets to every answer, though it is busy with others again and again.
LiveSpec == Spec /\ \A c \in Callers : SF_vars(Goes(c))

---------------------------------------------------------------------------
(* Properties.                                                              *)

\* Every variable holds a value of its kind.
TypeOK ==
    /\ env \in Environments
    /\ program \in [Callers -> Programs \cup { None }]
    /\ result \in [Callers -> Results \cup { None }]
    /\ bodies \subseteq BodyFile \cup TornFile
    /\ contracts \subseteq ContractFile
    /\ \A c \in Callers :
        /\ call[c].pc \in Places
        /\ call[c].at \in 1 .. Size + 1 /\ call[c].attempt \in Nat
        /\ call[c].attempt <= MaxAttempts \/ call[c].attempt <= MaxEscalations
        /\ call[c].woven \in Woven /\ call[c].reasons \subseteq Stages
        /\ call[c].sources \in Sources
        /\ call[c].found \in Filled \cup { None }

\* Files outlive the calls and processes that wrote them, and are read under other
\* programs than they were written for: a body is filed under what it was verified
\* for, and nothing else, ever.
DiskTellsTheTruth == \A f \in bodies : f.body # Torn => Truthful(f)

\* A result is complete, its reasoning stages record the contracts that are woven
\* into it, and every other body has passed the gate of its own stage, under the
\* contract of this program and with these contracts woven in; unless it was taken
\* for alike, when its contract at least reads and produces the same.
Fits(p, woven, i, source) ==
    IF p.kind[i] = "reasoning" THEN source = woven[i] /\ source # None
    ELSE /\ source # None /\ source.body.stage = i
         /\ IF source.origin = "alike" THEN Matches(source.body.contract, p.contract[i])
            ELSE /\ source.body.kind = p.kind[i] /\ source.body.contract = p.contract[i]
                 /\ source.body.woven = woven
ResultFits ==
    \A c \in Callers : result[c] # None =>
        \A i \in Stages : Fits(result[c].program, result[c].woven, i, result[c].sources[i])

\* A body that talks to a service has talked to the service of this program, however
\* old it is.
ServicesWereCalled ==
    \A c \in Callers : result[c] # None =>
        \A i \in Stages : result[c].program.kind[i] = "http" =>
            /\ result[c].sources[i].body.kind = "http"
            /\ result[c].sources[i].body.service = result[c].program.service

\* A derived contract is never silent: a result that has one gives its reason, and
\* where an author's contract is required there is none, whatever earlier calls left.
DegradationIsExplicit ==
    \A c \in Callers : result[c] # None =>
        \A i \in Stages : result[c].woven[i] = Fallback => i \in result[c].reasons /\ ~result[c].required

\* What a model is told to repair is its last attempt at this very stage, or, for
\* the second model, the last attempt of the first.
RepairIsOfThisStage ==
    \A c \in Callers : call[c].pc \in { "asking", "generating", "escalating" } =>
        \/ /\ call[c].pc # "escalating" /\ call[c].attempt = 1 /\ call[c].repair = NoRepair
        \/ /\ call[c].attempt > 1
           /\ call[c].repair = [stage |-> call[c].at, place |-> call[c].pc, attempt |-> call[c].attempt - 1]
        \/ /\ call[c].pc = "escalating" /\ call[c].attempt = 1
           /\ call[c].repair = [stage |-> call[c].at, place |-> "generating", attempt |-> MaxAttempts]

\* For each session, a call fills the stages of its program in order and publishes
\* all of them or none, whatever the others do.
Published(c) == IF result[c] = None THEN None ELSE result[c].program
Filling(c) == INSTANCE AllOrNothing WITH
    Nothing <- None,
    wanted <- program[c],
    filled <- IF call[c].pc \in { "idle", "contract", "asking", "weaving" } THEN 0 ELSE call[c].at - 1,
    published <- Published(c)
ImplementsAllOrNothing ==
    /\ \A c \in Callers : Filling(c)!Init
    /\ [][\A c \in Callers : [Filling(c)!Next]_(Filling(c)!vars)]_vars

\* Budgets bound every loop: a call ends.
CallsEnd == \A c \in Callers : (call[c].pc # "idle") ~> (call[c].pc = "idle")
=============================================================================
