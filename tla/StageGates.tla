----------------------------- MODULE StageGates -----------------------------
(***************************************************************************)
(* How the body of a deterministic stage is judged (domain-synthesis.ts).   *)
(*                                                                          *)
(* A reasoning stage, extract_leads, gets a contract: an author is asked,   *)
(* its answer repaired and judged, and when it has no more attempts the     *)
(* contract is derived.  A later stage then gets a body: drafts of a model  *)
(* and at last a mechanical body, or the one body that the kind of the      *)
(* stage has.  The text of a body is looked at, and it is run once on a     *)
(* fixture that is made of what the stage says it reads.  The body of an    *)
(* export is followed into the generated program.                           *)
(***************************************************************************)
EXTENDS StageBodies

CONSTANTS
    Contracted,   \* what the reasoning stage may be: its spec, tails and answers
    Stages,       \* what the later stage may be
    Domains,      \* states of the program in which an export may run
    MaxAnswers,   \* answers of the author: a bound, the code's default is 4
    MaxDrafts     \* drafts of the model: a bound, the code's default is 3

ASSUME StageBounds == MaxAnswers \in Nat /\ MaxDrafts \in Nat

\* The keys of a specification are those of an object.
IsSpec(spec) ==
    /\ DOMAIN spec = DOMAIN NoSpec
    /\ { spec.given, spec.shaped, spec.fee, spec.parameters } \subseteq BOOLEAN
    /\ spec.keys \in Seq(STRING) /\ IsInjective(spec.keys)
    /\ spec.templates \in Seq(Template)
    /\ ~ spec.given => ~ spec.shaped /\ spec.templates = << >>

ASSUME ContractedAreTyped ==
    \A p \in Contracted : IsSpec(p.spec) /\ \A a \in p.answers : IsContract(a)

\* What exports is computed, and what needs a connector of the host is an adapter (stage-classifier.ts).
IsStage(s) ==
    /\ IsSpec(s.spec)
    /\ s.archetype \in { "pure-compute", "external-adapter" }
    /\ s.export \in { "none", "docx", "html", "pdf" } /\ s.connector \in { "none", "web", "persistence" }
    /\ s.repo \in { "none", "http", "module" } /\ s.existing \in BOOLEAN
    /\ s.title \in { "plain", "marked" } /\ s.base \in { "unset", "remote", "local" } /\ s.reply \in { "ok", "failed", "silent" }
    /\ s.export # "none" => s.archetype = "pure-compute"
    /\ s.export = "none" /\ s.connector # "none" => s.archetype = "external-adapter"

ASSUME StagesAreTyped == \A s \in Stages : IsStage(s)

\* The texts of an item are texts.
ASSUME DomainsAreTyped ==
    \A d \in Domains : \A i \in DOMAIN d.items : \A n \in DOMAIN BodyFields :
        LET record == ItemRecord(d.items[i]) IN
        BodyFields[n] \in DOMAIN record => record[BodyFields[n]] \in { "prose", "empty" }

VARIABLES
    prior,      \* the reasoning stage
    asked,      \* answers used
    raw,        \* the last answer
    contract,   \* its contract
    source,     \* who made the contract
    at,         \* how far the synthesis is
    stage,      \* the stage that gets a body
    left,       \* drafts left
    writer,     \* who wrote the body that is judged
    body,       \* the body that is judged
    verdict,    \* what became of it
    met,        \* the state that the export met
    exported    \* what it printed

vars == << prior, asked, raw, contract, source, at, stage, left, writer, body, verdict, met, exported >>

NoContract ==
    [object |-> FALSE, prompt |-> "short", listed |-> FALSE, extras |-> FALSE, fields |-> << >>,
     described |-> FALSE, templates |-> << >>, example |-> FALSE, result |-> << >>, items |-> << >>]
NoStage == [export |-> "none"]
NoState == [items |-> << >>, paths |-> {}]
---------------------------------------------------------------------------
(* Which way a stage goes.                                                  *)

Route(s) ==
    CASE s.export # "none" -> s.export
      [] s.export = "none" /\ s.connector # "none" -> s.connector
      [] s.export = "none" /\ s.connector = "none" ->
            IF s.archetype = "external-adapter" /\ s.existing /\ s.repo # "none" THEN s.repo ELSE "plain"

\* What an export returns is written over what its specification says of it.
SpecOf(s) ==
    LET own == Export(s.export, {}, [items |-> << >>, paths |-> {}]).out
        out == IF s.export = "pdf" THEN Report([host |-> "none", titled |-> TRUE, sources |-> << >>, leads |-> << >>,
                                                aggregate_audit |-> << >>, work_audit |-> << >>]).out
               ELSE own
    IN IF s.export = "none" \/ ~ s.spec.given THEN s.spec
       ELSE [s.spec EXCEPT !.shaped = TRUE, !.keys = out.keys,
                           !.templates = << [anchor |-> out.items[1].anchor, slot |-> "sha256"] >>]

---------------------------------------------------------------------------
(* The text of a body.                                                      *)

\* Words in a text, and what is let through on which way.
StubWords(archetype) ==
    { "todo", "stub", "placeholder" } \cup (IF archetype = "external-adapter" THEN {} ELSE { "swap" })
Unsafe == { "import", "eval", "require", "dynamic_import", "new_function", "fetch", "env" }
Granted(route) ==
    CASE route = "plain" -> {}
      [] route = "http" -> { "fetch", "env" }
      [] OTHER -> { "import" }
Malformed(route) ==
    { "unexported", "broken" } \cup (IF route \in { "http", "module" } THEN {} ELSE { "untyped" })

\* A text that is refused for another reason first is not fatal.
TextVerdict(b, s) ==
    CASE b.says \cap (StubWords(s.archetype) \cup (Unsafe \ Granted(Route(s)))) # {} -> "refused"
      [] OTHER -> IF "governed" \in b.says THEN "fatal"
                  ELSE IF b.says \cap Malformed(Route(s)) # {} THEN "refused" ELSE "runs"

\* What is looked at before a body is run.
MayRun(b, s) ==
    /\ TextVerdict(b, s) = "runs"
    /\ Route(s) # "module"
    /\ Route(s) = "http" => s.base = "local"
    /\ Route(s) \in { "web", "persistence" } => s.archetype = "external-adapter"

---------------------------------------------------------------------------
(* The fixture.  A read is of a stage, in one of the forms of its output,   *)
(* of one field or of all.                                                  *)

Reasoned == "extract_leads"
Flat == { "result_json", "items_json", "result" }

ASSUME ReadsAreTyped ==
    \A s \in Stages : \A r \in s.spec.reads :
        r.of \notin { "inputs", "domain_spec" } => r.form \in Flat \cup { "output" }

\* For a mutant: the flat copies of a result are forgotten.
SeededWithoutCopies(r, reads, c) ==
    /\ \E q \in reads : q.of = Reasoned /\ (q.form = "output" <=> r.form = "output")
    /\ r.field \in { "all" } \cup DOMAIN c.result /\ r.form # "result"

\* The output of a reasoning stage is its example, once any read names it.
SeededByExample(r, reads, c) ==
    /\ \E q \in reads : q.of = Reasoned /\ (q.form = "output" <=> r.form = "output")
    /\ r.field \in { "all" } \cup DOMAIN c.result \/ (r.form = "output" /\ r \in reads)
    /\ r.form = "result" => r.field \in ToSet(Names(c.fields))

\* That of another stage is made up field by field, as the reads name them.
SeededBySample(r, reads) ==
    LET named == { q \in reads : q.of = r.of /\ q.form = "result_json" /\ q.field # "all" } IN
    CASE r.form = "output" -> \E q \in reads : q.of = r.of /\ q.form = "output" /\ r.field \in { "all", q.field }
      [] r.form = "result_json" -> IF r.field = "all" THEN named # {} ELSE r \in named
      [] r.form = "items_json" -> named # {}
      [] OTHER -> FALSE

Seeded(r, reads, c) ==
    CASE r.of = Reasoned -> SeededByExample(r, reads, c)
      [] r.of = "inputs" -> TRUE
      [] r.of = "domain_spec" -> FALSE
      [] OTHER -> SeededBySample(r, reads)

\* The leads that the fixture holds.
LeadsIn(reads, c) ==
    LET leads(form) == [of |-> Reasoned, form |-> form, field |-> "leads"]
        there == \/ SeededByExample(leads("result_json"), reads, c)
                 \/ SeededByExample(leads("output"), reads, c) /\ leads("output") \notin reads
    IN CASE there /\ c.result["leads"] = "records" -> 1
         [] there /\ c.result["leads"] = "more_records" -> 2
         [] OTHER -> 0

Page == [url |-> "team", domains |-> { "example.com" }]
WebFixture ==
    [host |-> "runtime", described |-> TRUE, guard |-> { "fallback.test" },
     sources |-> [source |-> [url |-> "fallback", domains |-> {}], current_source |-> Page]]
StoreFixture == [host |-> "runtime", entity |-> "lead", keyed |-> TRUE, places |-> << << >>, << "a", "a", "b" >> >>]
ReportFixture ==
    [host |-> "runtime", titled |-> TRUE, sources |-> << [sound |-> TRUE] >>, leads |-> << "a" >>,
     aggregate_audit |-> << [sound |-> TRUE] >>, work_audit |-> << >>]
ExportFixture == [items |-> << >>, paths |-> { "output", "other" }]

---------------------------------------------------------------------------
(* The run of a body.                                                       *)

Amounts == { "hours_total", "hourly_total", "fixed_quote", "capped_quote", "blended_rate", "retainer_quote" }

KeysHold(out, spec) ==
    /\ spec.shaped => out.keys = spec.keys
    /\ ~ spec.shaped \/ "stage" \in ToSet(spec.keys) => "stage" \in ToSet(out.keys) /\ out.value["stage"] = "own"

FeesHold(out, spec) ==
    spec.fee /\ spec.shaped =>
        /\ \A k \in Amounts \cap ToSet(spec.keys) : out.value[k] = "positive"
        /\ spec.parameters /\ "parameters_json" \in ToSet(spec.keys) => out.value["parameters_json"] = "parameters"

ItemsHold(out, spec) ==
    /\ out.items # << >>
    /\ spec.templates # << >> => /\ Len(out.items) = Len(spec.templates)
                                 /\ \A i \in DOMAIN out.items : Matches(out.items[i], spec.templates[i])

OutputHolds(out, s, adapter) ==
    /\ out.shape = "fine"
    /\ KeysHold(out, SpecOf(s)) /\ FeesHold(out, SpecOf(s)) /\ ItemsHold(out, SpecOf(s))
    /\ s.archetype = "external-adapter" => out.adapter = adapter

NavigationHolds(out) ==
    /\ out.adapter = "mock" /\ out.keys = << "items", "pages_visited", "audit" >> /\ out.items # << >>
    /\ out.calls = << [url |-> "team", domains |-> { "example.com" }] >>

PersistenceHolds(out) ==
    /\ out.adapter = "mock" /\ out.keys = << "inserted", "updated", "new_vs_existing" >>
    /\ Len(out.items) = 3 /\ Len(out.calls) = 1
    /\ out.calls[1] = [method |-> "upsert_lead", records |-> << "a", "a", "b" >>]
    /\ Upserted(out.calls[1].records, { "a" }) = [inserted |-> 1, updated |-> 1]

ReportHolds(out) ==
    /\ Len(out.calls) = 1 /\ out.calls[1].titled
    /\ Cardinality(out.calls[1].sources) = 1 /\ Len(out.calls[1].leads) = 1 /\ out.calls[1].audit # {}

Holds(out, s) ==
    CASE Route(s) = "plain" -> OutputHolds(out, s, "mock")
      [] Route(s) = "http" -> OutputHolds(out, s, "repo") /\ "result" \in ToSet(out.keys)
      [] Route(s) \in { "docx", "html" } -> OutputHolds(out, s, "mock") /\ out.sections > 0
      [] Route(s) = "pdf" -> OutputHolds(out, s, "mock") /\ out.sections > 0 /\ ReportHolds(out)
      [] Route(s) = "web" -> NavigationHolds(out)
      [] Route(s) = "persistence" -> PersistenceHolds(out)
      [] OTHER -> FALSE

\* The body of each kind of stage; a title or a name may contain a stub marker.
OwnBody(s, c) ==
    LET text == IF s.title = "marked" THEN { "stub" } ELSE {} IN
    CASE Route(s) = "plain" -> Mechanical(s.spec, s.archetype, LeadsIn(s.spec.reads, c))
      [] Route(s) = "http" -> CallHttp(text, s.reply)
      [] Route(s) = "module" -> CallModule(text)
      [] Route(s) \in { "docx", "html" } -> Export(s.export, text, ExportFixture)
      [] Route(s) = "pdf" -> Report(ReportFixture)
      [] Route(s) = "web" -> Navigate(WebFixture)
      [] Route(s) = "persistence" -> Persist(StoreFixture)

---------------------------------------------------------------------------
Init ==
    /\ prior \in Contracted
    /\ asked = 0 /\ raw = NoContract /\ contract = NoContract /\ source = "none"
    /\ at = "contract"
    /\ stage = NoStage /\ left = 0 /\ writer = "none" /\ body = NoBody /\ verdict = "none"
    /\ met = NoState /\ exported = {}

\* An answer that is not an object is refused as it is; any other is repaired first.
Answer(a) ==
    LET fixed == Repaired(a, prior.spec, prior.tails)
        sound == a.object /\ SoundContract(fixed, prior.spec, prior.tails)
    IN /\ at = "contract" /\ asked < MaxAnswers
       /\ asked' = asked + 1
       /\ raw' = a
       /\ contract' = IF sound THEN fixed ELSE contract
       /\ source' = IF sound THEN "author" ELSE source
       /\ at' = IF sound THEN "turn" ELSE at
       /\ UNCHANGED << prior, stage, left, writer, body, verdict, met, exported >>

\* The author cannot be reached.
NoAnswer ==
    /\ at = "contract" /\ asked < MaxAnswers
    /\ asked' = asked + 1
    /\ raw' = NoContract
    /\ UNCHANGED << prior, contract, source, at, stage, left, writer, body, verdict, met, exported >>

\* Nobody to ask, or no attempts left: the derived contract is judged as it is.
Derive ==
    LET derived == Derived(prior.spec, prior.tails) IN
    /\ at = "contract" /\ asked \in { 0, MaxAnswers }
    /\ source' = "derived"
    /\ IF SoundContract(derived, prior.spec, prior.tails)
       THEN contract' = derived /\ at' = "turn"
       ELSE contract' = contract /\ at' = "stuck"
    /\ UNCHANGED << prior, asked, raw, stage, left, writer, body, verdict, met, exported >>

\* Attempts are used up and the fallback is not allowed.
GiveUp ==
    /\ at = "contract" /\ asked \in { 0, MaxAnswers }
    /\ at' = "stuck"
    /\ UNCHANGED << prior, asked, raw, contract, source, stage, left, writer, body, verdict, met, exported >>

Turn(s) ==
    /\ at = "turn"
    /\ at' = "draft"
    /\ stage' = s
    /\ left' = IF Route(s) = "plain" THEN MaxDrafts ELSE 0
    /\ UNCHANGED << prior, asked, raw, contract, source, writer, body, verdict, met, exported >>

\* A body is looked at, and run when nothing is wrong with its text.
Try(b, by) ==
    /\ body' = b
    /\ writer' = by
    /\ at' = IF MayRun(b, stage) THEN "running" ELSE "judged"
    /\ verdict' = IF MayRun(b, stage) THEN "none"
                  ELSE IF TextVerdict(b, stage) = "fatal" THEN "fatal" ELSE "refused"
    /\ UNCHANGED << prior, asked, raw, contract, source, stage, met, exported >>

Wanted == at = "draft" \/ (at = "judged" /\ verdict = "refused" /\ writer = "model")

Draft(b) == Wanted /\ left > 0 /\ left' = left - 1 /\ Try(b, "model")

NoDraft ==
    /\ Wanted /\ left > 0
    /\ left' = left - 1
    /\ UNCHANGED << prior, asked, raw, contract, source, at, stage, writer, body, verdict, met, exported >>

Render == Wanted /\ left = 0 /\ left' = left /\ Try(OwnBody(stage, contract), "foundry")

Reaches(b) == \A r \in b.needs : Seeded(r, stage.spec.reads, contract)

\* The call ends: an input that is not in the fixture makes it throw.
Settle ==
    /\ at = "running"
    /\ (body.ends \in { "returns", "throws" } \/ ~ Reaches(body))
    /\ at' = "judged"
    /\ verdict' = IF body.ends = "returns" /\ Reaches(body) /\ Holds(body.out, stage) THEN "accepted" ELSE "refused"
    /\ UNCHANGED << prior, asked, raw, contract, source, stage, left, writer, body, met, exported >>

\* For mutants: a timer that does not say what the verdict is, and one that is set too late.
TimeOutUnsaid ==
    /\ at = "running" /\ body.ends = "waits" /\ Reaches(body)
    /\ at' = "judged"
    /\ UNCHANGED << prior, asked, raw, contract, source, stage, left, writer, body, verdict, met, exported >>
TimeOutOfWhatEnded ==
    /\ at = "running" /\ body.ends = "throws"
    /\ at' = "judged"
    /\ verdict' = "refused"
    /\ UNCHANGED << prior, asked, raw, contract, source, stage, left, writer, body, met, exported >>

\* The timer of a second ends a call that waits; one that never lets go stops the timer too.
TimeOut ==
    /\ at = "running" /\ body.ends = "waits" /\ Reaches(body)
    /\ at' = "judged"
    /\ verdict' = "refused"
    /\ UNCHANGED << prior, asked, raw, contract, source, stage, left, writer, body, met, exported >>

\* The export runs in the program.
Publish(d) ==
    /\ at = "judged" /\ verdict = "accepted" /\ stage.export \in { "docx", "html" } /\ exported = {}
    /\ met' = d
    /\ exported' = Sections(d)
    /\ UNCHANGED << prior, asked, raw, contract, source, at, stage, left, writer, body, verdict >>

Next ==
    \/ \E a \in prior.answers : Answer(a)
    \/ NoAnswer \/ Derive \/ GiveUp
    \/ \E s \in Stages : Turn(s)
    \/ (Wanted /\ \E b \in stage.drafts : Draft(b))
    \/ NoDraft \/ Render \/ Settle \/ TimeOut
    \/ \E d \in Domains : Publish(d)

\* The event loop runs: a call that can end ends, and a timer that is set fires.
Spec == Init /\ [][Next]_vars /\ WF_vars(Settle) /\ WF_vars(TimeOut)

---------------------------------------------------------------------------
(* What should hold.                                                        *)

\* The state of a synthesis (domain-synthesis.ts, reasoning-contract.ts): bodies are judged for
\* a stage only after the contract, and a document is printed only by a body that was accepted.
TypeOK ==
    /\ prior \in Contracted /\ asked \in 0 .. MaxAnswers /\ left \in 0 .. MaxDrafts
    /\ at \in { "contract", "turn", "stuck", "draft", "running", "judged" }
    /\ source \in { "none", "author", "derived" } /\ writer \in { "none", "model", "foundry" }
    /\ verdict \in { "none", "accepted", "refused", "fatal" }
    /\ at \in { "draft", "running", "judged" } => stage \in Stages /\ contract.object
    /\ at = "judged" <=> verdict # "none"
    /\ exported # {} => met \in Domains /\ verdict = "accepted"

\* What the specification of a stage must not ask for if a mechanical body is to hold.
Mechanizable(spec, c) ==
    LET keys == IF spec.shaped THEN ToSet(spec.keys) ELSE {}
        emails == \E i \in DOMAIN spec.templates : spec.templates[i].slot = "email"
        leads == IF "leads" \in keys /\ spec.hint["leads"] \in { "strings", "records", "odd_records" }
                    /\ LeadsIn(spec.reads, c) > 1 THEN LeadsIn(spec.reads, c) ELSE 1
    IN /\ keys \cap StubNames = {}
       /\ spec.templates = << >> => Own \notin StubAnchors
       /\ \A i \in DOMAIN spec.templates : emails \/ spec.templates[i].anchor \notin StubAnchors
       /\ emails => /\ Len(spec.templates) = leads
                    /\ \A i \in DOMAIN spec.templates :
                          spec.templates[i].anchor = "lead:" /\ spec.templates[i].slot # "none"
       /\ spec.fee => /\ \A k \in Amounts \cap keys : spec.hint[k] \in { "number", "integer" }
                      /\ ~ (spec.parameters /\ "parameters_json" \in keys)

\* When the body of an integration over http holds.
Answered(s) ==
    /\ s.title = "plain" /\ s.base = "local" /\ s.reply = "ok"
    /\ s.spec.shaped => s.spec.keys = HttpKeys
    /\ s.spec.templates # << >> => Len(s.spec.templates) = 1 /\ Matches(Plain(Own), s.spec.templates[1])

\* The foundry's own bodies hold before the gates they are written for (renderDeterministicFallbackStageBody
\* and the other renderers): an integration over http wherever its service is near, answers, and
\* nobody gave its result another shape; an integration by module never; the rest but for a stub
\* marker in a name, and the mechanical body but for what Mechanizable says.
OwnBodiesHold ==
    at = "judged" /\ writer = "foundry" =>
        (verdict = "accepted" <=>
            CASE Route(stage) = "plain" -> Mechanizable(stage.spec, contract)
              [] Route(stage) = "http" -> Answered(stage)
              [] Route(stage) = "module" -> FALSE
              [] Route(stage) \in { "docx", "html" } -> stage.title = "plain"
              [] OTHER -> TRUE)

\* The derived contract, which nobody repairs, passes the judgement of an authored one
\* (deriveFallbackReasoningContract): it fails only on rules too long for a prompt, on a list of
\* records it cannot describe, on too few free names, and on a name with a stub marker in it.
DerivedContractHolds ==
    source = "derived" =>
        LET spec == prior.spec
            fields == DerivedFields(spec, prior.tails)
            templates == DerivedTemplates(spec, fields)
        IN at # "stuck" <=>
              /\ spec.rules # "long"
              /\ \A i \in DOMAIN fields : fields[i].sound
              /\ Len(fields) >= MinFields
              /\ ToSet(Names(fields)) \cap Marked = {}
              /\ \A i \in DOMAIN templates : templates[i].anchor \notin Marked

\* What a specification that binds the fields makes of right ones.
Widened(fields) == [i \in DOMAIN fields |-> [fields[i] EXCEPT !.type = IF @ = "enum" THEN "string" ELSE @]]

\* Repairing an answer that is right leaves it right (repairSynthesizedFieldSchema,
\* repairSynthesizedCannedExample), and all of it is kept but what a specification that binds the
\* fields takes away: a choice becomes a plain text again, and the description of a list of records
\* that it does not describe itself is lost, and with it the answer.
RepairKeepsWhatHolds ==
    /\ raw.object /\ SoundContract(raw, prior.spec, prior.tails) =>
          IF Binds(prior.spec) /\ \E i \in DOMAIN SpecFields(prior.spec) : ~ SpecFields(prior.spec)[i].sound
          THEN source # "author"
          ELSE /\ source = "author"
               /\ contract = IF Binds(prior.spec) THEN [raw EXCEPT !.fields = Widened(@)] ELSE raw
    /\ source # "none" /\ at # "stuck" => SoundContract(contract, prior.spec, prior.tails)

\* What the generated program gives a body of its declared reads (collectFlatMirrorStages,
\* applyReasoningFieldMirrorReactions).
Mirrored(of) == \E q \in stage.spec.reads : q.of = of /\ q.form \in { "result_json", "items_json" }

\* A list is read as it is, and of the flat copies of fields there is no whole.
HasPath(r) == (r.form = "items_json" => r.field = "all") /\ (r.form = "result" => r.field # "all")

Served(r) ==
    CASE r.of \in { "inputs", "domain_spec" } -> TRUE
      [] r.of = Reasoned -> /\ r.form # "output" /\ r \in stage.spec.reads /\ HasPath(r)
                            /\ \/ r.field = "all"
                               \/ \E i \in DOMAIN contract.fields :
                                     /\ contract.fields[i].name = r.field
                                     /\ r.form = "result" => contract.fields[i].type # "record_array"
      [] OTHER -> r \in stage.spec.reads /\ HasPath(r) /\ (r.form = "output" \/ Mirrored(r.of))

\* Where the fixture is blind: the specification itself, and the flat copies of a computed output.
Blind(r) ==
    \/ r.of = "domain_spec"
    \/ /\ r.of \notin { Reasoned, "inputs" }
       /\ \/ r.form = "result"
          \/ /\ r.form \in { "result_json", "items_json" } /\ r.field = "all"
             /\ ~ \E q \in stage.spec.reads : q.of = r.of /\ q.form = "result_json" /\ q.field # "all"

\* A right draft that needs no more than the program will give it is accepted (behaviorFixtureFor,
\* seedPriorStageOutputs), and refused exactly when it needs what the fixture is blind to.
ServedInputIsFound ==
    /\ at = "judged" /\ writer = "model" /\ body.says = {} /\ body.ends = "returns"
    /\ OutputHolds(body.out, stage, "mock") /\ \A r \in body.needs : Served(r)
    => (verdict = "accepted" <=> ~ \E r \in body.needs : Blind(r))

\* A document prints no item that was refused or is waiting, nothing of the export's own, raw or
\* waiting state, and every approved item with a text, unless a field before the text is there and
\* empty (approvedContentSectionsFromDomain, exportBodyField).
ExportsWhatWasApproved ==
    exported # {} =>
        /\ \A e \in exported :
              IF e.what = "item"
              THEN LET item == met.items[e.at]
                       status == IF "status" \in DOMAIN item.indexed THEN item.indexed["status"]
                                 ELSE IF "status" \in DOMAIN item.direct THEN item.direct["status"] ELSE "approved"
                   IN status \notin { "pending", "rejected" }
              ELSE e.what \in { "notice", "output", "result_json", "work" }
        /\ \A i \in DOMAIN met.items :
              LET record == ItemRecord(met.items[i])
                  text(n) == BodyFields[n] \in DOMAIN record
              IN /\ Approved(met.items[i])
                 /\ \E n \in DOMAIN BodyFields : text(n) /\ record[BodyFields[n]] = "prose"
                 /\ ~ \E n \in DOMAIN BodyFields : text(n) /\ record[BodyFields[n]] = "empty"
                 => [what |-> "item", at |-> i] \in exported

\* Every body that lets go of the process is judged (withBehaviorTimeout).
JudgedUnlessItSpins == (at = "running" /\ body.ends # "spins") ~> (at = "judged")
=============================================================================
