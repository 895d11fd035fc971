---------------------------- MODULE MCStageGates ----------------------------
(***************************************************************************)
(* The gates of stages on seven reasoning stages, thirty-five later stages  *)
(* and seven states of a program.                                           *)
(***************************************************************************)
EXTENDS StageGates

MCIllNamed == { "Summary", "a_name_of_more_than_thirty_two_letters" }
MCMarked == { "placeholder", "todo" }
MCOwn == "stage:"
MCStubNames == { "placeholder" }
MCStubAnchors == { "TODO:" }

Text(anchor, slot) == [anchor |-> anchor, slot |-> slot]
Reads(of, form, field) == [of |-> of, form |-> form, field |-> field]

\* A specification with keys of one hint but for some, and templates.
Shaped(keys, hints, templates) ==
    [NoSpec EXCEPT !.given = TRUE, !.shaped = TRUE, !.keys = keys, !.templates = templates,
                   !.hint = [k \in ToSet(keys) |-> IF k \in DOMAIN hints THEN hints[k] ELSE "text"]]

---------------------------------------------------------------------------
(* The reasoning stage.                                                     *)

LeadSpec == Shaped(<< "stage", "leads", "found", "verdict" >>,
                   [leads |-> "records", found |-> "number"], << Text("lead:", "verdict"), Text("end", "none") >>)
ManySpec == Shaped(<< "a", "b", "c", "d", "e", "f", "g", "h" >>, [a |-> "strings", b |-> "boolean"], << >>)

Good(spec, tails) == [Derived(spec, tails) EXCEPT !.prompt = "fits"]

\* An author's answers: a right one, and one for each thing that may be wrong in it.
Answers(spec, tails) ==
    LET good == Good(spec, tails)
        first == good.fields[1].name
        last == Len(good.fields)
        reserved == [name |-> "stage", type |-> "string", sound |-> TRUE]
    IN { good,
         [good EXCEPT !.object = FALSE], [good EXCEPT !.prompt = "short"], [good EXCEPT !.listed = FALSE],
         [good EXCEPT !.fields = << reserved >> \o @], [good EXCEPT !.fields[1].name = "Summary"],
         [good EXCEPT !.fields[1].sound = FALSE], [good EXCEPT !.fields[2].sound = TRUE],
         [good EXCEPT !.fields = << @[1], @[2] >>],
         [good EXCEPT !.fields[last].type = "enum", !.result[good.fields[last].name] = "member"],
         [good EXCEPT !.example = FALSE, !.result = << >>, !.items = << >>],
         [good EXCEPT !.result[first] = "empty"], [good EXCEPT !.items[1].text = "lines"],
         [good EXCEPT !.items[1].text = "marker"], [good EXCEPT !.items = Tail(@)],
         [good EXCEPT !.result = [n \in DOMAIN @ |-> IF @[n] = "records" THEN "more_records" ELSE @[n]]] }

Prior(spec, tails) == [spec |-> spec, tails |-> tails, answers |-> Answers(spec, tails)]

OddSpec == [LeadSpec EXCEPT !.hint["leads"] = "odd_records"]
MarkedSpec == Shaped(<< "placeholder", "b", "c" >>, << >>, << >>)

MCContracted ==
    { Prior(NoSpec, {}), Prior(NoSpec, { "decision", "confidence", "summary" }),
      Prior(LeadSpec, { "verdict" }), Prior(OddSpec, {}), Prior([ManySpec EXCEPT !.rules = "long"], { "a" }),
      Prior(ManySpec, {}), Prior(MarkedSpec, {}) }

---------------------------------------------------------------------------
(* The later stage.                                                         *)

RightValue(k) ==
    CASE k = "stage" -> "own" [] k \in Amounts -> "positive" [] k = "parameters_json" -> "parameters" [] OTHER -> "other"
RightItems(spec) ==
    IF spec.templates = << >> THEN << Plain(Own) >>
    ELSE [i \in DOMAIN spec.templates |->
             [anchor |-> spec.templates[i].anchor, text |-> IF spec.templates[i].slot = "none" THEN "none" ELSE "text"]]

Right(spec, archetype, needs) ==
    LET keys == IF spec.shaped THEN spec.keys ELSE << "stage" >>
    IN [Says({}, Output(keys, [k \in ToSet(keys) |-> RightValue(k)], RightItems(spec),
                        IF archetype = "external-adapter" THEN "mock" ELSE "none")) EXCEPT !.needs = needs]

\* A model's drafts: right ones that need more and less, and wrong ones.
Drafts(spec, archetype) ==
    LET right == Right(spec, archetype, {})
        domain_spec == Reads("domain_spec", "all", "all")
    IN { right } \cup { [right EXCEPT !.needs = { r }] : r \in spec.reads \cup { domain_spec } }
       \cup { [right EXCEPT !.needs = spec.reads], [right EXCEPT !.ends = "waits"], [right EXCEPT !.ends = "spins"],
              [right EXCEPT !.ends = "throws"], [right EXCEPT !.says = { "governed" }],
              [right EXCEPT !.says = { "governed", "todo" }], [right EXCEPT !.says = { "swap" }],
              [right EXCEPT !.says = { "fetch" }], [right EXCEPT !.says = { "untyped" }],
              [right EXCEPT !.out.shape = "not_json"], [right EXCEPT !.out.items = << >>],
              [right EXCEPT !.out.keys = Reverse(@)], [right EXCEPT !.out.adapter = "none"] }

Stage(spec) ==
    [spec |-> spec, archetype |-> "pure-compute", export |-> "none", connector |-> "none", repo |-> "none",
     existing |-> FALSE, title |-> "plain", base |-> "unset", reply |-> "ok",
     drafts |-> Drafts(spec, "pure-compute")]
External(spec) == [Stage(spec) EXCEPT !.archetype = "external-adapter", !.drafts = Drafts(spec, "external-adapter")]
Exporting(kind, title, spec) == [Stage(spec) EXCEPT !.export = kind, !.title = title, !.drafts = {}]
Connected(c, existing) == [External(NoSpec) EXCEPT !.connector = c, !.existing = existing, !.repo = "http", !.drafts = {}]
Wired(kind, base, reply, spec) ==
    [External(spec) EXCEPT !.existing = TRUE, !.repo = kind, !.base = base, !.reply = reply, !.drafts = {}]

With(spec, reads) == [spec EXCEPT !.reads = reads]
Fee(spec) == [spec EXCEPT !.fee = TRUE]

Total == Shaped(<< "stage", "total" >>, << >>, << Text("total:", "total") >>)
Emails(templates) == Shaped(<< "leads" >>, [leads |-> "records"], templates)
Quote(hint) == Fee(Shaped(<< "stage", "fixed_quote" >>, [fixed_quote |-> hint], << >>))
AllLeads == { Reads(Reasoned, "result_json", "all"), Reads(Reasoned, "result", "leads") }

PlainStages ==
    { Stage(NoSpec), External(NoSpec), Stage(Total),
      Stage(With(Total, { Reads("quote", "output", "all"), Reads("inputs", "initial", "all"),
                          Reads(Reasoned, "result", "decision"), Reads(Reasoned, "result_json", "found") })),
      Stage(With(Total, { Reads("quote", "result_json", "price"), Reads("quote", "items_json", "all"),
                          Reads("quote", "result", "price"), Reads("quote", "result_json", "all") })),
      Stage(With(Total, { Reads("quote", "items_json", "all"), Reads("quote", "result", "price") })),
      Stage(With(Emails(<< Text("lead:", "email") >>), AllLeads)),
      Stage(With(Emails(<< Text("lead:", "email"), Text("lead:", "email") >>), AllLeads)),
      Stage(With(Emails(<< Text("lead:", "email") >>), { Reads(Reasoned, "output", "all") })),
      Stage(Emails(<< Text("contact:", "email") >>)),
      Stage(Quote("integer")), Stage(Quote("text")),
      Stage([Fee(Shaped(<< "stage", "parameters_json" >>, << >>, << >>)) EXCEPT !.parameters = TRUE]),
      Stage(Shaped(<< "placeholder" >>, << >>, << >>)), Stage(Shaped(<< "a" >>, << >>, << Text("TODO:", "a") >>)) }

MCStages ==
    PlainStages
    \cup { Exporting(kind, title, spec) : kind \in { "docx", "pdf" }, title \in { "plain", "marked" }, spec \in { Total } }
    \cup { Exporting("html", "plain", NoSpec), Connected("web", FALSE), Connected("web", TRUE), Connected("persistence", TRUE) }
    \cup { Wired("http", base, reply, NoSpec) : base \in { "unset", "remote", "local" }, reply \in { "ok", "failed", "silent" } }
    \cup { Wired("http", "local", "ok", spec) : spec \in { Total, Shaped(HttpKeys, << >>, << Text(Own, "status") >>) } }
    \cup { Wired("module", "local", "ok", NoSpec) }

---------------------------------------------------------------------------
(* The state that an export meets.                                          *)

Items(direct, indexed) == [direct |-> direct, indexed |-> indexed]
Draw(items, paths) == [items |-> items, paths |-> paths]

MCDomains ==
    { Draw(<< >>, {}), Draw(<< >>, { "raw", "internal", "own", "other" }),
      Draw(<< >>, { "output", "result_json", "work", "raw", "internal", "own", "other" }),
      Draw(<< Items([status |-> "accepted", final_text |-> "prose"], << >>),
              Items([status |-> "accepted", final_text |-> "prose"], [status |-> "rejected"]) >>, { "output", "internal" }),
      Draw(<< Items([status |-> "pending", draft_text |-> "prose"], << >>),
              Items([draft_text |-> "prose"], [status |-> "approved", final_text |-> "empty"]) >>, { "work", "raw", "internal" }),
      Draw(<< Items([summary |-> "prose"], << >>), Items([status |-> "empty"], [text |-> "prose"]) >>, { "internal" }),
      Draw(<< Items([status |-> "rejected", text |-> "prose"], [status |-> "accepted"]) >>, { "internal", "output" }) }
=============================================================================
