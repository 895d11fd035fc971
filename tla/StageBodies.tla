---------------------------- MODULE StageBodies ----------------------------
(***************************************************************************)
(* The bodies of deterministic stages that the foundry writes itself        *)
(* (domain-synthesis.ts): the mechanical body that replaces a model's       *)
(* drafts, the bodies that call a connector of the host or an integration   *)
(* of the repository, and the bodies that export a document.                *)
(*                                                                          *)
(* A body is what its text says, how its call ends, which inputs it cannot  *)
(* do without, and what it returns.  A value in a result is "own" (the name *)
(* of the stage), "positive" (a number), "parameters" (the parameters of a  *)
(* fee, as JSON), or "other".                                               *)
(***************************************************************************)
EXTENDS StageContracts

CONSTANTS
    StubNames,    \* keys that a body may not mention: they contain a stub marker
    StubAnchors   \* texts of items that a body may not mention

ASSUME OwnTextsAreFine == "stage" \notin StubNames /\ "lead:" \notin StubAnchors

Output(keys, value, items, adapter) ==
    [shape |-> "fine", keys |-> keys, value |-> value, items |-> items, adapter |-> adapter,
     sections |-> 0, calls |-> << >>]

Nothing == [Output(<< >>, << >>, << >>, "none") EXCEPT !.shape = "not_object"]
NoBody == [says |-> {}, ends |-> "throws", needs |-> {}, out |-> Nothing]

Says(text, out) == [says |-> text, ends |-> "returns", needs |-> {}, out |-> out]
Fails(text) == [NoBody EXCEPT !.says = text]

Plain(s) == [anchor |-> s, text |-> "text"]
OwnFor(keys) == [k \in ToSet(keys) |-> IF k = "stage" THEN "own" ELSE "other"]

---------------------------------------------------------------------------
(* The mechanical body: the keys of the specification in their order, with  *)
(* canned values, and its templates filled in.                              *)

MechanicalValue(k, spec) ==
    CASE k = "stage" -> "own"
      [] k # "stage" /\ spec.hint[k] \in { "number", "integer" } -> "positive"
      [] OTHER -> "other"

\* A template with <email> in it makes the items a list of the leads of the result.
MechanicalItems(spec, leads) ==
    LET ts == spec.templates IN
    CASE ts = << >> -> << Plain(Own) >>
      [] ts # << >> /\ \E i \in DOMAIN ts : ts[i].slot = "email" ->
            [i \in 1 .. (IF leads = 0 THEN 1 ELSE leads) |-> Plain("lead:")]
      [] OTHER -> [i \in DOMAIN ts |-> [anchor |-> ts[i].anchor,
                                        text |-> IF ts[i].slot = "none" THEN "none" ELSE "text"]]

Mechanical(spec, archetype, leads) ==
    LET keys == IF spec.shaped THEN spec.keys ELSE << "stage" >>
        value == [k \in ToSet(keys) |-> IF spec.shaped THEN MechanicalValue(k, spec) ELSE "own"]
        listed == IF "leads" \in ToSet(keys) /\ spec.hint["leads"] \in { "strings", "records", "odd_records" }
                  THEN leads ELSE 0
        items == MechanicalItems(spec, listed)
        stub == \/ ToSet(keys) \cap StubNames # {}
                \/ \E i \in DOMAIN items : items[i].anchor \in StubAnchors
    IN Says(IF stub THEN { "stub" } ELSE {},
            Output(keys, value, items, IF archetype = "external-adapter" THEN "mock" ELSE "none"))

---------------------------------------------------------------------------
(* The bodies that call somebody.  A call goes to the connector of the      *)
(* host: the runtime's, or the one in the payload, or a mock that nobody    *)
(* sees the calls of.                                                       *)

Through(host, call) == IF host \in { "runtime", "payload" } THEN << call >> ELSE << >>

\* Where the source of a page is looked for, the first that names one.
SourcePlaces == << "current_source", "work_current_source", "work", "source" >>

\* For a mutant: the source that the list started with.
FirstSource(d) == IF "source" \in DOMAIN d.sources THEN d.sources["source"] ELSE [url |-> "", domains |-> {}]

CurrentSource(d) ==
    LET named == { n \in DOMAIN SourcePlaces : SourcePlaces[n] \in DOMAIN d.sources /\ d.sources[SourcePlaces[n]].url # "" }
    IN IF named = {} THEN [url |-> "", domains |-> {}] ELSE d.sources[SourcePlaces[Min(named)]]

\* The domains that a source names replace those of the guard.
Navigate(d) ==
    LET source == CurrentSource(d)
        keys == << "items", "pages_visited", "audit" >>
        call == [url |-> source.url, domains |-> IF source.domains # {} THEN source.domains ELSE d.guard]
    IN IF source.url = "" \/ ~ d.described THEN Fails({ "import" })
       ELSE Says({ "import" }, [Output(keys, OwnFor(keys), << Plain("lead:") >>, "mock")
                         EXCEPT !.calls = Through(d.host, call)])

\* The places of the records in order, each with those that are records.
Persist(d) ==
    LET filled == { n \in DOMAIN d.places : d.places[n] # << >> }
        records == d.places[Min(filled)]
        keys == << "inserted", "updated", "new_vs_existing" >>
    IN IF filled = {} \/ ~ d.keyed THEN Fails({ "import" })
       ELSE Says({ "import" }, [Output(keys, OwnFor(keys), [i \in DOMAIN records |-> Plain(records[i])], "mock")
                         EXCEPT !.calls = Through(d.host,
                             [method |-> IF d.entity = "contact" THEN "upsert_contact" ELSE "upsert_lead",
                              records |-> records])])

\* What a store makes of records under a key: each key once, the last record of it.
Upserted(records, existing) ==
    [inserted |-> Cardinality(ToSet(records) \ existing), updated |-> Cardinality(ToSet(records) \cap existing)]

\* Rows without what the report prints are left out; the guard's audit has a second place.
Report(d) ==
    LET sound(rows) == { n \in DOMAIN rows : rows[n].sound }
        audit == IF d.aggregate_audit # << >> THEN d.aggregate_audit ELSE d.work_audit
        keys == << "stage", "pdf_base64", "pdf_bytes", "sha256", "section_count" >>
    IN Says({ "import" }, [Output(keys, OwnFor(keys), << Plain("pdf_report:") >>, "none")
                    EXCEPT !.sections = 4,
                           !.calls = Through(d.host, [titled |-> d.titled, sources |-> sound(d.sources),
                                                      leads |-> d.leads, audit |-> sound(audit)])])

HttpKeys ==
    << "stage", "status", "adapter_kind", "integration", "method", "config_env",
       "endpoint", "response_status", "result" >>

\* The name and method of the integration are in the text of the body.
CallHttp(text, reply) ==
    LET out == Output(HttpKeys, OwnFor(HttpKeys), << Plain(Own) >>, "repo")
        says == text \cup { "fetch", "env" }
    IN CASE reply = "ok" -> Says(says, out)
         [] reply = "failed" -> Fails(says)
         [] reply = "silent" -> [Fails(says) EXCEPT !.ends = "waits"]

CallModule(text) ==
    LET keys == << "stage", "status", "adapter_kind", "integration", "method", "config_env", "result" >>
    IN Says(text \cup { "import" }, Output(keys, OwnFor(keys), << Plain(Own) >>, "repo"))

---------------------------------------------------------------------------
(* What is exported.  The items of a collection are in one list and under   *)
(* paths with an index; the latter win.                                     *)

BodyFields == << "final_text", "approved_text", "proposed_text", "draft_text", "body", "text", "summary" >>

Over(f, g) == [n \in DOMAIN f \cup DOMAIN g |-> IF n \in DOMAIN f THEN f[n] ELSE g[n]]

\* For a mutant: the list wins over the paths.
ItemOfTheList(item) == Over(item.direct, item.indexed)

ItemRecord(item) == Over(item.indexed, item.direct)

Approved(item) ==
    "status" \in DOMAIN ItemRecord(item) =>
        ItemRecord(item)["status"] \in { "empty", "accepted", "approved" }

\* The first field that is there at all, be it empty.
ItemBody(item) ==
    LET present == { n \in DOMAIN BodyFields : BodyFields[n] \in DOMAIN ItemRecord(item) }
    IN IF present = {} THEN "empty" ELSE ItemRecord(item)[BodyFields[Min(present)]]

\* Paths that are never printed: the stage's own, raw sources, the state of a loop.
Content == { "output", "result_json", "work" }

Sections(d) ==
    LET approved == { i \in DOMAIN d.items : Approved(d.items[i]) /\ ItemBody(d.items[i]) = "prose" }
    IN CASE approved # {} -> { [what |-> "item", at |-> i] : i \in approved }
         [] approved = {} /\ d.paths \cap Content # {} ->
               { [what |-> p, at |-> 0] : p \in d.paths \cap Content }
         [] OTHER -> { [what |-> "notice", at |-> 0] }

Export(kind, text, d) ==
    LET keys == IF kind = "docx" THEN << "stage", "docx_base64", "docx_bytes", "sha256", "section_count" >>
                ELSE << "stage", "html", "html_bytes", "sha256", "section_count" >>
        anchor == IF kind = "docx" THEN "docx_export:" ELSE "html_export:"
    IN Says(text \cup { "import" }, [Output(keys, OwnFor(keys), << Plain(anchor) >>, "none")
                      EXCEPT !.sections = Cardinality(Sections(d))])
=============================================================================
