--------------------------- MODULE StageContracts ---------------------------
(***************************************************************************)
(* The contract of a reasoning stage (reasoning-contract.ts): what an       *)
(* author's answer must look like, what is repaired in it before it is      *)
(* judged, and the contract that is derived when nobody can author one.     *)
(*                                                                          *)
(* A specification of a stage says which keys its result has, with a hint   *)
(* of their type, and which items it lists.  A contract names typed fields, *)
(* templates of items, and an example of both.                              *)
(*                                                                          *)
(* Texts are abstracted to what the checks tell apart.  A template is the   *)
(* text before its placeholder and the name in it, an item the text before  *)
(* its value and the kind of that value.                                    *)
(***************************************************************************)
EXTENDS Naturals, Sequences, FiniteSets, SequencesExt

CONSTANTS
    IllNamed,   \* names that are too long or do not match FIELD_NAME_PATTERN
    Marked,     \* names and anchors that contain a stub marker of a contract
    Own         \* the text before the items a stage lists when it declares none

\* No name the foundry gives fields itself is ill, and the stage has a name.
ASSUME OwnNamesAreFine ==
    /\ Own # ""
    /\ IllNamed \cap { "decision", "summary", "rationale", "confidence", "key_points", "assessment", "next_step" } = {}

\* What result_json may say of a key; "odd_records" is a list of records with no
\* key or with an ill-named one, "other" any hint that is not understood.
Hints == { "text", "number", "integer", "boolean", "strings", "records", "odd_records", "other" }
FieldTypes == { "string", "number", "boolean", "enum", "string_array", "record_array" }

\* A value of an example: what its type is, and whether it is fit to print.
Samples == { "text", "lines", "empty", "marker", "member", "number", "flag", "texts",
             "records", "more_records" }

Template == [anchor : STRING, slot : STRING]
Item == [anchor : STRING, text : STRING]
Field == [name : STRING, type : FieldTypes, sound : BOOLEAN]

Names(s) == [i \in DOMAIN s |-> s[i].name]

\* The elements of a sequence at some of its indices, in their order.
Nth(I, k) == CHOOSE i \in I : Cardinality({ j \in I : j < i }) = k - 1
Chosen(s, I) == [k \in 1 .. Cardinality(I) |-> s[Nth(I, k)]]
FirstOf(s, n) == SubSeq(s, 1, IF Len(s) < n THEN Len(s) ELSE n)

\* An answer of an author, read as a contract; listed says that it has fields to look at,
\* extras, described and example that the rest of its form is right.
IsContract(c) ==
    /\ c = [object |-> c.object, prompt |-> c.prompt, listed |-> c.listed, extras |-> c.extras, fields |-> c.fields,
            described |-> c.described, templates |-> c.templates, example |-> c.example,
            result |-> c.result, items |-> c.items]
    /\ c.result = [n \in DOMAIN c.result |-> c.result[n]]
    /\ { c.object, c.listed, c.extras, c.described, c.example } \subseteq BOOLEAN
    /\ c.fields \in Seq(Field) /\ c.templates \in Seq(Template) /\ c.items \in Seq(Item)

NoSpec == [given |-> FALSE, shaped |-> FALSE, keys |-> << >>, hint |-> << >>, templates |-> << >>,
           rules |-> "short", reads |-> {}, fee |-> FALSE, parameters |-> FALSE]

MinFields == 3
MaxFields == 7
MaxItemTemplates == 5
Reserved == { "result_json", "items_json", "note", "value", "stage", "query" }

---------------------------------------------------------------------------
(* What the specification of the stage asks for.                            *)

UsableNames(spec) == Chosen(spec.keys, { i \in DOMAIN spec.keys : spec.keys[i] \notin Reserved \cup IllNamed })

FieldType(hint) ==
    CASE hint \in { "number", "boolean" } -> hint
      [] hint = "strings" -> "string_array"
      [] hint \in { "records", "odd_records" } -> "record_array"
      [] OTHER -> "string"

SpecField(n, spec) ==
    [name |-> n, type |-> FieldType(spec.hint[n]), sound |-> spec.hint[n] # "odd_records"]

\* Few or many usable names: the specification does not bind the fields.
Binds(spec) == spec.given /\ Len(UsableNames(spec)) \in MinFields .. MaxFields
SpecFields(spec) ==
    LET names == UsableNames(spec) IN [i \in DOMAIN names |-> SpecField(names[i], spec)]

ValidTemplates(ts) == Len(ts) \in 1 .. MaxItemTemplates /\ \A i \in DOMAIN ts : ts[i].anchor # ""

---------------------------------------------------------------------------
(* The judgement of a contract.  The tails are the last names of the guard  *)
(* fields of the transitions that leave the stage.                          *)

\* The wildcard of a template matches anything but nothing and a second line.
Matches(item, t) ==
    /\ item.anchor = t.anchor
    /\ IF t.slot = "none" THEN item.text = "none" ELSE item.text \notin { "none", "empty", "lines" }

SoundField(f, spec, tails) ==
    /\ f.sound
    /\ f.name \notin IllNamed \cup Reserved
    /\ f.name \in tails => f.name \in ToSet(spec.keys)

Fits(type, sample) ==
    CASE type = "string" -> sample \in { "text", "lines", "marker", "member" }
      [] type = "number" -> sample = "number"
      [] type = "boolean" -> sample = "flag"
      [] type = "enum" -> sample = "member"
      [] type = "string_array" -> sample = "texts"
      [] type = "record_array" -> sample \in { "records", "more_records" }

SampleFits(c, f) == f.name \in DOMAIN c.result /\ Fits(f.type, c.result[f.name])

ExampleIsMarked(c) ==
    \/ \E n \in DOMAIN c.result : n \in Marked \/ c.result[n] = "marker"
    \/ \E i \in DOMAIN c.items : c.items[i].anchor \in Marked \/ c.items[i].text = "marker"

Agrees(c, spec) ==
    /\ Binds(spec) => /\ Names(c.fields) = UsableNames(spec)
                      /\ \A i \in DOMAIN c.fields :
                            LET type == FieldType(spec.hint[c.fields[i].name]) IN
                            c.fields[i].type \in IF type = "string" THEN { "string", "enum" } ELSE { type }
    /\ ValidTemplates(spec.templates) => c.templates = spec.templates

SoundContract(c, spec, tails) ==
    /\ c.prompt = "fits"
    /\ c.listed /\ c.extras
    /\ \A i \in DOMAIN c.fields : SoundField(c.fields[i], spec, tails)
    /\ Len(c.fields) \in MinFields .. MaxFields
    /\ IsInjective(Names(c.fields))
    /\ c.described /\ ValidTemplates(c.templates)
    /\ c.example
    /\ \A i \in DOMAIN c.fields : SampleFits(c, c.fields[i])
    /\ Len(c.items) = Len(c.templates)
    /\ \A i \in DOMAIN c.items : Matches(c.items[i], c.templates[i])
    /\ ~ ExampleIsMarked(c)
    /\ Agrees(c, spec)

---------------------------------------------------------------------------
(* What is repaired in an answer.                                           *)

Canned(type) ==
    CASE type = "number" -> "number"
      [] type = "boolean" -> "flag"
      [] type = "enum" -> "member"
      [] type = "string_array" -> "texts"
      [] type = "record_array" -> "records"
      [] OTHER -> "text"

\* A value in an item: an absent or empty one becomes a word of its own.
Printed(n, result) ==
    IF n \in DOMAIN result /\ result[n] \in { "lines", "marker" } THEN result[n] ELSE "text"
RenderedItem(t, result) ==
    [anchor |-> t.anchor, text |-> IF t.slot = "none" THEN "none" ELSE Printed(t.slot, result)]

SoundFields(c, spec, tails) == Chosen(c.fields, { i \in DOMAIN c.fields : SoundField(c.fields[i], spec, tails) })

\* For a mutant: whatever is sound is cut to the least that is needed.
RepairToTheMinimum(c, spec, tails) ==
    LET kept == SoundFields(c, spec, tails) IN
    CASE ~ c.listed -> c
      [] c.listed /\ Binds(spec) -> [c EXCEPT !.fields = SpecFields(spec), !.extras = TRUE]
      [] OTHER -> IF Len(kept) < MinFields THEN c
                  ELSE [c EXCEPT !.fields = SubSeq(kept, 1, MinFields), !.extras = TRUE]

RepairFields(c, spec, tails) ==
    LET kept == SoundFields(c, spec, tails) IN
    CASE ~ c.listed -> c
      [] c.listed /\ Binds(spec) -> [c EXCEPT !.fields = SpecFields(spec), !.extras = TRUE]
      [] OTHER -> IF (\A i \in DOMAIN c.fields : SoundField(c.fields[i], spec, tails)) \/ Len(kept) < MinFields THEN c
                  ELSE [c EXCEPT !.fields = FirstOf(kept, MaxFields), !.extras = TRUE]

\* The example is left alone unless every field of the contract is sound.
RepairExample(c, spec, tails) ==
    LET wrong == { f \in ToSet(c.fields) : ~ SampleFits(c, f) }
        new == { f.name : f \in wrong }
        type(n) == (CHOOSE f \in wrong : f.name = n).type
        result == [n \in DOMAIN c.result \cup new |-> IF n \in new THEN Canned(type(n)) ELSE c.result[n]]
        stays(i) == wrong = {} /\ i \in DOMAIN c.items /\ Matches(c.items[i], c.templates[i])
    IN IF ~ c.listed \/ \E i \in DOMAIN c.fields : ~ SoundField(c.fields[i], spec, tails) THEN c
       ELSE [c EXCEPT !.result = result, !.example = TRUE,
                      !.items = [i \in DOMAIN c.templates |->
                                    IF stays(i) THEN c.items[i] ELSE RenderedItem(c.templates[i], result)]]

Repaired(c, spec, tails) == RepairExample(RepairFields(c, spec, tails), spec, tails)

---------------------------------------------------------------------------
(* The contract that is derived.                                            *)

Enumerated == << "decision", "confidence" >>
GenericNames == << "decision", "summary", "rationale", "confidence", "key_points", "assessment", "next_step" >>
GenericField(n) ==
    [name |-> n, sound |-> TRUE,
     type |-> IF n \in ToSet(Enumerated) THEN "enum" ELSE IF n = "key_points" THEN "string_array" ELSE "string"]

\* For a mutant: names that the guards read are taken, too.
GenericOfAnyName(tails) == LET free == FirstOf(GenericNames, 5) IN [i \in DOMAIN free |-> GenericField(free[i])]

GenericFields(tails) ==
    LET unread == { i \in DOMAIN GenericNames : GenericNames[i] \notin Reserved \cup tails }
        free == FirstOf(Chosen(GenericNames, unread), 5)
    IN [i \in DOMAIN free |-> GenericField(free[i])]

DerivedFields(spec, tails) ==
    IF spec.given /\ Len(UsableNames(spec)) >= MinFields THEN FirstOf(SpecFields(spec), MaxFields)
    ELSE GenericFields(tails)

\* Without any field there is nothing to list either: the code fails.
DerivedTemplates(spec, fields) ==
    LET names == Names(fields)
        listed == Chosen(Enumerated, { i \in DOMAIN Enumerated : Enumerated[i] \in ToSet(names) })
        shown == IF listed = << >> THEN FirstOf(names, 1) ELSE listed
    IN IF ValidTemplates(spec.templates) THEN spec.templates
       ELSE [i \in DOMAIN shown |-> [anchor |-> Own, slot |-> shown[i]]]

Derived(spec, tails) ==
    LET fields == DerivedFields(spec, tails)
        templates == DerivedTemplates(spec, fields)
        type(n) == (CHOOSE f \in ToSet(fields) : f.name = n).type
        result == [n \in ToSet(Names(fields)) |-> Canned(type(n))]
    IN [object |-> TRUE, prompt |-> IF spec.rules = "long" THEN "long" ELSE "fits", listed |-> TRUE, extras |-> TRUE,
        fields |-> fields, described |-> TRUE, templates |-> templates, example |-> TRUE,
        result |-> result, items |-> [i \in DOMAIN templates |-> RenderedItem(templates[i], result)]]
=============================================================================
