-------------------------- MODULE StageGates_proofs --------------------------
(***************************************************************************)
(* Theorems about the contract of a stage, authored or derived, about the   *)
(* bodies of later stages and what exports print, for every reasoning       *)
(* stage, later stage and state of a program, and any number of answers and *)
(* drafts; and, from "The program of the stages" on, about the sessions of  *)
(* the program that is made of any topology (ProgramTopology).              *)
(***************************************************************************)
EXTENDS StageGates, WellFoundedInduction, FiniteSetTheorems, TLAPS

---------------------------------------------------------------------------
(* Types.                                                                   *)

\* The contract is there before a body is asked for.
Staged ==
    /\ at \in { "turn", "draft", "running", "judged" } => contract.object
    /\ at = "contract" => source = "none"

TInv == TypeOK /\ Staged

LEMMA AnswerFields ==
    ASSUME NEW a, IsContract(a)
    PROVE  /\ a.fields \in Seq(Field) /\ a.templates \in Seq(Template) /\ a.items \in Seq(Item)
           /\ a.object \in BOOLEAN
           /\ a = [object |-> a.object, prompt |-> a.prompt, listed |-> a.listed, extras |-> a.extras,
                   fields |-> a.fields, described |-> a.described, templates |-> a.templates,
                   example |-> a.example, result |-> a.result, items |-> a.items]
BY DEF IsContract

\* Repairs leave it an object.
LEMMA RepairedIsObject ==
    ASSUME NEW a, IsContract(a), NEW spec, NEW tails
    PROVE  Repaired(a, spec, tails).object = a.object
<1> DEFINE b == RepairFields(a, spec, tails)
<1>1. "object" \in DOMAIN a
  BY DEF IsContract
<1>2. ASSUME NEW f, b = [a EXCEPT !.fields = f, !.extras = TRUE]
      PROVE  b.object = a.object /\ DOMAIN b = DOMAIN a
  <2> HIDE DEF b
  <2> QED BY <1>1, <1>2
<1>3. b.object = a.object /\ DOMAIN b = DOMAIN a
  <2>1. CASE ~ a.listed
    BY <2>1 DEF RepairFields
  <2>2. CASE a.listed /\ Binds(spec)
    BY <1>2, <2>2 DEF RepairFields
  <2>3. CASE a.listed /\ ~ Binds(spec)
    <3> DEFINE kept == SoundFields(a, spec, tails)
               f == FirstOf(kept, MaxFields)
    <3>1. b \in { a, [a EXCEPT !.fields = f, !.extras = TRUE] }
      BY <2>3 DEF RepairFields
    <3> HIDE DEF f, b
    <3> QED BY <1>2, <3>1
  <2> QED BY <2>1, <2>2, <2>3
<1> HIDE DEF b
<1>4. RepairExample(b, spec, tails).object = b.object
  <2>1. \/ RepairExample(b, spec, tails) = b
        \/ \E r, e : RepairExample(b, spec, tails) = [b EXCEPT !.result = r, !.example = TRUE, !.items = e]
    BY DEF RepairExample
  <2> QED BY <1>1, <1>3, <2>1
<1> QED BY <1>3, <1>4 DEF Repaired, b

LEMMA StageTypes ==
    Spec => []TInv
<1> USE DEF TInv, TypeOK, Staged
<1>1. Init => TInv
  BY StageBounds DEF Init
<1>2. TInv /\ [Next]_vars => TInv'
  <2> SUFFICES ASSUME TInv, [Next]_vars PROVE TInv'
    OBVIOUS
  <2>1. ASSUME NEW a \in prior.answers, Answer(a) PROVE TInv'
    <3>1. a.object => Repaired(a, prior.spec, prior.tails).object
      BY ContractedAreTyped, RepairedIsObject DEF IsContract
    <3> QED BY <2>1, <3>1, StageBounds DEF Answer
  <2>2. CASE NoAnswer
    BY <2>2, StageBounds DEF NoAnswer
  <2>3. CASE Derive
    <3>1. Derived(prior.spec, prior.tails).object = TRUE
      BY DEF Derived
    <3> QED BY <2>3, <3>1 DEF Derive
  <2>4. CASE GiveUp
    BY <2>4 DEF GiveUp
  <2>5. ASSUME NEW s \in Stages, Turn(s) PROVE TInv'
    BY <2>5, StageBounds DEF Turn
  <2>6. ASSUME NEW b, NEW by \in { "model", "foundry" }, Wanted, left' \in 0 .. MaxDrafts, Try(b, by) PROVE TInv'
    BY <2>6 DEF Wanted, Try
  <2>7. ASSUME NEW b, Draft(b) PROVE TInv'
    <3>1. left' \in 0 .. MaxDrafts
      BY <2>7, StageBounds DEF Draft
    <3> QED BY <2>6, <2>7, <3>1 DEF Draft
  <2>8. CASE NoDraft
    BY <2>8, StageBounds DEF NoDraft, Wanted
  <2>9. CASE Render
    BY <2>6, <2>9 DEF Render
  <2>10. CASE Settle
    BY <2>10 DEF Settle
  <2>11. CASE TimeOut
    BY <2>11 DEF TimeOut
  <2>12. ASSUME NEW d \in Domains, Publish(d) PROVE TInv'
    BY <2>12 DEF Publish
  <2>13. CASE UNCHANGED vars
    BY <2>13 DEF vars
  <2> QED BY <2>1, <2>2, <2>3, <2>4, <2>5, <2>7, <2>8, <2>9, <2>10, <2>11, <2>12, <2>13 DEF Next
<1> QED BY <1>1, <1>2, PTL DEF Spec

\* Bodies are judged for a stage only after there is a contract, verdicts are there when
\* a body has been judged, and only an accepted export prints (synthesizeDomainLogic).
THEOREM StagesTypeCorrect ==
    Spec => []TypeOK
<1>1. TInv => TypeOK
  BY DEF TInv
<1> QED BY <1>1, StageTypes, PTL

---------------------------------------------------------------------------
(* Repairs.                                                                 *)

LEMMA FieldTypeIsPlain ==
    ASSUME NEW h
    PROVE  FieldType(h) \in { "string", "number", "boolean", "string_array", "record_array" }
BY DEF FieldType

\* An example that is right is left alone.
LEMMA ExampleStays ==
    ASSUME NEW c, IsContract(c), NEW spec, NEW tails, SoundContract(c, spec, tails)
    PROVE  RepairExample(c, spec, tails) = c
<1> DEFINE wrong == { f \in ToSet(c.fields) : ~ SampleFits(c, f) }
           new == { f.name : f \in wrong }
           type(n) == (CHOOSE f \in wrong : f.name = n).type
           result == [n \in DOMAIN c.result \cup new |-> IF n \in new THEN Canned(type(n)) ELSE c.result[n]]
           stays(i) == wrong = {} /\ i \in DOMAIN c.items /\ Matches(c.items[i], c.templates[i])
           items == [i \in DOMAIN c.templates |->
                        IF stays(i) THEN c.items[i] ELSE RenderedItem(c.templates[i], result)]
<1>1. /\ c.listed /\ c.example = TRUE
      /\ \A i \in DOMAIN c.fields : SoundField(c.fields[i], spec, tails) /\ SampleFits(c, c.fields[i])
      /\ Len(c.items) = Len(c.templates)
      /\ \A i \in DOMAIN c.items : Matches(c.items[i], c.templates[i])
  BY DEF SoundContract, IsContract
<1>2. wrong = {}
  <2> SUFFICES ASSUME NEW f \in ToSet(c.fields) PROVE SampleFits(c, f)
    OBVIOUS
  <2>1. PICK i \in DOMAIN c.fields : f = c.fields[i]
    BY DEF ToSet
  <2> QED BY <1>1, <2>1
<1>3. new = {}
  BY <1>2
<1>4. result = c.result
  <2>1. c.result = [n \in DOMAIN c.result |-> c.result[n]]
    BY DEF IsContract
  <2>2. result = [n \in DOMAIN c.result |-> c.result[n]]
    <3> HIDE DEF new, type
    <3> QED BY <1>3
  <2> QED BY <2>1, <2>2
<1>5. items = c.items
  <2>1. c.items \in Seq(Item) /\ c.templates \in Seq(Template)
    BY DEF IsContract
  <2>2. DOMAIN c.items = DOMAIN c.templates
    BY <1>1, <2>1
  <2>3. \A i \in DOMAIN c.templates : stays(i)
    BY <1>1, <1>2, <2>2
  <2>4. items = [i \in DOMAIN c.items |-> c.items[i]]
    <3> HIDE DEF stays, result
    <3> QED BY <2>2, <2>3
  <2>5. c.items \in [1 .. Len(c.items) -> Item]
    BY <2>1
  <2> HIDE DEF items
  <2> QED BY <2>4, <2>5
<1>6. RepairExample(c, spec, tails) = [c EXCEPT !.result = result, !.example = TRUE, !.items = items]
  BY <1>1 DEF RepairExample
<1> HIDE DEF result, items
<1>7. [c EXCEPT !.result = c.result, !.example = TRUE, !.items = c.items] = c
  <2>1. c = [n \in DOMAIN c |-> c[n]]
    BY DEF IsContract
  <2> QED BY <1>1, <2>1
<1> QED BY <1>4, <1>5, <1>6, <1>7

\* Right fields that the specification binds are those it asks for.
LEMMA BoundFields ==
    ASSUME NEW a, IsContract(a), NEW spec, NEW tails, SoundContract(a, spec, tails), Binds(spec),
           \A i \in DOMAIN SpecFields(spec) : SpecFields(spec)[i].sound
    PROVE  /\ SpecFields(spec) = Widened(a.fields)
           /\ Widened(a.fields) \in Seq(Field)
           /\ Len(Widened(a.fields)) = Len(a.fields)
           /\ Names(Widened(a.fields)) = Names(a.fields)
<1> DEFINE names == UsableNames(spec)
           wide == Widened(a.fields)
<1>1. a.fields \in Seq(Field) /\ Names(a.fields) = names
  BY DEF IsContract, SoundContract, Agrees
<1>2. DOMAIN a.fields = DOMAIN names /\ \A i \in DOMAIN a.fields : names[i] = a.fields[i].name
  BY <1>1 DEF Names
<1>3. \A i \in DOMAIN a.fields : a.fields[i] \in Field
  BY <1>1
<1>4. ASSUME NEW i \in DOMAIN a.fields
      PROVE  /\ wide[i] = [a.fields[i] EXCEPT !.type = IF @ = "enum" THEN "string" ELSE @]
             /\ wide[i] \in Field
             /\ wide[i].name = a.fields[i].name
             /\ SpecFields(spec)[i] = wide[i]
  <2> DEFINE f == a.fields[i]
             t == FieldType(spec.hint[f.name])
  <2>1. wide[i] = [f EXCEPT !.type = IF @ = "enum" THEN "string" ELSE @]
    BY DEF Widened
  <2>2. f \in [name : STRING, type : FieldTypes, sound : BOOLEAN]
    BY <1>3 DEF Field
  <2>3. f.sound = TRUE
    BY <2>2 DEF SoundContract, SoundField
  <2>4. f.type \in IF t = "string" THEN { "string", "enum" } ELSE { t }
    BY DEF SoundContract, Agrees
  <2>5. t \in FieldTypes /\ t # "enum"
    BY FieldTypeIsPlain DEF FieldTypes
  <2>6. SpecFields(spec)[i] = SpecField(names[i], spec)
    BY <1>2 DEF SpecFields
  <2>7. SpecField(names[i], spec) = [name |-> f.name, type |-> t, sound |-> spec.hint[f.name] # "odd_records"]
    BY <1>2 DEF SpecField
  <2>8. SpecFields(spec)[i].sound
    BY <1>2 DEF SpecFields
  <2>9. (spec.hint[f.name] # "odd_records") = TRUE
    <3> SUFFICES ASSUME spec.hint[f.name] = "odd_records" PROVE FALSE
      BY Zenon
    <3>1. SpecField(names[i], spec) = [name |-> f.name, type |-> t, sound |-> FALSE]
      BY <2>7, Zenon
    <3>2. SpecFields(spec)[i].sound = FALSE
      BY <2>6, <3>1
    <3> QED BY <2>8, <3>2
  <2> HIDE DEF f, t, wide
  <2>10. wide[i] = [name |-> f.name, type |-> t, sound |-> TRUE]
    <3>1. (IF f.type = "enum" THEN "string" ELSE f.type) = t
      BY <2>4, <2>5
    <3>2. wide[i] = [name |-> f.name, type |-> IF f.type = "enum" THEN "string" ELSE f.type, sound |-> f.sound]
      BY <2>1, <2>2
    <3> QED BY <2>3, <3>1, <3>2
  <2>11. wide[i] \in Field /\ wide[i].name = f.name
    BY <2>2, <2>5, <2>10 DEF Field
  <2>12. SpecFields(spec)[i] = wide[i]
    BY <2>6, <2>7, <2>9, <2>10
  <2> QED BY <2>1, <2>11, <2>12 DEF f
<1>5. DOMAIN wide = DOMAIN a.fields /\ wide = [i \in DOMAIN a.fields |-> wide[i]]
  BY DEF Widened
<1>6. SpecFields(spec) = [i \in DOMAIN a.fields |-> SpecFields(spec)[i]]
  BY <1>2 DEF SpecFields
<1> HIDE DEF wide, names
<1>7. SpecFields(spec) = wide
  BY <1>4, <1>5, <1>6
<1>8. wide \in Seq(Field) /\ Len(wide) = Len(a.fields)
  <2>1. DOMAIN a.fields = 1 .. Len(a.fields) /\ Len(a.fields) \in Nat
    BY <1>1
  <2>2. wide \in [1 .. Len(a.fields) -> Field]
    BY <1>4, <1>5, <2>1
  <2> QED BY <2>1, <2>2
<1>9. Names(wide) = Names(a.fields)
  BY <1>4, <1>5 DEF Names
<1> QED BY <1>7, <1>8, <1>9 DEF wide

\* What is kept of a right answer: all, but that a bound choice becomes a text.
KeptOf(a, spec) == IF Binds(spec) THEN [a EXCEPT !.fields = Widened(@)] ELSE a

\* The fields of an answer, one after the other.
LEMMA WidenedStaysRight ==
    ASSUME NEW a, IsContract(a), NEW spec, NEW tails, SoundContract(a, spec, tails), Binds(spec),
           \A i \in DOMAIN SpecFields(spec) : SpecFields(spec)[i].sound,
           NEW b, b = [a EXCEPT !.fields = Widened(a.fields)]
    PROVE  IsContract(b) /\ SoundContract(b, spec, tails)
<1> DEFINE wide == Widened(a.fields)
<1>1. /\ wide \in Seq(Field) /\ Len(wide) = Len(a.fields) /\ Names(wide) = Names(a.fields)
      /\ DOMAIN wide = DOMAIN a.fields
  BY BoundFields DEF Widened
<1>2. /\ b.object = a.object /\ b.prompt = a.prompt /\ b.listed = a.listed /\ b.extras = a.extras
      /\ b.fields = wide /\ b.described = a.described /\ b.templates = a.templates
      /\ b.example = a.example /\ b.result = a.result /\ b.items = a.items
      /\ b = [object |-> b.object, prompt |-> b.prompt, listed |-> b.listed, extras |-> b.extras,
              fields |-> b.fields, described |-> b.described, templates |-> b.templates,
              example |-> b.example, result |-> b.result, items |-> b.items]
  <2>1. PICK o, p, l, x, f, d, t, e, r, m :
            a = [object |-> o, prompt |-> p, listed |-> l, extras |-> x, fields |-> f,
                 described |-> d, templates |-> t, example |-> e, result |-> r, items |-> m]
    BY Zenon DEF IsContract
  <2> HIDE DEF wide
  <2>2. b = [object |-> o, prompt |-> p, listed |-> l, extras |-> x, fields |-> wide,
             described |-> d, templates |-> t, example |-> e, result |-> r, items |-> m]
    BY <2>1 DEF wide
  <2> QED BY <2>1, <2>2
<1>3. IsContract(b)
  BY <1>1, <1>2 DEF IsContract
<1>4. ASSUME NEW i \in DOMAIN wide
      PROVE  /\ wide[i].name = a.fields[i].name
             /\ wide[i].sound = a.fields[i].sound
             /\ wide[i].type = IF a.fields[i].type = "enum" THEN "string" ELSE a.fields[i].type
  <2>1. wide[i] = [a.fields[i] EXCEPT !.type = IF @ = "enum" THEN "string" ELSE @]
    BY <1>1 DEF Widened
  <2>2. a.fields[i] \in [name : STRING, type : FieldTypes, sound : BOOLEAN]
    <3>1. a.fields \in Seq(Field)
      BY DEF IsContract
    <3>2. a.fields[i] \in Field
      BY <1>1, <3>1
    <3> QED BY <3>2 DEF Field
  <2> HIDE DEF wide
  <2> QED BY <2>1, <2>2
<1> HIDE DEF wide
<1>5. \A i \in DOMAIN b.fields : SoundField(b.fields[i], spec, tails)
  <2> SUFFICES ASSUME NEW i \in DOMAIN wide PROVE SoundField(wide[i], spec, tails)
    BY <1>2
  <2>1. SoundField(a.fields[i], spec, tails)
    BY <1>1 DEF SoundContract
  <2> QED BY <1>4, <2>1 DEF SoundField
<1>6. \A i \in DOMAIN b.fields : SampleFits(b, b.fields[i])
  <2> SUFFICES ASSUME NEW i \in DOMAIN wide PROVE SampleFits(b, wide[i])
    BY <1>2
  <2>1. SampleFits(a, a.fields[i])
    BY <1>1 DEF SoundContract
  <2>2. CASE a.fields[i].type = "enum"
    <3>1. a.result[a.fields[i].name] = "member" /\ a.fields[i].name \in DOMAIN a.result
      BY <2>1, <2>2 DEF SampleFits, Fits
    <3>2. wide[i].type = "string" /\ b.result[wide[i].name] = "member" /\ wide[i].name \in DOMAIN b.result
      BY <1>2, <1>4, <2>2, <3>1
    <3>3. Fits("string", "member")
      BY DEF Fits
    <3> QED BY <3>2, <3>3 DEF SampleFits
  <2>3. CASE a.fields[i].type # "enum"
    BY <1>2, <1>4, <2>1, <2>3 DEF SampleFits
  <2> QED BY <2>2, <2>3
<1>7. Agrees(b, spec)
  <2>1. Names(b.fields) = UsableNames(spec) /\ (ValidTemplates(spec.templates) => b.templates = spec.templates)
    BY <1>1, <1>2 DEF SoundContract, Agrees
  <2>2. ASSUME NEW i \in DOMAIN wide
        PROVE  LET type == FieldType(spec.hint[wide[i].name]) IN
               wide[i].type \in IF type = "string" THEN { "string", "enum" } ELSE { type }
    <3> DEFINE t == FieldType(spec.hint[a.fields[i].name])
    <3>1. a.fields[i].type \in IF t = "string" THEN { "string", "enum" } ELSE { t }
      BY <1>1 DEF SoundContract, Agrees
    <3>2. t # "enum"
      BY FieldTypeIsPlain
    <3> HIDE DEF t
    <3>3. wide[i].type \in IF t = "string" THEN { "string", "enum" } ELSE { t }
      BY <1>4, <3>1, <3>2
    <3> QED BY <1>4, <3>3 DEF t
  <2> QED BY <1>2, <2>1, <2>2 DEF Agrees
<1>8. ~ ExampleIsMarked(b)
  BY <1>2 DEF SoundContract, ExampleIsMarked
<1>9. IsInjective(Names(b.fields)) /\ Len(b.fields) \in MinFields .. MaxFields
  BY <1>1, <1>2 DEF SoundContract
<1> QED BY <1>2, <1>3, <1>5, <1>6, <1>7, <1>8, <1>9 DEF SoundContract

LEMMA RightStaysRight ==
    ASSUME NEW a, IsContract(a), NEW spec, NEW tails, SoundContract(a, spec, tails),
           Binds(spec) => \A i \in DOMAIN SpecFields(spec) : SpecFields(spec)[i].sound
    PROVE  Repaired(a, spec, tails) = KeptOf(a, spec) /\ SoundContract(KeptOf(a, spec), spec, tails)
<1>1. /\ a.listed /\ a.extras = TRUE
      /\ \A i \in DOMAIN a.fields : SoundField(a.fields[i], spec, tails)
  BY DEF SoundContract, IsContract
<1>2. CASE Binds(spec)
  <2> DEFINE b == [a EXCEPT !.fields = Widened(a.fields)]
  <2>1. IsContract(b) /\ SoundContract(b, spec, tails)
    BY <1>2, WidenedStaysRight
  <2>2. RepairFields(a, spec, tails) = [a EXCEPT !.fields = Widened(a.fields), !.extras = TRUE]
    BY <1>1, <1>2, BoundFields DEF RepairFields
  <2>3. [a EXCEPT !.fields = Widened(a.fields), !.extras = TRUE] = b
    <3>1. "extras" \in DOMAIN a
      BY DEF IsContract
    <3> QED BY <1>1, <3>1
  <2>4. KeptOf(a, spec) = b
    BY <1>2 DEF KeptOf
  <2> HIDE DEF b
  <2> QED BY <2>1, <2>2, <2>3, <2>4, ExampleStays DEF Repaired
<1>3. CASE ~ Binds(spec)
  <2>1. RepairFields(a, spec, tails) = a
    BY <1>1, <1>3 DEF RepairFields
  <2> QED BY <1>3, <2>1, ExampleStays DEF Repaired, KeptOf
<1> QED BY <1>2, <1>3

\* A list of records that binds and is not described is fatal to an answer.
LEMMA UndescribedIsRefused ==
    ASSUME NEW a, IsContract(a), NEW spec, NEW tails, SoundContract(a, spec, tails), Binds(spec),
           NEW n \in DOMAIN SpecFields(spec), ~ SpecFields(spec)[n].sound
    PROVE  ~ SoundContract(Repaired(a, spec, tails), spec, tails)
<1> DEFINE b == RepairFields(a, spec, tails)
<1>1. b = [a EXCEPT !.fields = SpecFields(spec), !.extras = TRUE]
  BY DEF RepairFields, SoundContract
<1>2. b.fields = SpecFields(spec)
  <2>1. { "fields", "extras" } \subseteq DOMAIN a
    BY DEF IsContract
  <2> HIDE DEF b
  <2> QED BY <1>1, <2>1
<1>3. ~ SoundField(b.fields[n], spec, tails)
  BY <1>2 DEF SoundField
<1> HIDE DEF b
<1>4. RepairExample(b, spec, tails) = b
  BY <1>2, <1>3 DEF RepairExample
<1> QED BY <1>2, <1>3, <1>4 DEF Repaired, b, SoundContract

\* What the last answer came to.
Fixed == Repaired(raw, prior.spec, prior.tails)
FixedHolds == raw.object /\ SoundContract(Fixed, prior.spec, prior.tails)

ContractInv ==
    /\ raw.object => IsContract(raw)
    /\ FixedHolds => source = "author" /\ contract = Fixed
    /\ raw.object /\ ~ FixedHolds => source # "author"
    /\ source # "none" /\ at # "stuck" => SoundContract(contract, prior.spec, prior.tails)

LEMMA ContractInitially == Init => ContractInv
BY DEF Init, ContractInv, FixedHolds, NoContract

LEMMA ContractStep ==
    ASSUME TInv, ContractInv, [Next]_vars
    PROVE  ContractInv'
<1> USE DEF TInv, TypeOK, Staged
<1>1. ASSUME NEW a \in prior.answers, Answer(a) PROVE ContractInv'
  <2>1. IsContract(a) /\ a.object \in BOOLEAN
    BY ContractedAreTyped DEF IsContract
  <2>2. raw' = a /\ prior' = prior /\ Fixed' = Repaired(a, prior.spec, prior.tails) /\ source = "none" /\ at = "contract"
    BY <1>1 DEF Answer, Fixed
  <2>3. CASE a.object /\ SoundContract(Fixed', prior.spec, prior.tails)
    BY <1>1, <2>1, <2>2, <2>3 DEF Answer, ContractInv, FixedHolds
  <2>4. CASE ~ (a.object /\ SoundContract(Fixed', prior.spec, prior.tails))
    BY <1>1, <2>1, <2>2, <2>4 DEF Answer, ContractInv, FixedHolds
  <2> QED BY <2>3, <2>4
<1>2. CASE NoAnswer
  BY <1>2 DEF NoAnswer, ContractInv, FixedHolds, NoContract
<1>3. ASSUME prior' = prior, raw' = raw, contract' = contract, source' = source, at # "stuck" \/ at' = "stuck"
      PROVE  ContractInv'
  <2>1. Fixed' = Fixed /\ (FixedHolds' <=> FixedHolds)
    BY <1>3 DEF Fixed, FixedHolds
  <2> QED BY <1>3, <2>1 DEF ContractInv
<1>4. CASE Derive
  <2>1. prior' = prior /\ raw' = raw /\ source = "none" /\ at = "contract" /\ source' = "derived"
    BY <1>4 DEF Derive
  <2>2. Fixed' = Fixed /\ (FixedHolds' <=> FixedHolds) /\ ~ FixedHolds
    BY <2>1 DEF Fixed, FixedHolds, ContractInv
  <2> QED BY <1>4, <2>1, <2>2 DEF Derive, ContractInv
<1>5. CASE GiveUp
  BY <1>3, <1>5 DEF GiveUp
<1>6. ASSUME NEW s \in Stages, Turn(s) PROVE ContractInv'
  BY <1>3, <1>6 DEF Turn
<1>7. ASSUME NEW b, NEW by, Wanted, Try(b, by) PROVE ContractInv'
  BY <1>3, <1>7 DEF Try, Wanted
<1>8. ASSUME NEW b, Draft(b) PROVE ContractInv'
  BY <1>7, <1>8 DEF Draft
<1>9. CASE NoDraft
  BY <1>3, <1>9 DEF NoDraft, Wanted
<1>10. CASE Render
  BY <1>7, <1>10 DEF Render
<1>11. CASE Settle
  BY <1>3, <1>11 DEF Settle
<1>12. CASE TimeOut
  BY <1>3, <1>12 DEF TimeOut
<1>13. ASSUME NEW d \in Domains, Publish(d) PROVE ContractInv'
  BY <1>3, <1>13 DEF Publish
<1>14. CASE UNCHANGED vars
  BY <1>3, <1>14 DEF vars
<1> QED BY <1>1, <1>2, <1>4, <1>5, <1>6, <1>8, <1>9, <1>10, <1>11, <1>12, <1>13, <1>14 DEF Next

LEMMA ContractsHold ==
    Spec => []ContractInv
BY ContractInitially, StageTypes, ContractStep, PTL DEF Spec

\* An answer that is right by the judgement is taken as it is, but that a
\* specification that binds the fields makes texts of its choices, and lets
\* none through to a list of records it does not describe; and what is taken
\* in the end is right (synthesizeReasoningContract, repairedReasoningFields).
THEOREM RepairAlwaysKeeps ==
    Spec => []RepairKeepsWhatHolds
<1>1. ContractInv => RepairKeepsWhatHolds
  <2> SUFFICES ASSUME ContractInv PROVE RepairKeepsWhatHolds
    OBVIOUS
  <2> DEFINE odd == Binds(prior.spec) /\ \E i \in DOMAIN SpecFields(prior.spec) : ~ SpecFields(prior.spec)[i].sound
  <2>1. ASSUME raw.object, SoundContract(raw, prior.spec, prior.tails), odd
        PROVE  source # "author"
    BY <2>1, UndescribedIsRefused DEF ContractInv, FixedHolds, Fixed
  <2>2. ASSUME raw.object, SoundContract(raw, prior.spec, prior.tails), ~ odd
        PROVE  source = "author" /\ contract = IF Binds(prior.spec) THEN [raw EXCEPT !.fields = Widened(@)] ELSE raw
    <3>1. IsContract(raw)
      BY <2>2 DEF ContractInv
    <3>2. Fixed = KeptOf(raw, prior.spec) /\ FixedHolds
      BY <2>2, <3>1, RightStaysRight DEF Fixed, FixedHolds
    <3> QED BY <3>2 DEF ContractInv, KeptOf
  <2> HIDE DEF odd
  <2>3. raw.object /\ SoundContract(raw, prior.spec, prior.tails) =>
            IF odd THEN source # "author"
            ELSE source = "author" /\ contract = IF Binds(prior.spec) THEN [raw EXCEPT !.fields = Widened(@)] ELSE raw
    BY <2>1, <2>2
  <2> QED BY <2>3 DEF ContractInv, RepairKeepsWhatHolds, odd
<1> QED BY <1>1, ContractsHold, PTL

---------------------------------------------------------------------------
(* What a fixture holds and what the program serves.                        *)

\* What is known of a body while it is judged: only plain stages get drafts, and
\* a call that returned was judged by its inputs and by what it returned.
DraftInv ==
    /\ at \in { "turn", "draft", "running", "judged" } => source # "none"
    /\ left > 0 => Route(stage) = "plain"
    /\ at \in { "running", "judged" } /\ writer = "model" => Route(stage) = "plain"
    /\ at = "judged" /\ MayRun(body, stage) /\ body.ends = "returns" =>
          (verdict = "accepted" <=> Reaches(body) /\ Holds(body.out, stage))

LEMMA DraftStep ==
    ASSUME TInv, DraftInv, [Next]_vars
    PROVE  DraftInv'
<1> USE StageBounds DEF TInv, TypeOK, Staged, DraftInv
<1>1. ASSUME at' \notin { "running", "judged" }, left' \in { left, left - 1 }, stage' = stage,
             at' # "contract" /\ at' # "stuck" => source' # "none"
      PROVE  DraftInv'
  BY <1>1
<1>2. ASSUME NEW a \in prior.answers, Answer(a) PROVE DraftInv'
  BY <1>1, <1>2 DEF Answer
<1>3. CASE NoAnswer
  BY <1>1, <1>3 DEF NoAnswer
<1>4. CASE Derive
  BY <1>1, <1>4 DEF Derive
<1>5. CASE GiveUp
  BY <1>1, <1>5 DEF GiveUp
<1>6. ASSUME NEW s \in Stages, Turn(s) PROVE DraftInv'
  BY <1>6 DEF Turn
<1>7. ASSUME NEW b, NEW by, Wanted, Try(b, by), left' \in { left, left - 1 }, by = "model" => left > 0
      PROVE  DraftInv'
  <2>1. stage' = stage /\ source' = source /\ writer' = by /\ body' = b /\ contract' = contract
    BY <1>7 DEF Try
  <2>2. at' = IF MayRun(b, stage) THEN "running" ELSE "judged"
    BY <1>7 DEF Try
  <2> QED BY <1>7, <2>1, <2>2 DEF Wanted
<1>8. ASSUME NEW b, Draft(b) PROVE DraftInv'
  BY <1>7, <1>8 DEF Draft
<1>9. CASE NoDraft
  <2>1. Wanted /\ left > 0 /\ left' = left - 1
        /\ UNCHANGED << prior, asked, raw, contract, source, at, stage, writer, body, verdict, met, exported >>
    BY <1>9 DEF NoDraft
  <2>2. Reaches(body)' <=> Reaches(body)
    BY <2>1 DEF Reaches
  <2> QED BY <2>1, <2>2
<1>10. CASE Render
  BY <1>7, <1>10 DEF Render
<1>11. CASE Settle
  <2>1. /\ at = "running" /\ at' = "judged"
        /\ verdict' = IF body.ends = "returns" /\ Reaches(body) /\ Holds(body.out, stage) THEN "accepted" ELSE "refused"
        /\ UNCHANGED << prior, asked, raw, contract, source, stage, left, writer, body, met, exported >>
    BY <1>11 DEF Settle
  <2>2. Reaches(body)' <=> Reaches(body)
    BY <2>1 DEF Reaches
  <2> QED BY <2>1, <2>2
<1>12. CASE TimeOut
  BY <1>12 DEF TimeOut
<1>13. ASSUME UNCHANGED << prior, asked, raw, contract, source, at, stage, left, writer, body, verdict >>
       PROVE  DraftInv'
  <2>1. Reaches(body)' <=> Reaches(body)
    BY <1>13 DEF Reaches
  <2> QED BY <1>13, <2>1
<1>14. ASSUME NEW d \in Domains, Publish(d) PROVE DraftInv'
  BY <1>13, <1>14 DEF Publish
<1>15. CASE UNCHANGED vars
  BY <1>13, <1>15 DEF vars
<1> QED BY <1>2, <1>3, <1>4, <1>5, <1>6, <1>8, <1>9, <1>10, <1>11, <1>12, <1>14, <1>15 DEF Next

LEMMA DraftsJudged ==
    Spec => []DraftInv
<1>1. Init => DraftInv
  BY DEF Init, DraftInv
<1> QED BY <1>1, StageTypes, DraftStep, PTL DEF Spec

\* Of what the program serves, the fixture has all that it is not blind to.
LEMMA ServedIsSeeded ==
    ASSUME stage \in Stages, SoundContract(contract, prior.spec, prior.tails), NEW r, Served(r)
    PROVE  Seeded(r, stage.spec.reads, contract) <=> ~ Blind(r)
<1> DEFINE reads == stage.spec.reads
<1>1. CASE r.of = "inputs"
  BY <1>1 DEF Seeded, Blind, Reasoned
<1>2. CASE r.of = "domain_spec"
  BY <1>2 DEF Seeded, Blind, Reasoned
<1>3. CASE r.of = Reasoned
  <2>1. /\ r.form # "output" /\ r \in reads /\ HasPath(r)
        /\ \/ r.field = "all"
           \/ \E i \in DOMAIN contract.fields :
                 /\ contract.fields[i].name = r.field
                 /\ r.form = "result" => contract.fields[i].type # "record_array"
    BY <1>3 DEF Served, Reasoned
  <2>2. ~ Blind(r)
    BY <1>3 DEF Blind, Reasoned
  <2>3. Seeded(r, reads, contract) = SeededByExample(r, reads, contract)
    BY <1>3 DEF Seeded, Reasoned
  <2>4. \E q \in reads : q.of = Reasoned /\ (q.form = "output" <=> r.form = "output")
    BY <1>3, <2>1
  <2>5. ASSUME r.field = "all" PROVE SeededByExample(r, reads, contract)
    <3>1. r.form # "result"
      BY <2>1, <2>5 DEF HasPath
    <3> QED BY <2>4, <2>5, <3>1 DEF SeededByExample
  <2>6. ASSUME \E i \in DOMAIN contract.fields : contract.fields[i].name = r.field
        PROVE  SeededByExample(r, reads, contract)
    <3>1. PICK i \in DOMAIN contract.fields : contract.fields[i].name = r.field
      BY <2>6
    <3>2. r.field \in DOMAIN contract.result
      BY <3>1 DEF SoundContract, SampleFits
    <3>3. r.field \in ToSet(Names(contract.fields))
      BY <3>1 DEF ToSet, Names
    <3> QED BY <2>4, <3>2, <3>3 DEF SeededByExample
  <2>7. SeededByExample(r, reads, contract)
    BY <2>1, <2>5, <2>6
  <2> QED BY <2>2, <2>3, <2>7
<1>4. CASE r.of \notin { Reasoned, "inputs", "domain_spec" }
  <2> DEFINE named == { q \in reads : q.of = r.of /\ q.form = "result_json" /\ q.field # "all" }
  <2>1. r \in reads /\ HasPath(r) /\ (r.form = "output" \/ Mirrored(r.of))
    BY <1>4 DEF Served
  <2>2. r.form \in { "result_json", "items_json", "result", "output" }
    BY <1>4, <2>1, ReadsAreTyped DEF Flat
  <2>3. Seeded(r, reads, contract) <=> SeededBySample(r, reads)
    BY <1>4 DEF Seeded
  <2>4. Blind(r) <=> \/ r.form = "result"
                     \/ r.form \in { "result_json", "items_json" } /\ r.field = "all" /\ named = {}
    BY <1>4 DEF Blind
  <2>5. CASE r.form = "output"
    BY <2>1, <2>3, <2>4, <2>5 DEF SeededBySample
  <2>6. CASE r.form = "result_json"
    <3>1. SeededBySample(r, reads) <=> IF r.field = "all" THEN named # {} ELSE r \in named
      BY <2>6 DEF SeededBySample
    <3> QED BY <2>1, <2>3, <2>4, <2>6, <3>1
  <2>7. CASE r.form = "items_json"
    <3>1. SeededBySample(r, reads) <=> named # {}
      BY <2>7 DEF SeededBySample
    <3> QED BY <2>1, <2>3, <2>4, <2>7, <3>1 DEF HasPath
  <2>8. CASE r.form = "result"
    <3>1. ~ SeededBySample(r, reads)
      BY <2>8 DEF SeededBySample
    <3> QED BY <2>3, <2>4, <2>8, <3>1
  <2> QED BY <2>2, <2>5, <2>6, <2>7, <2>8
<1> QED BY <1>1, <1>2, <1>3, <1>4

\* A right draft that needs only what the program will give it is accepted, and
\* refused exactly if it needs one of the inputs that the fixture is blind to,
\* whatever the stage reads (behaviorFixtureFor, seedPriorStageOutputs).
THEOREM ServedAlwaysFound ==
    Spec => []ServedInputIsFound
<1>1. TInv /\ ContractInv /\ DraftInv => ServedInputIsFound
  <2> SUFFICES ASSUME TInv, ContractInv, DraftInv,
                      at = "judged", writer = "model", body.says = {}, body.ends = "returns",
                      OutputHolds(body.out, stage, "mock"), \A r \in body.needs : Served(r)
               PROVE  verdict = "accepted" <=> ~ \E r \in body.needs : Blind(r)
    BY DEF ServedInputIsFound
  <2>1. Route(stage) = "plain" /\ stage \in Stages /\ SoundContract(contract, prior.spec, prior.tails)
    BY DEF DraftInv, TInv, TypeOK, ContractInv
  <2>2. TextVerdict(body, stage) = "runs"
    BY DEF TextVerdict
  <2>3. MayRun(body, stage) /\ Holds(body.out, stage)
    BY <2>1, <2>2 DEF MayRun, Holds
  <2>4. verdict = "accepted" <=> Reaches(body)
    BY <2>3 DEF DraftInv
  <2>5. Reaches(body) <=> ~ \E r \in body.needs : Blind(r)
    BY <2>1, ServedIsSeeded DEF Reaches
  <2> QED BY <2>4, <2>5
<1> QED BY <1>1, StageTypes, ContractsHold, DraftsJudged, PTL

---------------------------------------------------------------------------
(* What is exported.                                                        *)

LEMMA LeastIndex ==
    ASSUME NEW I \in SUBSET Nat, I # {}
    PROVE  Min(I) \in I /\ \A i \in I : Min(I) <= i
<1> DEFINE less == OpToRel(<, Nat)
<1>1. \A j, k \in Nat : j < k => << j, k >> \in less
  BY DEF OpToRel
<1>2. IsWellFoundedOn(less, Nat)
  BY NatLessThanWellFounded
<1> HIDE DEF less
<1>3. PICK m \in I : \A i \in I : ~ (<< i, m >> \in less)
  BY <1>2, WFMin
<1>4. ASSUME NEW i \in I PROVE m <= i
  <2>1. ~ (i < m)
    BY <1>1, <1>3
  <2> QED BY <2>1
<1> QED BY <1>4 DEF Min

PrintInv == exported = {} \/ (exported = Sections(met) /\ met \in Domains)

LEMMA PrintedSections ==
    Spec => []PrintInv
<1>1. Init => PrintInv
  BY DEF Init, PrintInv
<1>2. PrintInv /\ [Next]_vars => PrintInv'
  <2> SUFFICES ASSUME PrintInv, [Next]_vars PROVE PrintInv'
    OBVIOUS
  <2>1. CASE UNCHANGED << met, exported >>
    BY <2>1 DEF PrintInv
  <2>2. ASSUME NEW d \in Domains, Publish(d) PROVE PrintInv'
    BY <2>2 DEF Publish, PrintInv
  <2>3. \/ UNCHANGED << met, exported >>
        \/ \E d \in Domains : Publish(d)
    BY DEF Next, vars, Answer, NoAnswer, Derive, GiveUp, Turn, Draft, Try, NoDraft, Render, Settle, TimeOut
  <2> QED BY <2>1, <2>2, <2>3
<1> QED BY <1>1, <1>2, PTL DEF Spec

\* The first field of an item that is there is read, be it empty.
LEMMA ProseIsRead ==
    ASSUME NEW d \in Domains, NEW i \in DOMAIN d.items,
           \E n \in DOMAIN BodyFields :
                BodyFields[n] \in DOMAIN ItemRecord(d.items[i]) /\ ItemRecord(d.items[i])[BodyFields[n]] = "prose",
           ~ \E n \in DOMAIN BodyFields :
                BodyFields[n] \in DOMAIN ItemRecord(d.items[i]) /\ ItemRecord(d.items[i])[BodyFields[n]] = "empty"
    PROVE  ItemBody(d.items[i]) = "prose"
<1> DEFINE record == ItemRecord(d.items[i])
           present == { n \in DOMAIN BodyFields : BodyFields[n] \in DOMAIN record }
<1>1. DOMAIN BodyFields = 1 .. 7
  BY DEF BodyFields
<1>2. present # {} /\ present \in SUBSET Nat
  BY <1>1
<1>3. Min(present) \in present
  BY <1>2, LeastIndex
<1>4. record[BodyFields[Min(present)]] \in { "prose", "empty" }
  BY <1>3, DomainsAreTyped
<1>5. record[BodyFields[Min(present)]] = "prose"
  BY <1>3, <1>4
<1> QED BY <1>2, <1>5 DEF ItemBody

\* A document prints, of every state of the program, no item that was refused or
\* is waiting, every approved item whose text is not behind an empty field, and
\* nothing of the export's own, raw or waiting state (approvedContentSectionsFromDomain).
THEOREM ExportsAlwaysApproved ==
    Spec => []ExportsWhatWasApproved
<1>1. PrintInv => ExportsWhatWasApproved
  <2> SUFFICES ASSUME exported # {}, exported = Sections(met), met \in Domains PROVE ExportsWhatWasApproved
    BY DEF PrintInv, ExportsWhatWasApproved
  <2> DEFINE approved == { i \in DOMAIN met.items : Approved(met.items[i]) /\ ItemBody(met.items[i]) = "prose" }
  <2>1. exported = CASE approved # {} -> { [what |-> "item", at |-> i] : i \in approved }
                     [] approved = {} /\ met.paths \cap Content # {} ->
                           { [what |-> p, at |-> 0] : p \in met.paths \cap Content }
                     [] OTHER -> { [what |-> "notice", at |-> 0] }
    BY DEF Sections
  <2>2. ASSUME NEW e \in exported
        PROVE  IF e.what = "item"
               THEN LET item == met.items[e.at]
                        status == IF "status" \in DOMAIN item.indexed THEN item.indexed["status"]
                                  ELSE IF "status" \in DOMAIN item.direct THEN item.direct["status"] ELSE "approved"
                    IN status \notin { "pending", "rejected" }
               ELSE e.what \in { "notice", "output", "result_json", "work" }
    <3> HIDE DEF approved
    <3>1. CASE approved # {}
      <4>1. PICK i \in approved : e = [what |-> "item", at |-> i]
        BY <2>1, <3>1
      <4> DEFINE item == met.items[i]
                 record == ItemRecord(item)
                 status == IF "status" \in DOMAIN item.indexed THEN item.indexed["status"]
                           ELSE IF "status" \in DOMAIN item.direct THEN item.direct["status"] ELSE "approved"
      <4>2. "status" \in DOMAIN record => record["status"] \in { "empty", "accepted", "approved" }
        BY DEF approved, Approved
      <4>3. /\ DOMAIN record = DOMAIN item.indexed \cup DOMAIN item.direct
            /\ "status" \in DOMAIN record =>
                 record["status"] = IF "status" \in DOMAIN item.indexed THEN item.indexed["status"] ELSE item.direct["status"]
        BY DEF ItemRecord, Over
      <4>4. status \notin { "pending", "rejected" }
        BY <4>2, <4>3
      <4> QED BY <4>1, <4>4
    <3>2. CASE approved = {} /\ met.paths \cap Content # {}
      BY <2>1, <3>2 DEF Content
    <3>3. CASE approved = {} /\ met.paths \cap Content = {}
      BY <2>1, <3>3
    <3> QED BY <3>1, <3>2, <3>3
  <2>3. ASSUME NEW i \in DOMAIN met.items, Approved(met.items[i]),
               \E n \in DOMAIN BodyFields :
                    BodyFields[n] \in DOMAIN ItemRecord(met.items[i]) /\ ItemRecord(met.items[i])[BodyFields[n]] = "prose",
               ~ \E n \in DOMAIN BodyFields :
                    BodyFields[n] \in DOMAIN ItemRecord(met.items[i]) /\ ItemRecord(met.items[i])[BodyFields[n]] = "empty"
        PROVE  [what |-> "item", at |-> i] \in exported
    <3>1. i \in approved
      BY <2>3, ProseIsRead
    <3> HIDE DEF approved
    <3> QED BY <2>1, <3>1
  <2> QED BY <2>2, <2>3 DEF ExportsWhatWasApproved
<1> QED BY <1>1, PrintedSections, PTL

---------------------------------------------------------------------------
(* The foundry's own bodies.                                                *)

\* The verdict of a body, and whose body it is.
BodyInv ==
    /\ at = "running" => MayRun(body, stage)
    /\ at = "judged" =>
          (verdict = "accepted" <=> MayRun(body, stage) /\ body.ends = "returns" /\ Reaches(body) /\ Holds(body.out, stage))
    /\ at \in { "running", "judged" } /\ writer = "foundry" => body = OwnBody(stage, contract)

LEMMA BodyStep ==
    ASSUME TInv, BodyInv, [Next]_vars
    PROVE  BodyInv'
<1> USE DEF TInv, TypeOK, Staged, BodyInv
<1>1. CASE at' \notin { "running", "judged" }
  BY <1>1
<1>2. ASSUME UNCHANGED << prior, contract, at, stage, writer, body, verdict >> PROVE BodyInv'
  <2>1. Reaches(body)' <=> Reaches(body)
    BY <1>2 DEF Reaches
  <2> QED BY <1>2, <2>1
<1>3. ASSUME NEW a \in prior.answers, Answer(a) PROVE BodyInv'
  BY <1>1, <1>3 DEF Answer
<1>4. CASE NoAnswer \/ Derive \/ GiveUp
  BY <1>1, <1>4 DEF NoAnswer, Derive, GiveUp
<1>5. ASSUME NEW s \in Stages, Turn(s) PROVE BodyInv'
  BY <1>1, <1>5 DEF Turn
<1>6. ASSUME NEW b, NEW by, Try(b, by), by = "foundry" => b = OwnBody(stage, contract) PROVE BodyInv'
  <2>1. stage' = stage /\ contract' = contract /\ body' = b /\ writer' = by
    BY <1>6 DEF Try
  <2>2. /\ at' = IF MayRun(b, stage) THEN "running" ELSE "judged"
        /\ verdict' = IF MayRun(b, stage) THEN "none" ELSE IF TextVerdict(b, stage) = "fatal" THEN "fatal" ELSE "refused"
    BY <1>6 DEF Try
  <2> QED BY <1>6, <2>1, <2>2
<1>7. ASSUME NEW b, Draft(b) PROVE BodyInv'
  BY <1>6, <1>7 DEF Draft
<1>8. CASE Render
  BY <1>6, <1>8 DEF Render
<1>9. CASE NoDraft
  BY <1>2, <1>9 DEF NoDraft
<1>10. CASE Settle
  <2>1. /\ at = "running" /\ at' = "judged"
        /\ verdict' = IF body.ends = "returns" /\ Reaches(body) /\ Holds(body.out, stage) THEN "accepted" ELSE "refused"
        /\ UNCHANGED << prior, asked, raw, contract, source, stage, left, writer, body, met, exported >>
    BY <1>10 DEF Settle
  <2>2. Reaches(body)' <=> Reaches(body)
    BY <2>1 DEF Reaches
  <2> QED BY <2>1, <2>2
<1>11. CASE TimeOut
  <2>1. /\ at = "running" /\ at' = "judged" /\ verdict' = "refused" /\ body.ends = "waits"
        /\ UNCHANGED << prior, asked, raw, contract, source, stage, left, writer, body, met, exported >>
    BY <1>11 DEF TimeOut
  <2> QED BY <2>1
<1>12. ASSUME NEW d \in Domains, Publish(d) PROVE BodyInv'
  BY <1>2, <1>12 DEF Publish
<1>13. CASE UNCHANGED vars
  BY <1>2, <1>13 DEF vars
<1> QED BY <1>3, <1>4, <1>5, <1>7, <1>8, <1>9, <1>10, <1>11, <1>12, <1>13 DEF Next

LEMMA BodiesJudged ==
    Spec => []BodyInv
<1>1. Init => BodyInv
  BY DEF Init, BodyInv
<1> QED BY <1>1, StageTypes, BodyStep, PTL DEF Spec

\* A body passes when its text is let through, its call returns, and what it returns holds.
Passes(b, s) == MayRun(b, s) /\ b.ends = "returns" /\ Holds(b.out, s)

LEMMA Routes ==
    ASSUME NEW s, IsStage(s)
    PROVE  /\ Route(s) \in { "plain", "http", "module", "docx", "html", "pdf", "web", "persistence" }
           /\ Route(s) \in { "docx", "html", "pdf" } => s.export = Route(s) /\ s.archetype = "pure-compute"
           /\ Route(s) \notin { "docx", "html", "pdf" } => s.export = "none"
           /\ Route(s) \in { "web", "persistence" } => s.archetype = "external-adapter"
           /\ Route(s) \in { "http", "module" } => s.archetype = "external-adapter"
BY DEF IsStage, Route

\* A text with nothing in it but what the way of the stage lets through.
LEMMA TextRuns ==
    ASSUME NEW s, NEW b, b.says \subseteq { "stub", "import", "fetch", "env" }
    PROVE  TextVerdict(b, s) = "runs" <=> "stub" \notin b.says /\ b.says \subseteq Granted(Route(s))
<1>1. Granted(Route(s)) \subseteq { "import", "fetch", "env" }
  BY DEF Granted
<1>2. "governed" \notin b.says /\ b.says \cap Malformed(Route(s)) = {}
  BY DEF Malformed
<1>3. b.says \cap (StubWords(s.archetype) \cup (Unsafe \ Granted(Route(s)))) = {}
        <=> "stub" \notin b.says /\ b.says \subseteq Granted(Route(s))
  BY <1>1 DEF StubWords, Unsafe
<1> QED BY <1>2, <1>3 DEF TextVerdict

LEMMA OwnModuleFails ==
    ASSUME NEW s, IsStage(s), NEW c, Route(s) = "module"
    PROVE  ~ Passes(OwnBody(s, c), s)
BY DEF Passes, MayRun

LEMMA ThroughRuntime ==
    ASSUME NEW call PROVE Through("runtime", call) = << call >>
BY DEF Through

LEMMA OwnWebPasses ==
    ASSUME NEW s, IsStage(s), NEW c, Route(s) = "web"
    PROVE  Passes(OwnBody(s, c), s)
<1> DEFINE b == Navigate(WebFixture)
           call == [url |-> "team", domains |-> { "example.com" }]
           keys == << "items", "pages_visited", "audit" >>
<1>1. OwnBody(s, c) = b
  BY DEF OwnBody
<1>2. CurrentSource(WebFixture) = Page
  <2> DEFINE sources == WebFixture.sources
             named == { n \in DOMAIN SourcePlaces : SourcePlaces[n] \in DOMAIN sources /\ sources[SourcePlaces[n]].url # "" }
  <2>1. sources = [source |-> [url |-> "fallback", domains |-> {}], current_source |-> Page]
    BY DEF WebFixture
  <2>2. DOMAIN SourcePlaces = 1 .. 4 /\ SourcePlaces[1] = "current_source"
    BY DEF SourcePlaces
  <2>3. DOMAIN sources = { "source", "current_source" } /\ sources["current_source"] = Page /\ Page.url = "team"
    BY <2>1 DEF Page
  <2> HIDE DEF sources
  <2>4. 1 \in named /\ named \in SUBSET (1 .. 4)
    <3>1. 1 \in DOMAIN SourcePlaces /\ SourcePlaces[1] \in DOMAIN sources
      BY <2>2, <2>3
    <3>2. sources[SourcePlaces[1]].url # ""
      BY <2>2, <2>3
    <3>3. named \subseteq DOMAIN SourcePlaces
      OBVIOUS
    <3>4. 1 \in named
      BY <3>1, <3>2
    <3> HIDE DEF named
    <3> QED BY <2>2, <3>3, <3>4
  <2> HIDE DEF named
  <2>5. Min(named) = 1
    <3>1. named \in SUBSET Nat /\ named # {}
      BY <2>4
    <3>2. Min(named) \in named /\ Min(named) <= 1
      BY <2>4, <3>1, LeastIndex
    <3>3. Min(named) \in 1 .. 4
      BY <2>4, <3>2
    <3> QED BY <3>2, <3>3
  <2>6. CurrentSource(WebFixture) = IF named = {} THEN [url |-> "", domains |-> {}] ELSE sources[SourcePlaces[Min(named)]]
    BY DEF CurrentSource, named, sources
  <2> QED BY <2>2, <2>3, <2>4, <2>5, <2>6
<1>3. b = Says({ "import" }, [Output(keys, OwnFor(keys), << Plain("lead:") >>, "mock") EXCEPT !.calls = << call >>])
  <2>1. Page.url = "team" /\ Page.domains = { "example.com" }
    BY DEF Page
  <2>2. WebFixture.described /\ WebFixture.host = "runtime"
    BY DEF WebFixture
  <2>3. Page.url # "" /\ Page.domains # {}
    BY <2>1
  <2> QED BY <1>2, <2>1, <2>2, <2>3, ThroughRuntime DEF Navigate
<1> HIDE DEF b
<1>4. b.says = { "import" } /\ b.ends = "returns"
  BY <1>3 DEF Says
<1>5. b.out = [shape |-> "fine", keys |-> keys, value |-> OwnFor(keys), items |-> << Plain("lead:") >>,
               adapter |-> "mock", sections |-> 0, calls |-> << call >>]
  BY <1>3 DEF Says, Output
<1>6. MayRun(b, s)
  BY <1>4, TextRuns, Routes DEF MayRun, Granted
<1>7. NavigationHolds(b.out)
  BY <1>5 DEF NavigationHolds
<1> QED BY <1>1, <1>4, <1>6, <1>7 DEF Passes, Holds

LEMMA OwnPersistencePasses ==
    ASSUME NEW s, IsStage(s), NEW c, Route(s) = "persistence"
    PROVE  Passes(OwnBody(s, c), s)
<1> DEFINE b == Persist(StoreFixture)
           records == << "a", "a", "b" >>
           call == [method |-> "upsert_lead", records |-> records]
           keys == << "inserted", "updated", "new_vs_existing" >>
           items == [i \in DOMAIN records |-> Plain(records[i])]
<1>1. OwnBody(s, c) = b
  BY DEF OwnBody
<1>2. b = Says({ "import" }, [Output(keys, OwnFor(keys), items, "mock") EXCEPT !.calls = << call >>])
  <2> DEFINE filled == { n \in DOMAIN StoreFixture.places : StoreFixture.places[n] # << >> }
  <2>1. StoreFixture.places = << << >>, records >> /\ StoreFixture.keyed /\ StoreFixture.host = "runtime"
        /\ StoreFixture.entity = "lead"
    BY DEF StoreFixture
  <2>2. filled = { 2 }
    BY <2>1
  <2>3. Min(filled) = 2
    BY <2>2, LeastIndex
  <2>4. StoreFixture.places[Min(filled)] = records
    BY <2>1, <2>3
  <2> HIDE DEF records
  <2> QED BY <2>1, <2>2, <2>4, ThroughRuntime DEF Persist
<1> HIDE DEF b
<1>3. b.says = { "import" } /\ b.ends = "returns"
  BY <1>2 DEF Says
<1>4. b.out = [shape |-> "fine", keys |-> keys, value |-> OwnFor(keys), items |-> items,
               adapter |-> "mock", sections |-> 0, calls |-> << call >>]
  BY <1>2 DEF Says, Output
<1>5. MayRun(b, s)
  BY <1>3, TextRuns, Routes DEF MayRun, Granted
<1>6. Len(items) = 3
  BY DEF Plain
<1>7. Upserted(records, { "a" }) = [inserted |-> 1, updated |-> 1]
  <2>1. ToSet(records) = { "a", "b" }
    BY DEF ToSet
  <2>2. ToSet(records) \ { "a" } = { "b" } /\ ToSet(records) \cap { "a" } = { "a" }
    BY <2>1
  <2>3. Cardinality({ "a" }) = 1 /\ Cardinality({ "b" }) = 1
    BY FS_Singleton
  <2> QED BY <2>2, <2>3 DEF Upserted
<1>8. PersistenceHolds(b.out)
  <2> HIDE DEF items
  <2> QED BY <1>4, <1>6, <1>7 DEF PersistenceHolds
<1> QED BY <1>1, <1>3, <1>5, <1>8 DEF Passes, Holds

\* What an export returns is what the specification of its stage asks for.
LEMMA ExportHolds ==
    ASSUME NEW s, IsStage(s), s.export # "none", s.archetype = "pure-compute",
           NEW out, NEW keys, NEW anchor,
           SpecOf(s) = IF s.spec.given THEN [s.spec EXCEPT !.shaped = TRUE, !.keys = keys,
                                                           !.templates = << [anchor |-> anchor, slot |-> "sha256"] >>]
                       ELSE s.spec,
           out.shape = "fine", out.keys = keys, out.value = OwnFor(keys), out.items = << Plain(anchor) >>,
           "stage" \in ToSet(keys), ToSet(keys) \cap (Amounts \cup { "parameters_json" }) = {}
    PROVE  OutputHolds(out, s, "mock")
<1> DEFINE spec == SpecOf(s)
<1>1. /\ s.spec.given => spec.shaped /\ spec.keys = keys /\ spec.templates = << [anchor |-> anchor, slot |-> "sha256"] >>
      /\ ~ s.spec.given => ~ spec.shaped /\ spec.templates = << >>
  <2>1. CASE s.spec.given
    <3>1. spec = [s.spec EXCEPT !.shaped = TRUE, !.keys = keys, !.templates = << [anchor |-> anchor, slot |-> "sha256"] >>]
      BY <2>1
    <3>2. { "shaped", "keys", "templates" } \subseteq DOMAIN s.spec
      BY DEF IsStage, IsSpec, NoSpec
    <3> HIDE DEF spec
    <3> QED BY <2>1, <3>1, <3>2
  <2>2. CASE ~ s.spec.given
    BY <2>2 DEF IsStage, IsSpec
  <2> QED BY <2>1, <2>2
<1> HIDE DEF spec
<1>2. out.value["stage"] = "own"
  BY DEF OwnFor
<1>3. KeysHold(out, spec)
  BY <1>1, <1>2 DEF KeysHold, IsStage, IsSpec
<1>4. FeesHold(out, spec)
  <2>1. spec.shaped => Amounts \cap ToSet(spec.keys) = {} /\ "parameters_json" \notin ToSet(spec.keys)
    BY <1>1 DEF IsStage, IsSpec
  <2> QED BY <2>1 DEF FeesHold
<1>5. ItemsHold(out, spec)
  <2>1. out.items # << >> /\ Len(out.items) = 1 /\ DOMAIN out.items = { 1 } /\ out.items[1] = Plain(anchor)
    OBVIOUS
  <2>2. Matches(Plain(anchor), [anchor |-> anchor, slot |-> "sha256"])
    BY DEF Matches, Plain
  <2>3. CASE s.spec.given
    BY <1>1, <2>1, <2>2, <2>3 DEF ItemsHold
  <2>4. CASE ~ s.spec.given
    BY <1>1, <2>1, <2>4 DEF ItemsHold
  <2> QED BY <2>3, <2>4
<1> QED BY <1>3, <1>4, <1>5 DEF OutputHolds, spec

LEMMA OwnDocumentPasses ==
    ASSUME NEW s, IsStage(s), NEW c, Route(s) \in { "docx", "html" }
    PROVE  Passes(OwnBody(s, c), s) <=> s.title = "plain"
<1> DEFINE text == IF s.title = "marked" THEN { "stub" } ELSE {}
           b == Export(s.export, text, ExportFixture)
           keys == IF s.export = "docx" THEN << "stage", "docx_base64", "docx_bytes", "sha256", "section_count" >>
                   ELSE << "stage", "html", "html_bytes", "sha256", "section_count" >>
           anchor == IF s.export = "docx" THEN "docx_export:" ELSE "html_export:"
           n == Cardinality(Sections(ExportFixture))
           blank == [items |-> << >>, paths |-> {}]
<1>1. OwnBody(s, c) = b
  BY DEF OwnBody
<1>2. s.export = Route(s) /\ s.archetype = "pure-compute"
  BY Routes
<1>3. ASSUME NEW t, NEW d
      PROVE  /\ Export(s.export, t, d).says = t \cup { "import" } /\ Export(s.export, t, d).ends = "returns"
             /\ Export(s.export, t, d).out = [shape |-> "fine", keys |-> keys, value |-> OwnFor(keys),
                    items |-> << Plain(anchor) >>, adapter |-> "none",
                    sections |-> Cardinality(Sections(d)), calls |-> << >>]
  <2>1. Export(s.export, t, d) = Says(t \cup { "import" },
            [Output(keys, OwnFor(keys), << Plain(anchor) >>, "none") EXCEPT !.sections = Cardinality(Sections(d))])
    BY DEF Export
  <2> HIDE DEF keys, anchor
  <2> QED BY <2>1 DEF Says, Output
<1>4. /\ b.says = text \cup { "import" } /\ b.ends = "returns"
      /\ b.out = [shape |-> "fine", keys |-> keys, value |-> OwnFor(keys), items |-> << Plain(anchor) >>,
                  adapter |-> "none", sections |-> n, calls |-> << >>]
  BY <1>3
<1>5. n = 1
  <2>1. ExportFixture.items = << >> /\ ExportFixture.paths \cap Content = { "output" }
    BY DEF ExportFixture, Content
  <2>2. Sections(ExportFixture) = { [what |-> p, at |-> 0] : p \in { "output" } }
    BY <2>1 DEF Sections
  <2>3. Sections(ExportFixture) = { [what |-> "output", at |-> 0] }
    BY <2>2
  <2> QED BY <2>3, FS_Singleton
<1>6. SpecOf(s) = IF s.spec.given THEN [s.spec EXCEPT !.shaped = TRUE, !.keys = keys,
                                                      !.templates = << [anchor |-> anchor, slot |-> "sha256"] >>]
                  ELSE s.spec
  <2> DEFINE own == Export(s.export, {}, blank).out
  <2>1. own.keys = keys /\ own.items[1].anchor = anchor
    <3>1. own = [shape |-> "fine", keys |-> keys, value |-> OwnFor(keys), items |-> << Plain(anchor) >>,
                 adapter |-> "none", sections |-> Cardinality(Sections(blank)), calls |-> << >>]
      BY <1>3
    <3> HIDE DEF own, keys, anchor, blank
    <3>2. own.keys = keys /\ own.items = << Plain(anchor) >>
      BY <3>1
    <3> QED BY <3>2 DEF Plain
  <2>2. SpecOf(s) = IF s.spec.given THEN [s.spec EXCEPT !.shaped = TRUE, !.keys = own.keys,
                                      !.templates = << [anchor |-> own.items[1].anchor, slot |-> "sha256"] >>]
                    ELSE s.spec
    BY <1>2 DEF SpecOf
  <2> HIDE DEF own, keys, anchor
  <2> QED BY <2>1, <2>2
<1>7. "stage" \in ToSet(keys) /\ ToSet(keys) \cap (Amounts \cup { "parameters_json" }) = {}
  BY DEF ToSet, Amounts
<1> HIDE DEF b, keys, anchor, n
<1>8. OutputHolds(b.out, s, "mock") /\ b.out.sections > 0
  <2>1. s.export # "none"
    BY <1>2
  <2>2. /\ b.out.shape = "fine" /\ b.out.keys = keys /\ b.out.value = OwnFor(keys)
        /\ b.out.items = << Plain(anchor) >> /\ b.out.sections = 1
    BY <1>4, <1>5
  <2>3. OutputHolds(b.out, s, "mock")
    BY <1>2, <1>6, <1>7, <2>1, <2>2, ExportHolds
  <2> QED BY <2>2, <2>3
<1>9. Passes(b, s) <=> TextVerdict(b, s) = "runs"
  BY <1>4, <1>8 DEF Passes, MayRun, Holds
<1>10. TextVerdict(b, s) = "runs" <=> s.title # "marked"
  <2>1. Granted(Route(s)) = { "import" }
    BY DEF Granted
  <2>2. b.says \subseteq { "stub", "import", "fetch", "env" }
    BY <1>4
  <2>3. TextVerdict(b, s) = "runs" <=> "stub" \notin b.says /\ b.says \subseteq { "import" }
    BY <2>1, <2>2, TextRuns
  <2> QED BY <1>4, <2>3
<1> QED BY <1>1, <1>9, <1>10 DEF IsStage

LEMMA OwnReportPasses ==
    ASSUME NEW s, IsStage(s), NEW c, Route(s) = "pdf"
    PROVE  Passes(OwnBody(s, c), s)
<1> DEFINE b == Report(ReportFixture)
           keys == << "stage", "pdf_base64", "pdf_bytes", "sha256", "section_count" >>
           anchor == "pdf_report:"
           blank == [host |-> "none", titled |-> TRUE, sources |-> << >>, leads |-> << >>,
                     aggregate_audit |-> << >>, work_audit |-> << >>]
           sound(rows) == { n \in DOMAIN rows : rows[n].sound }
           audit(d) == IF d.aggregate_audit # << >> THEN d.aggregate_audit ELSE d.work_audit
           call(d) == [titled |-> d.titled, sources |-> sound(d.sources), leads |-> d.leads, audit |-> sound(audit(d))]
<1>1. OwnBody(s, c) = b
  BY DEF OwnBody
<1>2. s.export = "pdf" /\ s.archetype = "pure-compute"
  BY Routes
<1>3. ASSUME NEW d
      PROVE  /\ Report(d).says = { "import" } /\ Report(d).ends = "returns"
             /\ Report(d).out = [shape |-> "fine", keys |-> keys, value |-> OwnFor(keys), items |-> << Plain(anchor) >>,
                                 adapter |-> "none", sections |-> 4, calls |-> Through(d.host, call(d))]
  <2>1. Report(d) = Says({ "import" }, [Output(keys, OwnFor(keys), << Plain(anchor) >>, "none")
                                            EXCEPT !.sections = 4, !.calls = Through(d.host, call(d))])
    BY DEF Report
  <2> HIDE DEF keys, anchor, call
  <2>2. [Output(keys, OwnFor(keys), << Plain(anchor) >>, "none") EXCEPT !.sections = 4, !.calls = Through(d.host, call(d))]
          = [shape |-> "fine", keys |-> keys, value |-> OwnFor(keys), items |-> << Plain(anchor) >>,
             adapter |-> "none", sections |-> 4, calls |-> Through(d.host, call(d))]
    <3> DEFINE value == OwnFor(keys)
               items == << Plain(anchor) >>
               calls == Through(d.host, call(d))
               out == Output(keys, value, items, "none")
               with == [shape |-> "fine", keys |-> keys, value |-> value, items |-> items, adapter |-> "none",
                        sections |-> 4, calls |-> << >>]
    <3>1. out = [shape |-> "fine", keys |-> keys, value |-> value, items |-> items, adapter |-> "none",
                 sections |-> 0, calls |-> << >>]
      BY DEF Output
    <3> HIDE DEF out, value, items, calls
    <3>2. [out EXCEPT !.sections = 4] = with
      BY <3>1
    <3>3. [with EXCEPT !.calls = calls] =
              [shape |-> "fine", keys |-> keys, value |-> value, items |-> items, adapter |-> "none",
               sections |-> 4, calls |-> calls]
      OBVIOUS
    <3>4. [out EXCEPT !.sections = 4, !.calls = calls] = [[out EXCEPT !.sections = 4] EXCEPT !.calls = calls]
      OBVIOUS
    <3> HIDE DEF with
    <3>5. [out EXCEPT !.sections = 4, !.calls = calls] =
              [shape |-> "fine", keys |-> keys, value |-> value, items |-> items, adapter |-> "none",
               sections |-> 4, calls |-> calls]
      BY <3>2, <3>3, <3>4
    <3> QED BY <3>5 DEF out, value, items, calls
  <2> QED BY <2>1, <2>2 DEF Says
<1>4. ReportHolds(b.out)
  <2>1. /\ ReportFixture.host = "runtime" /\ ReportFixture.titled /\ ReportFixture.sources = << [sound |-> TRUE] >>
        /\ Len(ReportFixture.leads) = 1 /\ audit(ReportFixture) = << [sound |-> TRUE] >>
    BY DEF ReportFixture
  <2>2. sound(<< [sound |-> TRUE] >>) = { 1 }
    OBVIOUS
  <2>3. b.out.calls = << call(ReportFixture) >>
    <3>1. b.out.calls = Through(ReportFixture.host, call(ReportFixture))
      <4>1. b.out = [shape |-> "fine", keys |-> keys, value |-> OwnFor(keys), items |-> << Plain(anchor) >>,
                     adapter |-> "none", sections |-> 4, calls |-> Through(ReportFixture.host, call(ReportFixture))]
        BY <1>3
      <4> HIDE DEF b, call, keys, anchor
      <4> QED BY <4>1
    <3> HIDE DEF call, b
    <3> QED BY <2>1, <3>1, ThroughRuntime
  <2>4. /\ call(ReportFixture).titled /\ Len(call(ReportFixture).leads) = 1
        /\ call(ReportFixture).sources = { 1 } /\ call(ReportFixture).audit = { 1 }
    BY <2>1, <2>2
  <2> HIDE DEF call, b
  <2>5. Cardinality({ 1 }) = 1
    BY FS_Singleton
  <2> QED BY <2>3, <2>4, <2>5 DEF ReportHolds
<1>5. SpecOf(s) = IF s.spec.given THEN [s.spec EXCEPT !.shaped = TRUE, !.keys = keys,
                                                      !.templates = << [anchor |-> anchor, slot |-> "sha256"] >>]
                  ELSE s.spec
  <2> DEFINE out == Report(blank).out
  <2>1. out.keys = keys /\ out.items[1].anchor = anchor
    <3>1. out = [shape |-> "fine", keys |-> keys, value |-> OwnFor(keys), items |-> << Plain(anchor) >>,
                 adapter |-> "none", sections |-> 4, calls |-> Through(blank.host, call(blank))]
      BY <1>3
    <3> HIDE DEF out, keys, anchor, call, blank
    <3>2. out.keys = keys /\ out.items = << Plain(anchor) >>
      BY <3>1
    <3> QED BY <3>2 DEF Plain
  <2>2. SpecOf(s) = IF s.spec.given THEN [s.spec EXCEPT !.shaped = TRUE, !.keys = out.keys,
                                      !.templates = << [anchor |-> out.items[1].anchor, slot |-> "sha256"] >>]
                    ELSE s.spec
    BY <1>2 DEF SpecOf
  <2> HIDE DEF out, keys, anchor
  <2> QED BY <2>1, <2>2
<1>6. "stage" \in ToSet(keys) /\ ToSet(keys) \cap (Amounts \cup { "parameters_json" }) = {}
  BY DEF ToSet, Amounts
<1>7. /\ b.says = { "import" } /\ b.ends = "returns" /\ b.out.shape = "fine" /\ b.out.keys = keys
      /\ b.out.value = OwnFor(keys) /\ b.out.items = << Plain(anchor) >> /\ b.out.sections = 4
  <2>1. /\ b.says = { "import" } /\ b.ends = "returns"
        /\ b.out = [shape |-> "fine", keys |-> keys, value |-> OwnFor(keys), items |-> << Plain(anchor) >>,
                    adapter |-> "none", sections |-> 4, calls |-> Through(ReportFixture.host, call(ReportFixture))]
    BY <1>3
  <2> HIDE DEF b, keys, call, anchor
  <2> QED BY <2>1
<1> HIDE DEF b, keys, anchor
<1>8. OutputHolds(b.out, s, "mock") /\ b.out.sections > 0
  <2>1. s.export # "none"
    BY <1>2
  <2>2. OutputHolds(b.out, s, "mock")
    BY <1>2, <1>5, <1>6, <1>7, <2>1, ExportHolds
  <2> QED BY <1>7, <2>2
<1>9. MayRun(b, s)
  BY <1>7, TextRuns DEF MayRun, Granted
<1> QED BY <1>1, <1>4, <1>7, <1>8, <1>9 DEF Passes, Holds

LEMMA OwnHttpPasses ==
    ASSUME NEW s, IsStage(s), NEW c, Route(s) = "http"
    PROVE  Passes(OwnBody(s, c), s) <=> Answered(s)
<1> DEFINE text == IF s.title = "marked" THEN { "stub" } ELSE {}
           b == CallHttp(text, s.reply)
           spec == s.spec
           out == Output(HttpKeys, OwnFor(HttpKeys), << Plain(Own) >>, "repo")
<1>1. OwnBody(s, c) = b
  BY DEF OwnBody
<1>2. s.export = "none" /\ s.archetype = "external-adapter" /\ SpecOf(s) = spec
  BY Routes DEF SpecOf
<1>3. b.says = text \cup { "fetch", "env" }
  <2>1. s.reply \in { "ok", "failed", "silent" }
    BY DEF IsStage
  <2>2. CASE s.reply = "ok"
    BY <2>2 DEF CallHttp, Says
  <2>3. CASE s.reply = "failed"
    BY <2>3 DEF CallHttp, Fails, NoBody
  <2>4. CASE s.reply = "silent"
    BY <2>4 DEF CallHttp, Fails, NoBody
  <2> QED BY <2>1, <2>2, <2>3, <2>4
<1>4. MayRun(b, s) <=> s.title = "plain" /\ s.base = "local"
  <2>1. b.says \subseteq { "stub", "import", "fetch", "env" } /\ ("stub" \in b.says <=> s.title = "marked")
    BY <1>3
  <2>2. TextVerdict(b, s) = "runs" <=> s.title # "marked"
    BY <1>3, <2>1, TextRuns DEF Granted
  <2> QED BY <2>2 DEF MayRun, IsStage
<1>5. b.ends = "returns" <=> s.reply = "ok"
  <2>1. s.reply \in { "ok", "failed", "silent" }
    BY DEF IsStage
  <2>2. CASE s.reply = "ok"
    BY <2>2 DEF CallHttp, Says
  <2>3. CASE s.reply = "failed"
    BY <2>3 DEF CallHttp, Fails, NoBody
  <2>4. CASE s.reply = "silent"
    BY <2>4 DEF CallHttp, Fails, NoBody
  <2> QED BY <2>1, <2>2, <2>3, <2>4
<1>6. s.reply = "ok" => b.out = out
  BY DEF CallHttp, Says
<1>7. /\ out.shape = "fine" /\ out.keys = HttpKeys /\ out.value = OwnFor(HttpKeys)
      /\ out.items = << Plain(Own) >> /\ out.adapter = "repo"
  BY DEF Output
<1>8. /\ "stage" \in ToSet(HttpKeys) /\ "result" \in ToSet(HttpKeys)
      /\ ToSet(HttpKeys) \cap (Amounts \cup { "parameters_json" }) = {}
  BY DEF ToSet, HttpKeys, Amounts
<1> HIDE DEF b, out
<1>9. KeysHold(out, spec) <=> (spec.shaped => spec.keys = HttpKeys)
  <2>1. out.value["stage"] = "own"
    BY <1>7, <1>8 DEF OwnFor
  <2> QED BY <1>7, <1>8, <2>1 DEF KeysHold, IsStage, IsSpec
<1>10. (spec.shaped => spec.keys = HttpKeys) => FeesHold(out, spec)
  BY <1>8 DEF FeesHold, IsStage, IsSpec
<1>11. ItemsHold(out, spec) <=> (spec.templates # << >> => Len(spec.templates) = 1 /\ Matches(Plain(Own), spec.templates[1]))
  <2>1. out.items # << >> /\ Len(out.items) = 1 /\ DOMAIN out.items = { 1 } /\ out.items[1] = Plain(Own)
    BY <1>7
  <2> QED BY <2>1 DEF ItemsHold
<1>12. OutputHolds(out, s, "repo") <=> KeysHold(out, spec) /\ FeesHold(out, spec) /\ ItemsHold(out, spec)
  BY <1>2, <1>7 DEF OutputHolds
<1>13. Holds(out, s) <=> OutputHolds(out, s, "repo")
  BY <1>7, <1>8 DEF Holds
<1> QED BY <1>1, <1>4, <1>5, <1>6, <1>9, <1>10, <1>11, <1>12, <1>13 DEF Passes, Answered

LEMMA LeadsAreCounted ==
    ASSUME NEW reads, NEW c
    PROVE  LeadsIn(reads, c) \in 0 .. 2
BY DEF LeadsIn

\* The items of the mechanical body, and when they are those the templates ask for.
LEMMA MechanicalItemsHold ==
    ASSUME NEW spec, IsSpec(spec), NEW leads \in Nat, NEW out, out.items = MechanicalItems(spec, leads)
    PROVE  LET emails == \E i \in DOMAIN spec.templates : spec.templates[i].slot = "email"
               n == IF leads > 1 THEN leads ELSE 1
           IN /\ (\E i \in DOMAIN out.items : out.items[i].anchor \in StubAnchors) <=>
                    \/ spec.templates = << >> /\ Own \in StubAnchors
                    \/ ~ emails /\ \E i \in DOMAIN spec.templates : spec.templates[i].anchor \in StubAnchors
              /\ ItemsHold(out, spec) <=>
                    (emails => /\ Len(spec.templates) = n
                               /\ \A i \in DOMAIN spec.templates :
                                     spec.templates[i].anchor = "lead:" /\ spec.templates[i].slot # "none")
<1> DEFINE ts == spec.templates
           emails == \E i \in DOMAIN ts : ts[i].slot = "email"
           n == IF leads > 1 THEN leads ELSE 1
           items == out.items
           marked == \E i \in DOMAIN items : items[i].anchor \in StubAnchors
           fits == \A i \in DOMAIN ts : ts[i].anchor = "lead:" /\ ts[i].slot # "none"
<1> SUFFICES /\ marked <=> \/ ts = << >> /\ Own \in StubAnchors
                           \/ ~ emails /\ \E i \in DOMAIN ts : ts[i].anchor \in StubAnchors
             /\ ItemsHold(out, spec) <=> (emails => Len(ts) = n /\ fits)
  OBVIOUS
<1>1. ts \in Seq(Template) /\ DOMAIN ts = 1 .. Len(ts) /\ Len(ts) \in Nat
  BY DEF IsSpec
<1>2. CASE ts = << >>
  <2>1. items = << Plain(Own) >>
    BY <1>2 DEF MechanicalItems
  <2>2. DOMAIN items = { 1 } /\ items[1] = Plain(Own) /\ items # << >> /\ Plain(Own).anchor = Own /\ ~ emails
    BY <1>2, <2>1 DEF Plain
  <2>3. marked <=> Own \in StubAnchors
    BY <2>2
  <2>4. ItemsHold(out, spec)
    BY <1>2, <2>2 DEF ItemsHold
  <2> QED BY <1>2, <2>2, <2>3, <2>4
<1>3. CASE ts # << >> /\ emails
  <2>1. items = [i \in 1 .. (IF leads = 0 THEN 1 ELSE leads) |-> Plain("lead:")]
    BY <1>3 DEF MechanicalItems
  <2>2. (IF leads = 0 THEN 1 ELSE leads) = n /\ n \in Nat /\ n >= 1
    OBVIOUS
  <2>3. /\ DOMAIN items = 1 .. n /\ Len(items) = n /\ items # << >>
        /\ \A i \in 1 .. n : items[i] = Plain("lead:")
    <3> HIDE DEF n
    <3>1. items = [i \in 1 .. n |-> Plain("lead:")]
      BY <2>1, <2>2
    <3>2. 1 \in DOMAIN items
      BY <2>2, <3>1
    <3> QED BY <2>2, <3>1, <3>2
  <2>4. ~ marked
    BY <2>3, OwnTextsAreFine DEF Plain
  <2> HIDE DEF n
  <2>5. \A t : Matches(Plain("lead:"), t) <=> t.anchor = "lead:" /\ t.slot # "none"
    BY DEF Matches, Plain
  <2>6. ItemsHold(out, spec) <=> Len(ts) = n /\ \A i \in 1 .. n : Matches(Plain("lead:"), ts[i])
    BY <1>3, <2>3 DEF ItemsHold
  <2>7. Len(ts) = n => (fits <=> \A i \in 1 .. n : Matches(Plain("lead:"), ts[i]))
    BY <1>1, <2>5
  <2> HIDE DEF marked, fits
  <2> QED BY <1>3, <2>4, <2>6, <2>7
<1>4. CASE ts # << >> /\ ~ emails
  <2>1. items = [i \in DOMAIN ts |-> [anchor |-> ts[i].anchor, text |-> IF ts[i].slot = "none" THEN "none" ELSE "text"]]
    BY <1>4 DEF MechanicalItems
  <2>2. /\ DOMAIN items = DOMAIN ts
        /\ \A i \in DOMAIN ts :
              items[i].anchor = ts[i].anchor /\ items[i].text = IF ts[i].slot = "none" THEN "none" ELSE "text"
    BY <2>1
  <2>3. Len(items) = Len(ts) /\ items # << >>
    BY <1>1, <1>4, <2>1
  <2>4. \A i \in DOMAIN items : Matches(items[i], ts[i])
    BY <2>2 DEF Matches
  <2>5. ItemsHold(out, spec)
    BY <2>3, <2>4 DEF ItemsHold
  <2>6. marked <=> \E i \in DOMAIN ts : ts[i].anchor \in StubAnchors
    BY <2>2
  <2> QED BY <1>4, <2>5, <2>6
<1> QED BY <1>2, <1>3, <1>4

LEMMA OwnMechanicalPasses ==
    ASSUME NEW s, IsStage(s), NEW c, Route(s) = "plain"
    PROVE  Passes(OwnBody(s, c), s) <=> Mechanizable(s.spec, c)
<1> DEFINE spec == s.spec
           b == OwnBody(s, c)
           keys == IF spec.shaped THEN spec.keys ELSE << "stage" >>
           value == [k \in ToSet(keys) |-> IF spec.shaped THEN MechanicalValue(k, spec) ELSE "own"]
           there == "leads" \in ToSet(keys) /\ spec.hint["leads"] \in { "strings", "records", "odd_records" }
           leads == LeadsIn(spec.reads, c)
           listed == IF there THEN leads ELSE 0
           items == MechanicalItems(spec, listed)
           marked == \E i \in DOMAIN items : items[i].anchor \in StubAnchors
           stub == ToSet(keys) \cap StubNames # {} \/ marked
           adapter == IF s.archetype = "external-adapter" THEN "mock" ELSE "none"
           out == Output(keys, value, items, adapter)
<1>1. s.export = "none" /\ SpecOf(s) = spec /\ IsSpec(spec)
  BY Routes DEF SpecOf, IsStage
<1>2. b = Says(IF stub THEN { "stub" } ELSE {}, out)
  BY DEF OwnBody, Mechanical
<1>3. b.says = (IF stub THEN { "stub" } ELSE {}) /\ b.ends = "returns" /\ b.out = out
  <2> HIDE DEF b, stub, out
  <2> QED BY <1>2 DEF Says
<1>4. out.shape = "fine" /\ out.keys = keys /\ out.value = value /\ out.items = items /\ out.adapter = adapter
  <2> HIDE DEF keys, value, items, adapter
  <2> QED BY DEF Output
<1>5. MayRun(b, s) <=> ~ stub
  <2> HIDE DEF b, stub
  <2>1. b.says \subseteq { "stub", "import", "fetch", "env" }
    BY <1>3
  <2>2. TextVerdict(b, s) = "runs" <=> ~ stub
    BY <1>3, <2>1, TextRuns DEF Granted
  <2> QED BY <2>2 DEF MayRun
<1>6. KeysHold(out, spec)
  <2>1. CASE spec.shaped
    <3>1. keys = spec.keys /\ ("stage" \in ToSet(keys) => value["stage"] = "own")
      BY <2>1 DEF MechanicalValue
    <3> HIDE DEF keys, value, out
    <3> QED BY <1>4, <2>1, <3>1 DEF KeysHold
  <2>2. CASE ~ spec.shaped
    <3>1. keys = << "stage" >> /\ "stage" \in ToSet(keys)
      BY <2>2 DEF ToSet
    <3>2. value["stage"] = "own"
      BY <2>2, <3>1
    <3> QED BY <1>4, <2>2, <3>1, <3>2 DEF KeysHold
  <2> QED BY <2>1, <2>2
<1> DEFINE given == IF spec.shaped THEN ToSet(spec.keys) ELSE {}
           amounts == \A k \in Amounts \cap given : spec.hint[k] \in { "number", "integer" }
           parameters == spec.parameters /\ "parameters_json" \in given
<1>7. FeesHold(out, spec) <=> (spec.fee => amounts /\ ~ parameters)
  <2>1. CASE spec.shaped
    <3>1. keys = spec.keys /\ given = ToSet(keys)
      BY <2>1
    <3>2. \A k \in ToSet(keys) : value[k] = MechanicalValue(k, spec)
      BY <2>1
    <3>3. \A k \in Amounts \cap ToSet(keys) : value[k] = "positive" <=> spec.hint[k] \in { "number", "integer" }
      BY <3>2 DEF MechanicalValue, Amounts
    <3>4. "parameters_json" \in ToSet(keys) => value["parameters_json"] # "parameters"
      BY <3>2 DEF MechanicalValue
    <3> HIDE DEF keys, value, out
    <3> QED BY <1>4, <2>1, <3>1, <3>3, <3>4 DEF FeesHold
  <2>2. CASE ~ spec.shaped
    BY <2>2 DEF FeesHold
  <2> QED BY <2>1, <2>2
<1>8. ToSet(keys) \cap StubNames # {} <=> given \cap StubNames # {}
  <2>1. CASE spec.shaped
    BY <2>1
  <2>2. CASE ~ spec.shaped
    <3>1. ToSet(keys) = { "stage" }
      BY <2>2 DEF ToSet
    <3> QED BY <2>2, <3>1, OwnTextsAreFine
  <2> QED BY <2>1, <2>2
<1> DEFINE emails == \E i \in DOMAIN spec.templates : spec.templates[i].slot = "email"
           n == IF listed > 1 THEN listed ELSE 1
           m == IF "leads" \in given /\ spec.hint["leads"] \in { "strings", "records", "odd_records" }
                   /\ LeadsIn(spec.reads, c) > 1 THEN LeadsIn(spec.reads, c) ELSE 1
           matched(k) == /\ Len(spec.templates) = k
                         /\ \A i \in DOMAIN spec.templates :
                               spec.templates[i].anchor = "lead:" /\ spec.templates[i].slot # "none"
<1>9. leads \in 0 .. 2 /\ listed \in Nat
  BY LeadsAreCounted
<1>10. n = m
  <2>1. "leads" \in ToSet(keys) <=> "leads" \in given
    BY DEF ToSet
  <2> HIDE DEF keys, given, leads
  <2> QED BY <1>9, <2>1 DEF leads
<1>11. /\ marked <=> \/ spec.templates = << >> /\ Own \in StubAnchors
                     \/ ~ emails /\ \E i \in DOMAIN spec.templates : spec.templates[i].anchor \in StubAnchors
       /\ ItemsHold(out, spec) <=> (emails => matched(n))
  <2> HIDE DEF listed, out, items
  <2>1. out.items = MechanicalItems(spec, listed)
    BY <1>4 DEF items
  <2>2. items = out.items
    BY <1>4
  <2> QED BY <1>1, <1>9, <2>1, <2>2, MechanicalItemsHold
<1>12. OutputHolds(out, s, "mock") <=> KeysHold(out, spec) /\ FeesHold(out, spec) /\ ItemsHold(out, spec)
  <2> HIDE DEF out, keys, value, items
  <2> QED BY <1>1, <1>4 DEF OutputHolds
<1>13. Holds(out, s) <=> OutputHolds(out, s, "mock")
  BY DEF Holds
<1>14. Mechanizable(spec, c) <=>
          /\ given \cap StubNames = {}
          /\ spec.templates = << >> => Own \notin StubAnchors
          /\ \A i \in DOMAIN spec.templates : emails \/ spec.templates[i].anchor \notin StubAnchors
          /\ emails => matched(m)
          /\ spec.fee => amounts /\ ~ parameters
  BY DEF Mechanizable
<1> HIDE DEF b, out, keys, given, amounts, parameters, marked, emails, m, n, matched
<1> QED BY <1>3, <1>5, <1>6, <1>7, <1>8, <1>10, <1>11, <1>12, <1>13, <1>14 DEF Passes, b

LEMMA SaysNeedsNothing ==
    ASSUME NEW text, NEW out
    PROVE  Says(text, out).needs = {} /\ Fails(text).needs = {} /\ [Fails(text) EXCEPT !.ends = "waits"].needs = {}
BY DEF Says, Fails, NoBody

\* No body of the foundry's needs an input of the fixture.
LEMMA OwnBodiesNeedNothing ==
    ASSUME NEW s, IsStage(s), NEW c
    PROVE  OwnBody(s, c).needs = {}
<1> USE SaysNeedsNothing
<1>1. CASE Route(s) = "plain"
  BY <1>1 DEF OwnBody, Mechanical
<1>2. CASE Route(s) = "http"
  BY <1>2 DEF OwnBody, CallHttp, IsStage
<1>3. CASE Route(s) = "module"
  BY <1>3 DEF OwnBody, CallModule
<1>4. CASE Route(s) \in { "docx", "html" }
  BY <1>4 DEF OwnBody, Export
<1>5. CASE Route(s) = "pdf"
  BY <1>5 DEF OwnBody, Report
<1>6. CASE Route(s) = "web"
  BY <1>6 DEF OwnBody, Navigate
<1>7. CASE Route(s) = "persistence"
  BY <1>7 DEF OwnBody, Persist
<1> QED BY <1>1, <1>2, <1>3, <1>4, <1>5, <1>6, <1>7, Routes

\* The body that the foundry writes for a stage is accepted when nothing in its
\* name or in what is asked of it forbids it, for every stage and every contract
\* before it: an integration by module is never accepted, one over http when its
\* service is near and answers and nobody gave its result another shape, and the
\* mechanical body when its specification is Mechanizable
\* (renderDeterministicFallbackStageBody and the other renderers).
THEOREM OwnBodiesAlwaysHold ==
    Spec => []OwnBodiesHold
<1>1. TInv /\ BodyInv => OwnBodiesHold
  <2> SUFFICES ASSUME TInv, BodyInv, at = "judged", writer = "foundry"
               PROVE  verdict = "accepted" <=>
                        CASE Route(stage) = "plain" -> Mechanizable(stage.spec, contract)
                          [] Route(stage) = "http" -> Answered(stage)
                          [] Route(stage) = "module" -> FALSE
                          [] Route(stage) \in { "docx", "html" } -> stage.title = "plain"
                          [] OTHER -> TRUE
    BY DEF OwnBodiesHold
  <2>1. IsStage(stage) /\ body = OwnBody(stage, contract)
    BY StagesAreTyped DEF TInv, TypeOK, BodyInv
  <2>2. body.needs = {}
    BY <2>1, OwnBodiesNeedNothing
  <2>3. verdict = "accepted" <=> Passes(body, stage)
    BY <2>2 DEF BodyInv, Reaches, Passes
  <2>4. CASE Route(stage) = "plain"
    BY <2>1, <2>3, <2>4, OwnMechanicalPasses
  <2>5. CASE Route(stage) = "http"
    BY <2>1, <2>3, <2>5, OwnHttpPasses
  <2>6. CASE Route(stage) = "module"
    BY <2>1, <2>3, <2>6, OwnModuleFails
  <2>7. CASE Route(stage) \in { "docx", "html" }
    BY <2>1, <2>3, <2>7, OwnDocumentPasses
  <2>8. CASE Route(stage) = "pdf"
    BY <2>1, <2>3, <2>8, OwnReportPasses
  <2>9. CASE Route(stage) = "web"
    BY <2>1, <2>3, <2>9, OwnWebPasses
  <2>10. CASE Route(stage) = "persistence"
    BY <2>1, <2>3, <2>10, OwnPersistencePasses
  <2> QED BY <2>1, <2>4, <2>5, <2>6, <2>7, <2>8, <2>9, <2>10, Routes
<1> QED BY <1>1, StageTypes, BodiesJudged, PTL

---------------------------------------------------------------------------
(* The derived contract.                                                    *)

\* A finite set of numbers has as many ranks as elements.
LEMMA NthExists ==
    ASSUME NEW m \in Nat, NEW I \in SUBSET (1 .. m)
    PROVE  /\ Cardinality(I) \in Nat
           /\ \A k \in 1 .. Cardinality(I) : Nth(I, k) \in I
           /\ \A j, k \in 1 .. Cardinality(I) : Nth(I, j) = Nth(I, k) => j = k
<1> DEFINE below(i) == { j \in I : j < i }
           n == Cardinality(I)
           rank == [i \in I |-> Cardinality(below(i)) + 1]
<1>1. IsFiniteSet(I) /\ n \in Nat
  <2>1. IsFiniteSet(1 .. m)
    BY FS_Interval
  <2>2. IsFiniteSet(I)
    BY <2>1, FS_Subset
  <2> QED BY <2>2, FS_CardinalityType
<1>2. ASSUME NEW i \in I PROVE below(i) \subseteq I \ { i } /\ IsFiniteSet(below(i)) /\ Cardinality(below(i)) \in 0 .. n - 1
  <2>1. below(i) \subseteq I \ { i }
    OBVIOUS
  <2>2. IsFiniteSet(I \ { i }) /\ Cardinality(I \ { i }) = n - 1
    BY <1>1, FS_RemoveElement
  <2> HIDE DEF below
  <2>3. IsFiniteSet(below(i)) /\ Cardinality(below(i)) <= n - 1
    BY <2>1, <2>2, FS_Subset
  <2>4. Cardinality(below(i)) \in Nat
    BY <2>3, FS_CardinalityType
  <2> QED BY <1>1, <2>1, <2>3, <2>4
<1>3. rank \in [I -> 1 .. n]
  <2> HIDE DEF below
  <2> QED BY <1>1, <1>2
<1>4. ASSUME NEW i \in I, NEW j \in I, i < j PROVE rank[i] # rank[j]
  <2>1. below(i) \subseteq below(j) /\ i \in below(j) /\ i \notin below(i)
    <3>1. i \in Int /\ j \in Int /\ \A x \in I : x \in Int
      OBVIOUS
    <3>2. \A x \in I : x < i => x < j
      BY <1>4, <3>1
    <3>3. ~ (i < i)
      BY <3>1
    <3> QED BY <1>4, <3>2, <3>3
  <2>2. IsFiniteSet(below(i)) /\ IsFiniteSet(below(j)) /\ Cardinality(below(i)) \in 0 .. n - 1 /\ Cardinality(below(j)) \in 0 .. n - 1
    BY <1>2
  <2> HIDE DEF below
  <2>3. below(i) \cup { i } \subseteq below(j) /\ Cardinality(below(i) \cup { i }) = Cardinality(below(i)) + 1
    BY <2>1, <2>2, FS_AddElement
  <2>4. Cardinality(below(i)) + 1 <= Cardinality(below(j))
    BY <2>2, <2>3, FS_Subset
  <2> QED BY <1>1, <2>2, <2>4
<1>5. rank \in Injection(I, 1 .. n)
  <2>1. \A i, j \in I : rank[i] = rank[j] => i = j
    <3> SUFFICES ASSUME NEW i \in I, NEW j \in I, i # j PROVE rank[i] # rank[j]
      OBVIOUS
    <3>1. i < j \/ j < i
      OBVIOUS
    <3> HIDE DEF rank
    <3> QED BY <1>4, <3>1
  <2>2. DOMAIN rank = I
    OBVIOUS
  <2> HIDE DEF rank
  <2> QED BY <1>3, <2>1, <2>2 DEF Injection, IsInjective
<1>6. IsFiniteSet(1 .. n) /\ Cardinality(1 .. n) = n
  <2> HIDE DEF n
  <2> QED BY <1>1, FS_Interval
<1>7. rank \in Surjection(I, 1 .. n)
  <2> HIDE DEF rank
  <2> QED BY <1>5, <1>6, FS_Injection
<1>8. ASSUME NEW k \in 1 .. n PROVE Nth(I, k) \in I /\ Cardinality(below(Nth(I, k))) = k - 1
  <2>1. PICK i \in I : rank[i] = k
    <3> HIDE DEF rank
    <3> QED BY <1>7 DEF Surjection
  <2>2. Cardinality(below(i)) = k - 1
    <3> HIDE DEF below
    <3> QED BY <1>1, <1>2, <2>1
  <2>3. \E x \in I : Cardinality({ j \in I : j < x }) = k - 1
    BY <2>2
  <2> QED BY <2>3 DEF Nth
<1>9. ASSUME NEW j \in 1 .. n, NEW k \in 1 .. n, Nth(I, j) = Nth(I, k) PROVE j = k
  <2>1. Cardinality(below(Nth(I, j))) = j - 1 /\ Cardinality(below(Nth(I, k))) = k - 1
    BY <1>8
  <2> HIDE DEF below, n
  <2> QED BY <1>1, <1>9, <2>1
<1> HIDE DEF n
<1> QED BY <1>1, <1>8, <1>9 DEF n

LEMMA ChosenIs ==
    ASSUME NEW S, NEW s \in Seq(S), NEW I \in SUBSET (DOMAIN s)
    PROVE  /\ Chosen(s, I) \in Seq(S)
           /\ Len(Chosen(s, I)) = Cardinality(I)
           /\ \A k \in DOMAIN Chosen(s, I) : Nth(I, k) \in I /\ Chosen(s, I)[k] = s[Nth(I, k)]
           /\ IsInjective(s) => IsInjective(Chosen(s, I))
<1> DEFINE c == Chosen(s, I)
           n == Cardinality(I)
<1>1. DOMAIN s = 1 .. Len(s) /\ Len(s) \in Nat /\ \A i \in DOMAIN s : s[i] \in S
  OBVIOUS
<1>2. /\ n \in Nat /\ \A k \in 1 .. n : Nth(I, k) \in I
      /\ \A j, k \in 1 .. n : Nth(I, j) = Nth(I, k) => j = k
  BY <1>1, NthExists
<1>3. c = [k \in 1 .. n |-> s[Nth(I, k)]]
  BY DEF Chosen
<1> HIDE DEF c, n
<1>4. DOMAIN c = 1 .. n /\ \A k \in 1 .. n : c[k] = s[Nth(I, k)] /\ Nth(I, k) \in DOMAIN s /\ c[k] \in S
  BY <1>1, <1>2, <1>3
<1>5. c \in Seq(S) /\ Len(c) = n
  <2>1. c \in [1 .. n -> S]
    BY <1>3, <1>4
  <2> QED BY <1>2, <2>1
<1>6. IsInjective(s) => IsInjective(c)
  <2> SUFFICES ASSUME IsInjective(s), NEW j \in 1 .. n, NEW k \in 1 .. n, c[j] = c[k] PROVE j = k
    BY <1>4 DEF IsInjective
  <2>1. Nth(I, j) = Nth(I, k)
    BY <1>4 DEF IsInjective
  <2> QED BY <1>2, <2>1
<1> QED BY <1>2, <1>4, <1>5, <1>6 DEF c, n

LEMMA FirstOfIs ==
    ASSUME NEW S, NEW s \in Seq(S), NEW n \in Nat
    PROVE  /\ FirstOf(s, n) \in Seq(S)
           /\ Len(FirstOf(s, n)) = IF Len(s) < n THEN Len(s) ELSE n
           /\ DOMAIN FirstOf(s, n) \subseteq DOMAIN s
           /\ \A k \in DOMAIN FirstOf(s, n) : FirstOf(s, n)[k] = s[k]
           /\ Len(s) <= n => FirstOf(s, n) = s
<1> DEFINE m == IF Len(s) < n THEN Len(s) ELSE n
           f == FirstOf(s, n)
<1>1. m \in Nat /\ m <= Len(s) /\ (Len(s) <= n => m = Len(s)) /\ Len(s) \in Nat
  OBVIOUS
<1>2. f = SubSeq(s, 1, m)
  BY DEF FirstOf
<1> HIDE DEF m, f
<1>3. f \in Seq(S) /\ Len(f) = m /\ \A k \in 1 .. m : f[k] = s[k]
  BY <1>1, <1>2
<1>4. DOMAIN f = 1 .. m /\ DOMAIN s = 1 .. Len(s)
  BY <1>1, <1>3
<1>5. Len(s) <= n => f = s
  BY <1>1, <1>2, <1>3
<1>6. /\ f \in Seq(S) /\ Len(f) = m /\ DOMAIN f \subseteq DOMAIN s
      /\ \A k \in DOMAIN f : f[k] = s[k]
      /\ Len(s) <= n => f = s
  <2>1. 1 .. m \subseteq 1 .. Len(s)
    BY <1>1
  <2>2. DOMAIN f \subseteq DOMAIN s
    BY <1>4, <2>1
  <2>3. \A k \in DOMAIN f : f[k] = s[k]
    BY <1>3, <1>4
  <2> QED BY <1>3, <1>5, <2>2, <2>3
<1> QED BY <1>6, Zenon DEF m, f

\* The names that the specification of a stage gives its fields.
LEMMA UsableNamesAre ==
    ASSUME NEW spec, IsSpec(spec)
    PROVE  LET names == UsableNames(spec) IN
           /\ names \in Seq(STRING) /\ IsInjective(names)
           /\ \A k \in DOMAIN names : names[k] \in ToSet(spec.keys) /\ names[k] \notin Reserved \cup IllNamed
<1> DEFINE I == { i \in DOMAIN spec.keys : spec.keys[i] \notin Reserved \cup IllNamed }
           names == UsableNames(spec)
<1>1. spec.keys \in Seq(STRING) /\ IsInjective(spec.keys) /\ I \in SUBSET (DOMAIN spec.keys)
  BY DEF IsSpec
<1>2. names = Chosen(spec.keys, I)
  BY DEF UsableNames
<1> HIDE DEF names
<1>3. /\ names \in Seq(STRING) /\ IsInjective(names)
      /\ \A k \in DOMAIN names : Nth(I, k) \in I /\ names[k] = spec.keys[Nth(I, k)]
  <2> HIDE DEF I
  <2> QED BY <1>1, <1>2, ChosenIs
<1>4. ASSUME NEW k \in DOMAIN names
      PROVE  names[k] \in ToSet(spec.keys) /\ names[k] \notin Reserved \cup IllNamed
  BY <1>3 DEF ToSet
<1> QED BY <1>3, <1>4 DEF names

LEMMA SpecFieldsAre ==
    ASSUME NEW spec, IsSpec(spec)
    PROVE  LET fs == SpecFields(spec)
               names == UsableNames(spec)
           IN /\ fs \in Seq(Field) /\ Len(fs) = Len(names)
              /\ \A k \in DOMAIN fs : fs[k].name = names[k] /\ fs[k].type = FieldType(spec.hint[names[k]])
              /\ Names(fs) = names
<1> DEFINE fs == SpecFields(spec)
           names == UsableNames(spec)
<1>1. names \in Seq(STRING) /\ DOMAIN names = 1 .. Len(names) /\ Len(names) \in Nat /\ \A k \in DOMAIN names : names[k] \in STRING
  BY UsableNamesAre
<1>2. fs = [k \in DOMAIN names |-> SpecField(names[k], spec)]
  BY DEF SpecFields
<1>3. ASSUME NEW n \in STRING
      PROVE  /\ SpecField(n, spec) \in Field /\ SpecField(n, spec).name = n
             /\ SpecField(n, spec).type = FieldType(spec.hint[n])
  <2> DEFINE t == FieldType(spec.hint[n])
             sound == spec.hint[n] # "odd_records"
  <2>1. t \in FieldTypes
    BY FieldTypeIsPlain DEF FieldTypes
  <2>2. sound \in BOOLEAN
    OBVIOUS
  <2>3. SpecField(n, spec) = [name |-> n, type |-> t, sound |-> sound]
    BY DEF SpecField
  <2> HIDE DEF t, sound
  <2>4. SpecField(n, spec) \in Field /\ SpecField(n, spec).name = n /\ SpecField(n, spec).type = t
    BY <2>1, <2>2, <2>3 DEF Field
  <2> QED BY <2>4 DEF t
<1> HIDE DEF fs, names
<1>4. fs \in Seq(Field) /\ Len(fs) = Len(names) /\ DOMAIN fs = DOMAIN names
  <2>1. fs \in [1 .. Len(names) -> Field]
    BY <1>1, <1>2, <1>3
  <2> QED BY <1>1, <2>1
<1>5. \A k \in DOMAIN fs : fs[k].name = names[k] /\ fs[k].type = FieldType(spec.hint[names[k]])
  BY <1>1, <1>2, <1>3
<1>6. Names(fs) = names
  <2>1. Names(fs) = [k \in DOMAIN names |-> names[k]]
    BY <1>4, <1>5 DEF Names
  <2>2. names = [k \in DOMAIN names |-> names[k]]
    BY <1>1
  <2> QED BY <2>1, <2>2
<1> QED BY <1>4, <1>5, <1>6, Zenon DEF fs, names

\* What the judgement asks of fields, that of a specification that binds them apart.
Fine(fs, spec, tails) ==
    /\ DOMAIN fs = 1 .. Len(fs) /\ Len(fs) \in 0 .. MaxFields /\ IsInjective(Names(fs))
    /\ \A k \in DOMAIN fs : /\ fs[k].type \in FieldTypes
                            /\ fs[k].name \notin IllNamed \cup Reserved
                            /\ fs[k].name \in tails => fs[k].name \in ToSet(spec.keys)

LEMMA SpecFieldsAreFine ==
    ASSUME NEW spec, IsSpec(spec), NEW tails
    PROVE  Fine(FirstOf(SpecFields(spec), MaxFields), spec, tails)
<1> DEFINE all == SpecFields(spec)
           names == UsableNames(spec)
           fs == FirstOf(all, MaxFields)
<1>1. /\ all \in Seq(Field) /\ Len(all) = Len(names) /\ Names(all) = names
      /\ \A k \in DOMAIN all : all[k].name = names[k]
  BY SpecFieldsAre
<1>2. /\ IsInjective(names)
      /\ \A k \in DOMAIN names : names[k] \in ToSet(spec.keys) /\ names[k] \notin Reserved \cup IllNamed
  BY UsableNamesAre
<1>3. DOMAIN all = DOMAIN names
  BY <1>1 DEF Names
<1> HIDE DEF all, names
<1>4. /\ fs \in Seq(Field) /\ Len(fs) <= MaxFields /\ DOMAIN fs \subseteq DOMAIN all
      /\ \A k \in DOMAIN fs : fs[k] = all[k]
  <2>1. MaxFields \in Nat /\ Len(all) \in Nat
    BY <1>1 DEF MaxFields
  <2> QED BY <1>1, <2>1, FirstOfIs
<1> HIDE DEF fs
<1>5. \A k \in DOMAIN fs : k \in DOMAIN names /\ fs[k].name = names[k]
  BY <1>1, <1>3, <1>4
<1>6. IsInjective(Names(fs))
  BY <1>2, <1>5 DEF IsInjective, Names
<1>7. DOMAIN fs = 1 .. Len(fs) /\ Len(fs) \in 0 .. MaxFields /\ \A k \in DOMAIN fs : fs[k].type \in FieldTypes
  <2>1. \A f \in Field : f.type \in FieldTypes
    BY DEF Field
  <2>2. Len(fs) \in Nat /\ \A k \in DOMAIN fs : fs[k] \in Field
    BY <1>4
  <2>3. DOMAIN fs = 1 .. Len(fs)
    BY <1>4
  <2>4. Len(fs) \in 0 .. MaxFields
    <3>1. Len(fs) \in Nat /\ Len(fs) <= MaxFields
      BY <1>4, <2>2
    <3>2. MaxFields \in Nat
      BY DEF MaxFields
    <3> QED BY <3>1, <3>2
  <2> QED BY <2>1, <2>2, <2>3, <2>4
<1> QED BY <1>2, <1>5, <1>6, <1>7 DEF Fine, fs, all

LEMMA GenericFieldsAreFine ==
    ASSUME NEW spec, NEW tails
    PROVE  Fine(GenericFields(tails), spec, tails)
<1> DEFINE given == { "decision", "summary", "rationale", "confidence", "key_points", "assessment", "next_step" }
           unread == { i \in DOMAIN GenericNames : GenericNames[i] \notin Reserved \cup tails }
           chosen == Chosen(GenericNames, unread)
           free == FirstOf(chosen, 5)
           fs == GenericFields(tails)
<1>1. /\ GenericNames \in Seq(given) /\ IsInjective(GenericNames)
      /\ \A i \in DOMAIN GenericNames : GenericNames[i] \notin IllNamed
  <2>1. DOMAIN GenericNames = 1 .. 7 /\ Len(GenericNames) = 7
    BY DEF GenericNames
  <2>2. \A i \in 1 .. 7 : GenericNames[i] \in given
    BY DEF GenericNames
  <2>3. GenericNames = [i \in 1 .. 7 |-> GenericNames[i]]
    BY DEF GenericNames
  <2>4. IsInjective(GenericNames)
    BY DEF GenericNames, IsInjective
  <2> HIDE DEF given
  <2>5. GenericNames \in [1 .. Len(GenericNames) -> given]
    BY <2>1, <2>2, <2>3
  <2>6. GenericNames \in Seq(given)
    <3>1. Len(GenericNames) \in Nat
      BY <2>1
    <3> QED BY <2>5, <3>1
  <2> QED BY <2>1, <2>2, <2>4, <2>6, OwnNamesAreFine DEF given
<1> HIDE DEF given
<1>2. /\ chosen \in Seq(given) /\ IsInjective(chosen)
      /\ \A k \in DOMAIN chosen : Nth(unread, k) \in unread /\ chosen[k] = GenericNames[Nth(unread, k)]
  <2>1. unread \in SUBSET (DOMAIN GenericNames)
    OBVIOUS
  <2> HIDE DEF unread
  <2> QED BY <1>1, <2>1, ChosenIs
<1>3. \A k \in DOMAIN chosen : chosen[k] \notin Reserved \cup tails \cup IllNamed
  BY <1>1, <1>2
<1> HIDE DEF chosen
<1>4. /\ free \in Seq(given) /\ Len(free) <= 5 /\ DOMAIN free \subseteq DOMAIN chosen
      /\ \A k \in DOMAIN free : free[k] = chosen[k]
  <2>1. Len(chosen) \in Nat
    BY <1>2
  <2> QED BY <1>2, <2>1, FirstOfIs
<1>5. fs = [k \in DOMAIN free |-> GenericField(free[k])]
  BY DEF GenericFields, chosen
<1> HIDE DEF free, fs
<1>6. ASSUME NEW n PROVE GenericField(n).type \in FieldTypes /\ GenericField(n).name = n
  BY DEF GenericField, FieldTypes
<1>7. DOMAIN free = 1 .. Len(free) /\ Len(free) \in Nat
  BY <1>4
<1>8. DOMAIN fs = 1 .. Len(fs) /\ Len(fs) = Len(free) /\ DOMAIN fs = DOMAIN free
  BY <1>5, <1>7
<1>9. \A k \in DOMAIN fs : fs[k].name = chosen[k] /\ k \in DOMAIN chosen /\ fs[k].type \in FieldTypes
  BY <1>4, <1>5, <1>6, <1>8
<1>10. IsInjective(Names(fs))
  BY <1>2, <1>9 DEF IsInjective, Names
<1>11. Len(fs) \in 0 .. MaxFields
  <2>1. Len(free) \in Nat /\ Len(free) <= 5 /\ Len(fs) = Len(free)
    BY <1>4, <1>7, <1>8
  <2>2. MaxFields \in Nat /\ 5 <= MaxFields
    BY DEF MaxFields
  <2> DEFINE m == Len(fs)
  <2>3. m \in Nat /\ m <= 5
    BY <2>1
  <2> HIDE DEF m
  <2>4. m \in 0 .. MaxFields
    BY <2>2, <2>3
  <2> QED BY <2>4 DEF m
<1> QED BY <1>3, <1>8, <1>9, <1>10, <1>11 DEF Fine, fs

LEMMA DerivedFieldsAreFine ==
    ASSUME NEW spec, IsSpec(spec), NEW tails
    PROVE  /\ Fine(DerivedFields(spec, tails), spec, tails)
           /\ Binds(spec) => DerivedFields(spec, tails) = SpecFields(spec)
<1>1. Fine(DerivedFields(spec, tails), spec, tails)
  BY SpecFieldsAreFine, GenericFieldsAreFine DEF DerivedFields
<1>2. ASSUME Binds(spec) PROVE DerivedFields(spec, tails) = SpecFields(spec)
  <2>1. MinFields \in Nat /\ MaxFields \in Nat
    BY DEF MinFields, MaxFields
  <2>2. spec.given /\ Len(UsableNames(spec)) \in MinFields .. MaxFields
    BY <1>2 DEF Binds
  <2>3. Len(UsableNames(spec)) >= MinFields /\ Len(UsableNames(spec)) <= MaxFields
    BY <2>1, <2>2
  <2>4. DerivedFields(spec, tails) = FirstOf(SpecFields(spec), MaxFields)
    BY <2>2, <2>3 DEF DerivedFields
  <2>5. SpecFields(spec) \in Seq(Field) /\ Len(SpecFields(spec)) <= MaxFields
    BY <2>3, SpecFieldsAre
  <2> QED BY <2>1, <2>4, <2>5, FirstOfIs
<1> QED BY <1>1, <1>2

LEMMA DerivedTemplatesAreValid ==
    ASSUME NEW spec, IsSpec(spec), NEW tails, NEW fs, Fine(fs, spec, tails), Len(fs) >= MinFields
    PROVE  LET ts == DerivedTemplates(spec, fs) IN
           /\ ValidTemplates(ts) /\ DOMAIN ts = 1 .. Len(ts) /\ Len(ts) \in Nat
           /\ ValidTemplates(spec.templates) => ts = spec.templates
<1> DEFINE ts == DerivedTemplates(spec, fs)
           names == Names(fs)
           I == { i \in DOMAIN Enumerated : Enumerated[i] \in ToSet(names) }
           listed == Chosen(Enumerated, I)
           shown == IF listed = << >> THEN FirstOf(names, 1) ELSE listed
           pair == { "decision", "confidence" }
<1>1. CASE ValidTemplates(spec.templates)
  <2>1. ts = spec.templates
    BY <1>1 DEF DerivedTemplates
  <2>2. DOMAIN spec.templates = 1 .. Len(spec.templates) /\ Len(spec.templates) \in Nat
    BY DEF IsSpec
  <2> QED BY <1>1, <2>1, <2>2
<1>2. CASE ~ ValidTemplates(spec.templates)
  <2>1. ts = [i \in DOMAIN shown |-> [anchor |-> Own, slot |-> shown[i]]]
    BY <1>2 DEF DerivedTemplates
  <2>2. Enumerated \in Seq(pair) /\ DOMAIN Enumerated = 1 .. 2
    BY DEF Enumerated
  <2>3. listed \in Seq(pair) /\ Len(listed) = Cardinality(I)
    <3>1. I \in SUBSET (DOMAIN Enumerated)
      OBVIOUS
    <3> HIDE DEF I, pair
    <3> QED BY <2>2, <3>1, ChosenIs
  <2>4. Cardinality(I) <= 2
    <3>1. IsFiniteSet(1 .. 2) /\ Cardinality(1 .. 2) = 2
      <4>1. \A n \in Nat : IsFiniteSet(1 .. n) /\ Cardinality(1 .. n) = n
        BY FS_Interval
      <4> QED BY <4>1
    <3>2. I \in SUBSET (1 .. 2)
      BY <2>2
    <3> HIDE DEF I
    <3> QED BY <3>1, <3>2, FS_Subset
  <2>5. names \in Seq(ToSet(names)) /\ Len(names) = Len(fs)
    <3>1. DOMAIN names = 1 .. Len(fs) /\ Len(fs) \in Nat
      BY DEF Names, Fine, MaxFields
    <3>2. names = [k \in 1 .. Len(fs) |-> names[k]]
      BY <3>1 DEF Names
    <3>3. \A k \in 1 .. Len(fs) : names[k] \in ToSet(names)
      BY <3>1 DEF ToSet
    <3> HIDE DEF names
    <3>4. names \in [1 .. Len(fs) -> ToSet(names)]
      BY <3>2, <3>3
    <3> QED BY <3>1, <3>4
  <2> HIDE DEF listed, names, I, pair
  <2>6. \/ DOMAIN shown = 1 .. 1
        \/ DOMAIN shown = 1 .. 2
    <3>1. CASE listed = << >>
      <4>1. Len(names) >= 3 /\ Len(names) \in Nat
        BY <2>5 DEF MinFields
      <4>2. \E S : FirstOf(names, 1) \in Seq(S) /\ Len(FirstOf(names, 1)) = 1
        <5> PICK S : names \in Seq(S)
          BY <2>5
        <5>1. FirstOf(names, 1) \in Seq(S) /\ Len(FirstOf(names, 1)) = IF Len(names) < 1 THEN Len(names) ELSE 1
          <6> DEFINE n == 1
          <6>1. n \in Nat
            OBVIOUS
          <6> HIDE DEF n
          <6>2. FirstOf(names, n) \in Seq(S) /\ Len(FirstOf(names, n)) = IF Len(names) < n THEN Len(names) ELSE n
            BY <6>1, FirstOfIs
          <6> QED BY <6>2, Zenon DEF n
        <5>2. ~ (Len(names) < 1)
          BY <4>1
        <5> QED BY <5>1, <5>2
      <4>3. DOMAIN FirstOf(names, 1) = 1 .. 1
        BY <4>2
      <4> QED BY <3>1, <4>3
    <3>2. CASE listed # << >>
      <4>1. Len(listed) \in 1 .. 2
        BY <2>3, <2>4, <3>2
      <4>2. DOMAIN listed = 1 .. Len(listed)
        BY <2>3
      <4>3. Len(listed) = 1 \/ Len(listed) = 2
        BY <4>1
      <4> QED BY <3>2, <4>2, <4>3
    <3> QED BY <3>1, <3>2
  <2> HIDE DEF shown, ts
  <2>7. DOMAIN ts = DOMAIN shown /\ \A i \in DOMAIN ts : ts[i].anchor = Own
    BY <2>1
  <2>8. Len(ts) \in 1 .. 2 /\ DOMAIN ts = 1 .. Len(ts)
    <3>1. CASE DOMAIN shown = 1 .. 1
      <4>1. Len(ts) = 1
        BY <2>1, <3>1
      <4> QED BY <2>7, <3>1, <4>1
    <3>2. CASE DOMAIN shown = 1 .. 2
      <4>1. Len(ts) = 2
        BY <2>1, <3>2
      <4> QED BY <2>7, <3>2, <4>1
    <3> QED BY <2>6, <3>1, <3>2
  <2>9. ValidTemplates(ts)
    <3>1. Len(ts) \in 1 .. MaxItemTemplates
      BY <2>8 DEF MaxItemTemplates
    <3>2. \A i \in DOMAIN ts : ts[i].anchor # ""
      BY <2>7, OwnNamesAreFine
    <3> QED BY <3>1, <3>2 DEF ValidTemplates
  <2> QED BY <1>2, <2>8, <2>9 DEF ts
<1> QED BY <1>1, <1>2

LEMMA CannedFits ==
    ASSUME NEW t \in FieldTypes
    PROVE  Fits(t, Canned(t)) /\ Canned(t) \notin { "lines", "marker" }
<1>1. t \in { "string", "number", "boolean", "enum", "string_array", "record_array" }
  BY DEF FieldTypes
<1>2. CASE t = "string"
  BY <1>2 DEF Fits, Canned
<1>3. CASE t = "number"
  BY <1>3 DEF Fits, Canned
<1>4. CASE t = "boolean"
  BY <1>4 DEF Fits, Canned
<1>5. CASE t = "enum"
  BY <1>5 DEF Fits, Canned
<1>6. CASE t = "string_array"
  BY <1>6 DEF Fits, Canned
<1>7. CASE t = "record_array"
  BY <1>7 DEF Fits, Canned
<1> QED BY <1>1, <1>2, <1>3, <1>4, <1>5, <1>6, <1>7

\* The derived contract is right exactly if its rules are not too long, its
\* fields are sound and not too few, and no name in it is marked.
LEMMA DerivedIsRight ==
    ASSUME NEW spec, IsSpec(spec), NEW tails
    PROVE  LET fields == DerivedFields(spec, tails)
               templates == DerivedTemplates(spec, fields)
           IN SoundContract(Derived(spec, tails), spec, tails) <=>
                 /\ spec.rules # "long"
                 /\ \A i \in DOMAIN fields : fields[i].sound
                 /\ Len(fields) >= MinFields
                 /\ ToSet(Names(fields)) \cap Marked = {}
                 /\ \A i \in DOMAIN templates : templates[i].anchor \notin Marked
<1> DEFINE fields == DerivedFields(spec, tails)
           templates == DerivedTemplates(spec, fields)
           type(n) == (CHOOSE f \in ToSet(fields) : f.name = n).type
           result == [n \in ToSet(Names(fields)) |-> Canned(type(n))]
           items == [i \in DOMAIN templates |-> RenderedItem(templates[i], result)]
           prompt == IF spec.rules = "long" THEN "long" ELSE "fits"
           c == Derived(spec, tails)
<1>1. Fine(fields, spec, tails) /\ (Binds(spec) => fields = SpecFields(spec))
  BY DerivedFieldsAreFine
<1>2. Len(fields) >= MinFields =>
        /\ ValidTemplates(templates) /\ DOMAIN templates = 1 .. Len(templates) /\ Len(templates) \in Nat
        /\ ValidTemplates(spec.templates) => templates = spec.templates
  <2> HIDE DEF fields
  <2> QED BY <1>1, DerivedTemplatesAreValid
<1>3. /\ c.prompt = prompt /\ c.listed = TRUE /\ c.extras = TRUE /\ c.fields = fields /\ c.described = TRUE
      /\ c.templates = templates /\ c.example = TRUE /\ c.result = result /\ c.items = items
  <2>1. c = [object |-> TRUE, prompt |-> prompt, listed |-> TRUE, extras |-> TRUE,
             fields |-> fields, described |-> TRUE, templates |-> templates, example |-> TRUE,
             result |-> result, items |-> items]
    BY DEF Derived
  <2> HIDE DEF c, prompt, fields, templates, result, items
  <2> QED BY <2>1
<1> DEFINE sound == \A i \in DOMAIN fields : fields[i].sound
           marked == ToSet(Names(fields)) \cap Marked # {} \/ \E i \in DOMAIN templates : templates[i].anchor \in Marked
<1>4. (\A i \in DOMAIN fields : SoundField(fields[i], spec, tails)) <=> sound
  <2> HIDE DEF fields
  <2> QED BY <1>1 DEF Fine, SoundField
<1>5. Len(fields) \in MinFields .. MaxFields <=> Len(fields) >= MinFields
  <2>1. Len(fields) \in 0 .. MaxFields
    BY <1>1 DEF Fine
  <2>2. MinFields \in Nat /\ MaxFields \in Nat
    BY DEF MinFields, MaxFields
  <2> HIDE DEF fields
  <2> QED BY <2>1, <2>2
<1>6. ASSUME NEW i \in DOMAIN fields
      PROVE  fields[i].name \in DOMAIN result /\ result[fields[i].name] = Canned(fields[i].type) /\ fields[i].type \in FieldTypes
  <2> HIDE DEF fields
  <2>1. fields[i].name \in ToSet(Names(fields)) /\ fields[i] \in ToSet(fields)
    BY DEF ToSet, Names
  <2>2. \A f \in ToSet(fields) : f.name = fields[i].name => f = fields[i]
    <3> SUFFICES ASSUME NEW j \in DOMAIN fields, fields[j].name = fields[i].name PROVE fields[j] = fields[i]
      BY DEF ToSet
    <3>1. Names(fields)[j] = Names(fields)[i] /\ i \in DOMAIN Names(fields) /\ j \in DOMAIN Names(fields)
      BY DEF Names
    <3>2. j = i
      BY <1>1, <3>1 DEF Fine, IsInjective
    <3> QED BY <3>2
  <2>3. (CHOOSE f \in ToSet(fields) : f.name = fields[i].name) = fields[i]
    BY <2>1, <2>2
  <2>4. type(fields[i].name) = fields[i].type
    BY <2>3
  <2>5. fields[i].type \in FieldTypes
    BY <1>1 DEF Fine
  <2> HIDE DEF type
  <2> QED BY <2>1, <2>4, <2>5
<1>7. \A n \in DOMAIN result : result[n] \notin { "lines", "marker" }
  <2> SUFFICES ASSUME NEW n \in ToSet(Names(fields)) PROVE result[n] \notin { "lines", "marker" }
    OBVIOUS
  <2>1. PICK i \in DOMAIN fields : n = fields[i].name
    BY DEF ToSet, Names
  <2> HIDE DEF result, fields
  <2> QED BY <1>6, <2>1, CannedFits
<1>8. \A i \in DOMAIN fields : SampleFits(c, fields[i])
  <2> HIDE DEF c, fields, result
  <2> QED BY <1>3, <1>6, CannedFits DEF SampleFits
<1>9. /\ DOMAIN items = DOMAIN templates
      /\ \A i \in DOMAIN templates : items[i].anchor = templates[i].anchor /\ items[i].text # "marker"
                                     /\ Matches(items[i], templates[i])
  <2>1. ASSUME NEW t PROVE LET m == RenderedItem(t, result) IN m.anchor = t.anchor /\ m.text # "marker" /\ Matches(m, t)
    <3> HIDE DEF result
    <3>1. \A n : Printed(n, result) = "text"
      BY <1>7 DEF Printed
    <3>2. RenderedItem(t, result) = [anchor |-> t.anchor, text |-> IF t.slot = "none" THEN "none" ELSE "text"]
      BY <3>1 DEF RenderedItem
    <3> QED BY <3>2 DEF Matches
  <2> HIDE DEF templates, result
  <2> QED BY <2>1
<1>10. Len(fields) >= MinFields => Len(items) = Len(templates)
  <2> HIDE DEF templates, fields, result
  <2> QED BY <1>2
<1> HIDE DEF c, items
<1>11. ExampleIsMarked(c) <=> marked
  <2>1. DOMAIN c.result = ToSet(Names(fields)) /\ ~ \E n \in DOMAIN c.result : c.result[n] = "marker"
    <3>1. DOMAIN result = ToSet(Names(fields))
      OBVIOUS
    <3> HIDE DEF result, fields
    <3> QED BY <1>3, <1>7, <3>1
  <2> HIDE DEF fields, templates, result
  <2> QED BY <1>3, <1>9, <2>1 DEF ExampleIsMarked
<1>12. Len(fields) >= MinFields => Agrees(c, spec)
  <2> HIDE DEF fields, templates, result
  <2>1. ASSUME Binds(spec)
        PROVE  /\ Names(c.fields) = UsableNames(spec)
               /\ \A i \in DOMAIN c.fields :
                     LET t == FieldType(spec.hint[c.fields[i].name]) IN
                     c.fields[i].type \in IF t = "string" THEN { "string", "enum" } ELSE { t }
    <3>1. c.fields = SpecFields(spec)
      BY <1>1, <1>3, <2>1
    <3>2. /\ Names(SpecFields(spec)) = UsableNames(spec)
          /\ \A k \in DOMAIN SpecFields(spec) : SpecFields(spec)[k].type = FieldType(spec.hint[SpecFields(spec)[k].name])
      BY SpecFieldsAre
    <3> QED BY <3>1, <3>2
  <2> QED BY <1>2, <1>3, <2>1 DEF Agrees
<1>13. IsInjective(Names(fields))
  BY <1>1 DEF Fine
<1>14. prompt = "fits" <=> spec.rules # "long"
  OBVIOUS
<1> HIDE DEF fields, templates, result, prompt, sound, marked
<1>15. SoundContract(c, spec, tails) <=>
          prompt = "fits" /\ sound /\ Len(fields) >= MinFields /\ ~ marked
  BY <1>2, <1>3, <1>4, <1>5, <1>8, <1>9, <1>10, <1>11, <1>12, <1>13 DEF SoundContract
<1> QED BY <1>14, <1>15 DEF c, fields, templates, sound, marked

\* What became of a derived contract.
DerivedInv ==
    source = "derived" =>
        (at # "stuck" <=> SoundContract(Derived(prior.spec, prior.tails), prior.spec, prior.tails))

LEMMA DerivedStays ==
    Spec => []DerivedInv
<1>1. Init => DerivedInv
  BY DEF Init, DerivedInv
<1>2. TInv /\ DerivedInv /\ [Next]_vars => DerivedInv'
  <2> SUFFICES ASSUME TInv, DerivedInv, [Next]_vars PROVE DerivedInv'
    OBVIOUS
  <2>1. CASE prior' = prior /\ source' = source /\ (at' = "stuck" <=> at = "stuck")
    BY <2>1 DEF DerivedInv
  <2>2. CASE source' # "derived"
    BY <2>2 DEF DerivedInv
  <2>3. CASE Derive
    BY <2>3 DEF Derive, DerivedInv
  <2>4. ASSUME NEW a \in prior.answers, Answer(a) PROVE source' # "derived"
    BY <2>4 DEF Answer, TInv, Staged
  <2>5. CASE NoAnswer \/ NoDraft
    BY <2>1, <2>5 DEF NoAnswer, NoDraft
  <2>6. CASE GiveUp
    BY <2>2, <2>6 DEF GiveUp, TInv, Staged
  <2>7. ASSUME NEW s \in Stages, Turn(s) PROVE DerivedInv'
    BY <2>1, <2>7 DEF Turn
  <2>8. ASSUME NEW b, NEW by, Wanted, Try(b, by) PROVE DerivedInv'
    BY <2>1, <2>8 DEF Try, Wanted
  <2>9. ASSUME NEW b, Draft(b) PROVE DerivedInv'
    BY <2>8, <2>9 DEF Draft
  <2>10. CASE Render
    BY <2>8, <2>10 DEF Render
  <2>11. CASE Settle \/ TimeOut
    BY <2>1, <2>11 DEF Settle, TimeOut
  <2>12. ASSUME NEW d \in Domains, Publish(d) PROVE DerivedInv'
    BY <2>1, <2>12 DEF Publish
  <2>13. CASE UNCHANGED vars
    BY <2>1, <2>13 DEF vars
  <2> QED BY <2>2, <2>3, <2>4, <2>5, <2>6, <2>7, <2>9, <2>10, <2>11, <2>12, <2>13 DEF Next
<1> QED BY <1>1, <1>2, StageTypes, PTL DEF Spec

\* The contract that is derived, which nobody repairs, passes the judgement of an
\* authored one, for every specification and all guards, unless its rules are too
\* long for a prompt, it has a list of records it cannot describe or too few
\* free names, or there is a stub marker in a name (deriveFallbackReasoningContract).
THEOREM DerivedAlwaysHolds ==
    Spec => []DerivedContractHolds
<1>1. TInv /\ DerivedInv => DerivedContractHolds
  <2> SUFFICES ASSUME TInv, DerivedInv, source = "derived"
               PROVE  LET spec == prior.spec
                          fields == DerivedFields(spec, prior.tails)
                          templates == DerivedTemplates(spec, fields)
                      IN at # "stuck" <=>
                            /\ spec.rules # "long"
                            /\ \A i \in DOMAIN fields : fields[i].sound
                            /\ Len(fields) >= MinFields
                            /\ ToSet(Names(fields)) \cap Marked = {}
                            /\ \A i \in DOMAIN templates : templates[i].anchor \notin Marked
    BY DEF DerivedContractHolds
  <2>1. IsSpec(prior.spec)
    BY ContractedAreTyped DEF TInv, TypeOK
  <2>2. at # "stuck" <=> SoundContract(Derived(prior.spec, prior.tails), prior.spec, prior.tails)
    BY DEF DerivedInv
  <2> QED BY <2>1, <2>2, DerivedIsRight
<1> QED BY <1>1, StageTypes, DerivedStays, PTL

---------------------------------------------------------------------------
(* The program of the stages (ProgramTopology), for every topology.         *)
(* planTransitionActions sees to one transition at a time; what it makes of *)
(* all of them is proved by a least counterexample on the number of         *)
(* transitions it has planned: names are unique, and so are the guards of   *)
(* the transitions that leave one stage.                                    *)

CONSTANTS Intakes, SafeIdentifier, None
VARIABLES intake, mode, truthy, rendered
T == INSTANCE ProgramTopology

\* In a hub, a guard that is true leads back to the hub.
HubIsFresh ==
    mode \in T!Hubs(intake) =>
        \A a \in T!Planned(intake) :
            a.source = mode /\ a.guard # None /\ a.guard \in truthy => a.target = mode

FreshInv == intake \in Intakes /\ HubIsFresh

---------------------------------------------------------------------------
(* The plan: names are unique, and so are the guards of the transitions     *)
(* that leave one stage.                                                    *)

\* The operators of the instance are those of the libraries.
LEMMA SameOperators ==
    ASSUME NEW S
    PROVE  T!Cardinality(S) = Cardinality(S) /\ T!Min(S) = Min(S)
BY DEF T!Cardinality, Cardinality, T!Min, Min

\* What is free is not used, and keeps its beginning.
LEMMA FreeIsFree ==
    ASSUME NEW S, NEW base \in Seq(S), NEW used, IsFiniteSet(used)
    PROVE  /\ T!Free(base, used) \notin used
           /\ T!Free(base, used) = base \/ \E n \in Nat : T!Free(base, used) = Append(base, n)
<1> DEFINE last == Cardinality(used) + 2
           suffixes == { n \in 2 .. last : Append(base, n) \notin used }
<1>1. last \in Nat /\ Cardinality(2 .. last) > Cardinality(used) /\ IsFiniteSet(2 .. last)
  <2>1. Cardinality(used) \in Nat
    BY FS_CardinalityType
  <2>2. IsFiniteSet(2 .. last) /\ Cardinality(2 .. last) = IF 2 > last THEN 0 ELSE last - 2 + 1
    <3>1. last \in Int /\ 2 \in Int
      BY <2>1
    <3> HIDE DEF last
    <3> QED BY <3>1, FS_Interval
  <2> QED BY <2>1, <2>2
<1>2. suffixes # {}
  <2> SUFFICES ASSUME \A n \in 2 .. last : Append(base, n) \in used PROVE FALSE
    OBVIOUS
  <2> DEFINE f == [n \in 2 .. last |-> Append(base, n)]
  <2>1. f \in [2 .. last -> used]
    OBVIOUS
  <2> HIDE DEF f
  <2>2. PICK x, y \in 2 .. last : x # y /\ f[x] = f[y]
    <3> HIDE DEF last
    <3> QED BY <1>1, <2>1, FS_PigeonHole
  <2>3. x \in Nat /\ y \in Nat /\ Append(base, x) = Append(base, y)
    BY <1>1, <2>2 DEF f
  <2>4. Append(base, x)[Len(base) + 1] = x /\ Append(base, y)[Len(base) + 1] = y
    BY <2>3
  <2> QED BY <2>2, <2>3, <2>4
<1>3. /\ Min(suffixes) \in suffixes
      /\ \A l \in 2 .. Min(suffixes) - 1 : Append(base, l) \in used
  <2>1. suffixes \in SUBSET Nat
    BY <1>1
  <2>2. Min(suffixes) \in suffixes /\ \A n \in suffixes : Min(suffixes) <= n
    <3> HIDE DEF suffixes
    <3> QED BY <1>2, <2>1, LeastIndex
  <2>3. ASSUME NEW l \in 2 .. Min(suffixes) - 1 PROVE Append(base, l) \in used
    <3>1. l \in 2 .. last /\ ~ (Min(suffixes) <= l)
      BY <1>1, <2>1, <2>2
    <3> QED BY <2>2, <3>1
  <2> QED BY <2>2, <2>3
<1>4. CASE base \in used
  <2> DEFINE fits(n) == Append(base, n) \notin used /\ \A l \in 2 .. n - 1 : Append(base, l) \in used
             n0 == CHOOSE n \in 2 .. last : fits(n)
  <2>1. \E n \in 2 .. last : fits(n)
    BY <1>3
  <2>2. n0 \in 2 .. last /\ fits(n0)
    <3> HIDE DEF fits, last
    <3> QED BY <2>1
  <2>3. T!Free(base, used) = Append(base, n0)
    BY <1>4, SameOperators DEF T!Free
  <2>4. n0 \in Nat
    BY <1>1, <2>2
  <2> QED BY <2>2, <2>3, <2>4
<1>5. CASE base \notin used
  BY <1>5 DEF T!Free
<1> QED BY <1>4, <1>5

\* Each thing of a finite set has one name and one guard.
LEMMA FieldsAreFinite ==
    ASSUME NEW D, IsFiniteSet(D), NEW p
    PROVE  IsFiniteSet({ p[l].name : l \in D }) /\ IsFiniteSet({ p[l].guard : l \in D })
<1> DEFINE f == [l \in D |-> p[l].name]
           g == [l \in D |-> p[l].guard]
<1>1. f \in Surjection(D, { p[l].name : l \in D })
  BY DEF Surjection
<1>2. g \in Surjection(D, { p[l].guard : l \in D })
  BY DEF Surjection
<1> HIDE DEF f, g
<1> QED BY <1>1, <1>2, FS_Surjection

\* The guards an intake names.
AskedGuards(i) == { None, i.guard, i.owner } \cup { e.guard : e \in T!ToSet(i.edges) }

\* The stages an intake names.
AskedStages(i) == T!ModeNames(i) \cup { e.to : e \in T!ToSet(i.edges) }

\* The transitions are a list, and their guards and targets are ones the intake names.
LEMMA EdgesAreListed ==
    ASSUME T!IntakesAreTyped, NEW i \in Intakes
    PROVE  /\ T!Len(T!Edges(i)) \in Nat
           /\ DOMAIN T!Edges(i) = 1 .. T!Len(T!Edges(i))
           /\ \A k \in DOMAIN T!Edges(i) :
                T!BaseGuard(i, T!Edges(i)[k]) \in AskedGuards(i) /\ T!Edges(i)[k].to \in AskedStages(i)
<1>1. /\ i.stages \in Seq(T!ToSet(i.stages)) /\ i.stages # << >>
      /\ i.edges \in Seq(T!ToSet(i.edges))
      /\ \A k \in DOMAIN i.edges : DOMAIN i.edges[k] = { "from", "to", "guard" }
  BY DEF T!IntakesAreTyped
<1> DEFINE names == T!Slugs(i)
           r == T!Refreshed(i)
<1>2. Len(names) \in Nat /\ Len(names) - 1 \in Nat /\ DOMAIN names = 1 .. Len(names)
  BY <1>1 DEF T!Slugs
<1>3. PICK N \in Nat :
        /\ DOMAIN r = 1 .. N
        /\ \A k \in DOMAIN r :
            r[k].guard \in AskedGuards(i) /\ r[k].to \in AskedStages(i) /\ DOMAIN r[k] = { "from", "to", "guard" }
  <2> DEFINE line == [k \in 1 .. Len(names) - 1 |->
                        [from |-> names[k], to |-> names[k + 1],
                         guard |-> IF names[k + 1] = i.final THEN i.guard ELSE None]]
  <2>1. CASE r = line
    <3>1. DOMAIN line = 1 .. Len(names) - 1
          /\ \A k \in DOMAIN line :
                /\ DOMAIN line[k] = { "from", "to", "guard" }
                /\ line[k].guard \in { None, i.guard } /\ line[k].to = names[k + 1]
      BY <1>2
    <3>2. \A k \in 1 .. Len(names) - 1 : names[k + 1] \in T!ModeNames(i)
      <4>1. \A k \in 1 .. Len(names) - 1 : k + 1 \in DOMAIN names
        BY <1>2
      <4> HIDE DEF names
      <4> QED BY <4>1 DEF T!ModeNames, T!ToSet, names
    <3> HIDE DEF line, names
    <3> QED BY <1>2, <2>1, <3>1, <3>2 DEF AskedGuards, AskedStages
  <2>2. CASE r = i.edges
    <3>1. \A k \in DOMAIN i.edges : i.edges[k] \in T!ToSet(i.edges)
      BY DEF T!ToSet
    <3> QED BY <1>1, <2>2, <3>1 DEF AskedGuards, AskedStages
  <2>3. r = line \/ r = i.edges
    BY DEF T!Refreshed
  <2> QED BY <2>1, <2>2, <2>3
<1> HIDE DEF r
<1>4. DOMAIN T!Edges(i) = 1 .. N
  BY <1>3 DEF T!Edges, r
<1>5. T!Edges(i) = [k \in 1 .. N |-> IF i.owner # None /\ r[k].to = i.final THEN [r[k] EXCEPT !.guard = i.owner] ELSE r[k]]
  BY <1>3 DEF T!Edges, r
<1>6. ASSUME NEW k \in 1 .. N
      PROVE  T!BaseGuard(i, T!Edges(i)[k]) \in AskedGuards(i) /\ T!Edges(i)[k].to \in AskedStages(i)
  <2>1. T!Edges(i)[k].guard \in AskedGuards(i)
    BY <1>3, <1>5 DEF AskedGuards
  <2>2. T!CompletionGuard(i) \in AskedGuards(i)
    BY DEF T!CompletionGuard, AskedGuards
  <2>3. T!Edges(i)[k].to \in AskedStages(i)
    BY <1>3, <1>5
  <2> QED BY <2>1, <2>2, <2>3 DEF T!BaseGuard
<1> QED BY <1>3, <1>4, <1>5, <1>6

\* The next transition is one of those that are left.
LEMMA NextIsLeft ==
    ASSUME NEW N \in Nat, NEW edges, DOMAIN edges = 1 .. N,
           NEW done, DOMAIN edges \ done # {}
    PROVE  T!NextOf(edges, done) \in DOMAIN edges \ done
<1> DEFINE remaining == DOMAIN edges \ done
           firsts == { T!Opens(edges, k) : k \in remaining }
           leaves == edges[T!Min(firsts)].from
           mine == { k \in remaining : edges[k].from = leaves }
<1>1. \A k \in remaining : T!Opens(edges, k) \in DOMAIN edges /\ edges[T!Opens(edges, k)].from = edges[k].from
  <2> SUFFICES ASSUME NEW k \in remaining
               PROVE  T!Opens(edges, k) \in DOMAIN edges /\ edges[T!Opens(edges, k)].from = edges[k].from
    OBVIOUS
  <2> DEFINE same == { l \in DOMAIN edges : edges[l].from = edges[k].from }
  <2>1. k \in same /\ same \in SUBSET Nat
    OBVIOUS
  <2>2. Min(same) \in same
    <3> HIDE DEF same
    <3> QED BY <2>1, LeastIndex
  <2> QED BY <2>2, SameOperators DEF T!Opens
<1>2. firsts \in SUBSET Nat /\ firsts # {}
  BY <1>1
<1>3. T!Min(firsts) \in firsts
  <2> HIDE DEF firsts
  <2> QED BY <1>2, LeastIndex, SameOperators
<1>4. mine # {} /\ mine \in SUBSET Nat
  <2>1. PICK k \in remaining : T!Min(firsts) = T!Opens(edges, k)
    BY <1>3
  <2>2. leaves = edges[k].from
    BY <1>1, <2>1
  <2>3. k \in mine
    <3> HIDE DEF leaves
    <3> QED BY <2>2
  <2>4. mine \in SUBSET Nat
    <3> HIDE DEF leaves
    <3> QED OBVIOUS
  <2> QED BY <2>3, <2>4
<1>5. T!Min(mine) \in mine
  <2> HIDE DEF mine
  <2> QED BY <1>4, LeastIndex, SameOperators
<1> QED BY <1>5 DEF T!NextOf

\* g[n] is the plan after n of N transitions.
ArePlans(g, i, edges, N) ==
    g = [n \in 0 .. N |-> IF n = 0 THEN << >> ELSE T!PlanStep(i, edges, g[n - 1])]

\* The plans after each number of transitions exist: there is no least number
\* from which they do not.
LEMMA PlansExist ==
    ASSUME NEW i, NEW edges, NEW N \in Nat
    PROVE  \E g : ArePlans(g, i, edges, N)
<1> USE DEF ArePlans
<1> DEFINE some(m) == \E g : ArePlans(g, i, edges, m)
           bad == { m \in Nat : ~some(m) }
<1> SUFFICES ASSUME bad # {} PROVE FALSE
  OBVIOUS
<1>1. Min(bad) \in bad /\ \A m \in bad : Min(bad) <= m
  <2>1. bad \in SUBSET Nat
    OBVIOUS
  <2> HIDE DEF bad
  <2> QED BY <2>1, LeastIndex
<1>2. PICK m \in Nat : m \in bad /\ \A l \in bad : m <= l
  <2> HIDE DEF some
  <2> QED BY <1>1
<1>3. ~some(m)
  BY <1>2
<1>4. CASE m = 0
  <2> DEFINE g == [n \in 0 .. 0 |-> << >>]
  <2>1. g = [n \in 0 .. 0 |-> IF n = 0 THEN << >> ELSE T!PlanStep(i, edges, g[n - 1])]
    OBVIOUS
  <2> HIDE DEF g
  <2> QED BY <1>3, <1>4, <2>1
<1>5. CASE m # 0
  <2>1. m - 1 \in Nat /\ ~ (m <= m - 1)
    BY <1>5
  <2>2. some(m - 1)
    <3> HIDE DEF some
    <3> QED BY <1>2, <2>1
  <2>3. PICK g : g = [n \in 0 .. m - 1 |-> IF n = 0 THEN << >> ELSE T!PlanStep(i, edges, g[n - 1])]
    BY <2>2
  <2> DEFINE h == [n \in 0 .. m |-> IF n = m THEN T!PlanStep(i, edges, g[m - 1]) ELSE g[n]]
  <2>4. ASSUME NEW n \in 0 .. m
        PROVE  h[n] = IF n = 0 THEN << >> ELSE T!PlanStep(i, edges, h[n - 1])
    <3>1. CASE n = 0
      BY <1>5, <2>1, <2>3, <3>1
    <3>2. CASE n # 0
      <4>1. n - 1 \in 0 .. m /\ n - 1 # m /\ n - 1 \in 0 .. m - 1
        BY <1>5, <3>2
      <4>2. h[n - 1] = g[n - 1]
        BY <4>1
      <4>3. CASE n = m
        <5>1. h[n] = T!PlanStep(i, edges, g[m - 1])
          BY <4>3
        <5>2. h[n - 1] = g[m - 1]
          BY <4>2, <4>3
        <5> HIDE DEF h
        <5> QED BY <3>2, <5>1, <5>2
      <4>4. CASE n # m
        <5>1. n \in 0 .. m - 1
          BY <4>4
        <5>2. g[n] = T!PlanStep(i, edges, g[n - 1])
          BY <2>3, <3>2, <5>1
        <5> QED BY <3>2, <4>2, <4>4, <5>2
      <4> QED BY <3>2, <4>3, <4>4
    <3> QED BY <3>1, <3>2
  <2>5. h = [n \in 0 .. m |-> IF n = 0 THEN << >> ELSE T!PlanStep(i, edges, h[n - 1])]
    <3>1. h = [n \in 0 .. m |-> h[n]]
      OBVIOUS
    <3> HIDE DEF h
    <3> QED BY <2>4, <3>1
  <2> HIDE DEF h
  <2> QED BY <1>3, <2>5
<1> QED BY <1>4, <1>5

\* After n transitions: n are planned, each from where it was to where it was, with
\* a name of its own, and with a guard of its own among those that leave its stage.
Apart(i, edges, n, plan) ==
    /\ DOMAIN plan \subseteq DOMAIN edges /\ IsFiniteSet(DOMAIN plan) /\ Cardinality(DOMAIN plan) = n
    /\ \A k \in DOMAIN plan :
        /\ plan[k].source = edges[k].from /\ plan[k].target = edges[k].to
        /\ plan[k].guard \in AskedGuards(i) \/ plan[k].guard[2] = "selected"
    /\ \A k, l \in DOMAIN plan : plan[k].name = plan[l].name => k = l
    /\ \A k, l \in DOMAIN plan :
        plan[k].source = plan[l].source /\ plan[k].guard = plan[l].guard /\ plan[k].guard # None => k = l

LEMMA SecondStays ==
    ASSUME NEW a, NEW b, NEW c, NEW n
    PROVE  Append(<< a, b, c >>, n)[2] = b
OBVIOUS

\* A new guard is one the intake names, or selects its own; and it is apart from
\* those its siblings have.
LEMMA GuardIsApart ==
    ASSUME NEW i, NEW N \in Nat, NEW edges, DOMAIN edges = 1 .. N, NEW k \in DOMAIN edges,
           T!BaseGuard(i, edges[k]) \in AskedGuards(i),
           NEW used, IsFiniteSet(used), None \notin used
    PROVE  LET g == T!GuardFor(i, edges, edges[k], used) IN
           /\ g \in AskedGuards(i) \/ g[2] = "selected"
           /\ T!IsBranch(edges, edges[k]) => g \notin used
<1> DEFINE e == edges[k]
           base == << e.from, "selected", SafeIdentifier[e.to] >>
           g == T!GuardFor(i, edges, e, used)
<1>1. CASE T!IsBranch(edges, e) /\ T!NeedsItsOwn(i, edges, e, used)
  <2>1. g = T!Free(base, used)
    BY <1>1 DEF T!GuardFor
  <2>2. base \in Seq({ e.from, "selected", SafeIdentifier[e.to] }) /\ Len(base) = 3 /\ base[2] = "selected"
    OBVIOUS
  <2>3. g \notin used /\ (g = base \/ \E n \in Nat : g = Append(base, n))
    <3> HIDE DEF base
    <3> QED BY <2>1, <2>2, FreeIsFree
  <2>4. ASSUME NEW n \in Nat PROVE Append(base, n)[2] = "selected"
    BY SecondStays
  <2> QED BY <2>2, <2>3, <2>4
<1>2. CASE ~(T!IsBranch(edges, e) /\ T!NeedsItsOwn(i, edges, e, used))
  BY <1>2 DEF T!GuardFor, T!NeedsItsOwn
<1> QED BY <1>1, <1>2

\* A transition that is no branch leaves its stage alone.
LEMMA NoBranchIsAlone ==
    ASSUME NEW N \in Nat, NEW edges, DOMAIN edges = 1 .. N, NEW k \in DOMAIN edges, NEW l \in DOMAIN edges,
           edges[l].from = edges[k].from, ~T!IsBranch(edges, edges[k])
    PROVE  l = k
<1> DEFINE S == T!Siblings(edges, edges[k])
<1>1. k \in S /\ l \in S /\ S \subseteq 1 .. N
  BY DEF T!Siblings
<1>2. IsFiniteSet(S) /\ Cardinality(S) \in Nat /\ ~(Cardinality(S) > 1)
  <2>1. IsFiniteSet(1 .. N)
    BY FS_Interval
  <2>2. Cardinality(S) = T!Cardinality(S)
    BY SameOperators
  <2> QED BY <1>1, <2>1, <2>2, FS_Subset, FS_CardinalityType DEF T!IsBranch
<1>3. Cardinality({ k } \cup { l }) <= Cardinality(S)
  <2>1. { k } \cup { l } \in SUBSET S
    BY <1>1
  <2> HIDE DEF S
  <2> QED BY <1>2, <2>1, FS_Subset
<1>4. IsFiniteSet({ k }) /\ Cardinality({ k }) = 1
  BY FS_Singleton
<1>5. Cardinality({ k } \cup { l }) = IF l \in { k } THEN Cardinality({ k }) ELSE Cardinality({ k }) + 1
  BY <1>4, FS_AddElement
<1>6. l \in { k }
  <2> SUFFICES ASSUME l \notin { k } PROVE FALSE
    OBVIOUS
  <2>1. Cardinality({ k } \cup { l }) = 2
    BY <1>4, <1>5
  <2> DEFINE c == Cardinality(S)
  <2>2. c \in Nat /\ ~(c > 1) /\ 2 <= c
    BY <1>2, <1>3, <2>1, Zenon
  <2> HIDE DEF c
  <2> QED BY <2>2
<1> QED BY <1>6

\* One more transition is planned apart from the others.
LEMMA StepIsApart ==
    ASSUME NEW i, NEW N \in Nat, NEW edges, DOMAIN edges = 1 .. N,
           \A k \in DOMAIN edges : T!BaseGuard(i, edges[k]) \in AskedGuards(i),
           NEW n \in Nat, n < N, NEW plan, Apart(i, edges, n, plan)
    PROVE  Apart(i, edges, n + 1, T!PlanStep(i, edges, plan))
<1> DEFINE done == DOMAIN plan
           k == T!NextOf(edges, done)
           e == edges[k]
           same == { l \in done : plan[l].source = e.from }
           names == { plan[l].name : l \in done }
           guards == { plan[l].guard : l \in same }
           used == guards \ { None }
           action == [name |-> T!Free(T!NameFor(i, edges, e), names), source |-> e.from, target |-> e.to,
                      guard |-> T!GuardFor(i, edges, e, used)]
           more == T!PlanStep(i, edges, plan)
<1>1. IsFiniteSet(done) /\ Cardinality(done) = n /\ done \subseteq 1 .. N
  BY DEF Apart
<1>2. k \in DOMAIN edges \ done
  <2>1. IsFiniteSet(1 .. N) /\ Cardinality(1 .. N) = N
    BY FS_Interval
  <2>2. 1 .. N # done
    BY <1>1, <2>1
  <2>3. DOMAIN edges \ done # {}
    BY <1>1, <2>2
  <2> QED BY <2>3, NextIsLeft
<1>3. more = [l \in done \cup { k } |-> IF l = k THEN action ELSE plan[l]]
  BY DEF T!PlanStep, T!ActionFor
<1>4. IsFiniteSet(names) /\ IsFiniteSet(used)
  <2>1. IsFiniteSet(same)
    BY <1>1, FS_Subset
  <2>2. IsFiniteSet(names) /\ IsFiniteSet(guards)
    <3> HIDE DEF same, done
    <3> QED BY <1>1, <2>1, FieldsAreFinite
  <2> QED BY <2>2, FS_Subset
<1>5. T!Free(T!NameFor(i, edges, e), names) \notin names
  <2> DEFINE base == T!NameFor(i, edges, e)
             words == { "advance", "begin_work", "complete", SafeIdentifier[e.from], SafeIdentifier[e.to] }
  <2>1. base \in Seq(words)
    <3>1. << "advance", SafeIdentifier[e.from], SafeIdentifier[e.to] >> \in Seq(words)
      OBVIOUS
    <3>2. << "begin_work" >> \in Seq(words) /\ << "complete", SafeIdentifier[e.from] >> \in Seq(words)
      OBVIOUS
    <3> QED BY <3>1, <3>2 DEF T!NameFor
  <2> HIDE DEF base, words, names
  <2>2. T!Free(base, names) \notin names
    BY <1>4, <2>1, FreeIsFree
  <2> QED BY <2>2 DEF base
<1>6. /\ action.guard \in AskedGuards(i) \/ action.guard[2] = "selected"
      /\ T!IsBranch(edges, e) => action.guard \notin used
  <2>1. None \notin used /\ k \in DOMAIN edges /\ T!BaseGuard(i, edges[k]) \in AskedGuards(i)
    BY <1>2
  <2>2. /\ T!GuardFor(i, edges, e, used) \in AskedGuards(i) \/ T!GuardFor(i, edges, e, used)[2] = "selected"
        /\ T!IsBranch(edges, e) => T!GuardFor(i, edges, e, used) \notin used
    <3> HIDE DEF used, k
    <3> QED BY <1>4, <2>1, GuardIsApart
  <2> QED BY <2>2
<1>7. /\ DOMAIN more = done \cup { k }
      /\ \A l \in done : l # k /\ more[l] = plan[l]
      /\ more[k] = action
  <2> HIDE DEF k, action, more
  <2> QED BY <1>2, <1>3
<1>8. DOMAIN more \subseteq DOMAIN edges /\ IsFiniteSet(DOMAIN more) /\ Cardinality(DOMAIN more) = n + 1
  <2> HIDE DEF k, more, done
  <2>1. IsFiniteSet(done \cup { k })
        /\ Cardinality(done \cup { k }) = IF k \in done THEN Cardinality(done) ELSE Cardinality(done) + 1
    BY <1>1, FS_AddElement
  <2> QED BY <1>1, <1>2, <1>7, <2>1
<1>9. /\ action.name \notin names
      /\ action.source = e.from /\ action.target = e.to
  BY <1>5
<1>10. ASSUME NEW l \in done, plan[l].source = e.from, plan[l].guard = action.guard, action.guard # None
       PROVE  FALSE
  <2>1. action.guard \in used
    <3> HIDE DEF action, e
    <3> QED BY <1>10
  <2>2. ~T!IsBranch(edges, e)
    BY <1>6, <2>1
  <2>3. edges[l].from = e.from /\ l \in DOMAIN edges
    BY <1>10 DEF Apart
  <2>4. k \in DOMAIN edges /\ l # k
    BY <1>2
  <2> HIDE DEF k
  <2> QED BY <2>2, <2>3, <2>4, NoBranchIsAlone
<1> HIDE DEF k, action, more
<1>11. \A l \in DOMAIN more :
        /\ more[l].source = edges[l].from /\ more[l].target = edges[l].to
        /\ more[l].guard \in AskedGuards(i) \/ more[l].guard[2] = "selected"
  BY <1>6, <1>7, <1>9 DEF Apart
<1>12. \A l, m \in DOMAIN more : more[l].name = more[m].name => l = m
  BY <1>7, <1>9 DEF Apart
<1>13. \A l, m \in DOMAIN more :
        more[l].source = more[m].source /\ more[l].guard = more[m].guard /\ more[l].guard # None => l = m
  BY <1>7, <1>9, <1>10 DEF Apart
<1> QED BY <1>8, <1>11, <1>12, <1>13 DEF Apart, more

\* The plan of an intake is the last of its plans.
LEMMA PlanIsTheLast ==
    ASSUME NEW i, \E g : ArePlans(g, i, T!Edges(i), T!Len(T!Edges(i)))
    PROVE  \E g : ArePlans(g, i, T!Edges(i), T!Len(T!Edges(i))) /\ T!Plan(i) = g[T!Len(T!Edges(i))]
BY DEF T!Plan, ArePlans

\* The plan of a whole intake.
LEMMA PlanIsApart ==
    ASSUME T!IntakesAreTyped, NEW i \in Intakes
    PROVE  \E n : Apart(i, T!Edges(i), n, T!Plan(i))
<1> DEFINE edges == T!Edges(i)
           N == T!Len(edges)
<1>1. /\ N \in Nat /\ DOMAIN edges = 1 .. N
      /\ \A k \in DOMAIN edges : T!BaseGuard(i, edges[k]) \in AskedGuards(i) /\ edges[k].to \in AskedStages(i)
  BY EdgesAreListed
<1>2. \E g : ArePlans(g, i, edges, N)
  BY <1>1, PlansExist
<1>3. \E g : ArePlans(g, i, edges, N) /\ T!Plan(i) = g[N]
  BY <1>2, PlanIsTheLast
<1> HIDE DEF edges, N
<1>4. PICK g : ArePlans(g, i, edges, N) /\ T!Plan(i) = g[N]
  BY <1>3
<1>5. g[0] = << >> /\ \A n \in 0 .. N : n # 0 => g[n] = T!PlanStep(i, edges, g[n - 1])
  BY <1>1, <1>4 DEF ArePlans
<1>6. Apart(i, edges, 0, << >>)
  <2>1. DOMAIN << >> = {} /\ IsFiniteSet({}) /\ Cardinality({}) = 0
    BY FS_EmptySet
  <2> QED BY <2>1 DEF Apart
<1> DEFINE bad == { n \in 0 .. N : ~Apart(i, edges, n, g[n]) }
<1>7. bad = {}
  <2> SUFFICES ASSUME bad # {} PROVE FALSE
    OBVIOUS
  <2>1. bad \in SUBSET Nat
    BY <1>1
  <2>2. Min(bad) \in bad /\ \A m \in bad : Min(bad) <= m
    <3> HIDE DEF bad
    <3> QED BY <2>1, LeastIndex
  <2>3. PICK m \in bad : \A l \in bad : m <= l
    <3> HIDE DEF bad
    <3> QED BY <2>2
  <2>4. m # 0 /\ m \in 0 .. N
    BY <1>5, <1>6, <2>3
  <2>5. m - 1 \in Nat /\ m - 1 \in 0 .. N /\ ~(m <= m - 1) /\ m - 1 < N /\ (m - 1) + 1 = m
    BY <1>1, <2>4
  <2>6. Apart(i, edges, m - 1, g[m - 1])
    BY <2>3, <2>5
  <2>7. Apart(i, edges, (m - 1) + 1, T!PlanStep(i, edges, g[m - 1]))
    <3>1. \A k \in DOMAIN edges : T!BaseGuard(i, edges[k]) \in AskedGuards(i)
      BY <1>1
    <3> HIDE DEF bad
    <3> QED BY <1>1, <2>5, <2>6, <3>1, StepIsApart
  <2> QED BY <1>5, <2>3, <2>4, <2>5, <2>7
<1>8. Apart(i, edges, N, g[N])
  BY <1>1, <1>7
<1> QED BY <1>4, <1>8 DEF edges

\* Names are unique, and so are guards among the transitions that leave a stage.
NamesApart(i) == \A a, b \in T!Planned(i) : a.name = b.name => a = b
GuardsApart(i) ==
    \A a, b \in T!Planned(i) : a.source = b.source /\ a.guard = b.guard /\ a.guard # None => a = b

\* What planTransitionActions makes of any list of stages and transitions, of any
\* length: action names are unique, and so are the guards of the transitions that
\* leave one stage, whatever guards the intake gave them; a guard that the intake
\* does not name selects a transition.
THEOREM PlannedApart ==
    ASSUME T!IntakesAreTyped, NEW i \in Intakes
    PROVE  /\ NamesApart(i) /\ GuardsApart(i)
           /\ \A a \in T!Planned(i) :
                a.target \in AskedStages(i) /\ (a.guard \in AskedGuards(i) \/ a.guard[2] = "selected")
<1> DEFINE plan == T!Plan(i)
<1>1. PICK n : Apart(i, T!Edges(i), n, plan)
  BY PlanIsApart
<1>2. T!Planned(i) = { plan[k] : k \in DOMAIN plan }
  BY DEF T!Planned, T!Plans, T!ToSet
<1>3. \A k \in DOMAIN T!Edges(i) : T!Edges(i)[k].to \in AskedStages(i)
  BY EdgesAreListed
<1> HIDE DEF plan
<1> QED BY <1>1, <1>2, <1>3 DEF Apart, NamesApart, GuardsApart

---------------------------------------------------------------------------
(* Lemmas on the topology.                                                  *)

\* A hub is no export: an export is classified first.
LEMMA HubIsNoExport ==
    ASSUME NEW i, NEW m, m \in T!Hubs(i)
    PROVE  m \notin T!ExportModes(i) /\ T!Archetype(i, m) = "hub"
<1>1. T!Archetype(i, m) = "hub"
  BY DEF T!Hubs, T!IsHub
<1>2. T!StageOf(i, m).export = None
  <2> SUFFICES ASSUME T!StageOf(i, m).export # None PROVE FALSE
    OBVIOUS
  <2>1. T!Archetype(i, m) = "compute"
    BY DEF T!Archetype
  <2> QED BY <1>1, <2>1
<1> QED BY <1>1, <1>2 DEF T!ExportModes, T!IsExport

\* The ways out of a stage that is no export are its planned transitions with their guards.
LEMMA WaysAreThePlanned ==
    ASSUME NEW i \in Intakes, NEW m \in T!ModeNames(i) \ T!ExportModes(i)
    PROVE  /\ \A t \in T!Ways[i][m] : \E a \in T!Planned(i) : a.source = m /\ t.target = a.target /\ t.when = a.guard
           /\ \A a \in T!Planned(i) : a.source = m =>
                 \E t \in T!Ways[i][m] : t.target = a.target /\ t.when = a.guard
<1>1. m \in T!ModeNames(i) /\ m \notin T!ExportModes(i)
  OBVIOUS
<1>2. T!Ways[i][m] = T!Transitions(i, m)
  BY <1>1 DEF T!Ways
<1>3. T!Transitions(i, m) = { [target |-> a.target, when |-> a.guard] : a \in { b \in T!Planned(i) : b.source = m } }
  BY <1>1 DEF T!Transitions
<1>4. \A t \in T!Ways[i][m] : \E a \in T!Planned(i) : a.source = m /\ t.target = a.target /\ t.when = a.guard
  <2> SUFFICES ASSUME NEW t \in T!Ways[i][m]
               PROVE  \E a \in T!Planned(i) : a.source = m /\ t.target = a.target /\ t.when = a.guard
    OBVIOUS
  <2>1. PICK a \in { b \in T!Planned(i) : b.source = m } : t = [target |-> a.target, when |-> a.guard]
    BY <1>2, <1>3
  <2>2. t.target = a.target /\ t.when = a.guard
    BY <2>1
  <2> QED BY <2>1, <2>2
<1>5. \A a \in T!Planned(i) : a.source = m => \E t \in T!Ways[i][m] : t.target = a.target /\ t.when = a.guard
  <2> SUFFICES ASSUME NEW a \in T!Planned(i), a.source = m
               PROVE  \E t \in T!Ways[i][m] : t.target = a.target /\ t.when = a.guard
    OBVIOUS
  <2> DEFINE t == [target |-> a.target, when |-> a.guard]
  <2>1. t \in T!Ways[i][m]
    BY <1>2, <1>3
  <2>2. t.target = a.target /\ t.when = a.guard
    OBVIOUS
  <2> QED BY <2>1, <2>2
<1> QED BY <1>4, <1>5

\* A hub is such a stage.
LEMMA HubIsAuthored ==
    ASSUME NEW i, NEW m \in T!Hubs(i)
    PROVE  m \in T!ModeNames(i) \ T!ExportModes(i)
BY HubIsNoExport DEF T!Hubs

\* An action of such a stage is a planned one: it proceeds to its target, and
\* writes its guard, what its author answers, and the trigger of an export.
LEMMA ActionIsPlanned ==
    ASSUME T!IntakesAreTyped, NEW i \in Intakes, NEW m \in T!ModeNames(i) \ T!ExportModes(i),
           NEW n \in T!Vocabulary(i, m), n \in DOMAIN T!Actions[i]
    PROVE  \E a \in T!Planned(i) :
              /\ a.name = n /\ a.source = m
              /\ T!Actions[i][n].proceeds = a.target
              /\ T!Actions[i][n].writes = T!Mutations(i, a) \cup T!ArmsExport(i, a)
<1>1. PICK a \in T!Planned(i) : a.source = m /\ a.name = n
  BY DEF T!Vocabulary
<1>2. T!Actions[i] = T!ActionMap(i)
  BY DEF T!Actions
<1>3. \E b \in T!Mapped(i) : b.name = n
  BY <1>2 DEF T!ActionMap
<1>4. T!Named(i, n) \in T!Mapped(i) /\ T!Named(i, n).name = n
  BY <1>3 DEF T!Named
<1>5. T!Named(i, n) = a
  BY <1>1, <1>4, PlannedApart DEF NamesApart, T!Mapped
<1>6. T!Actions[i][n].writes = T!Mutations(i, a) \cup T!ArmsExport(i, a) /\ T!Actions[i][n].proceeds = a.target
  BY <1>2, <1>3, <1>5 DEF T!ActionMap
<1> QED BY <1>1, <1>6

\* A hub asks for no answer: its actions write their guard and a trigger.
LEMMA HubWrites ==
    ASSUME NEW i, NEW a, a.source \in T!Hubs(i)
    PROVE  T!Mutations(i, a) = { a.guard } \ { None }
BY HubIsNoExport DEF T!Mutations

\* The stage is left the way the author asked for.
LEMMA TakenIsOpen ==
    ASSUME T!IntakesAreTyped, intake \in Intakes, NEW n, T!Take(n)
    PROVE  \E a \in T!Planned(intake) :
              /\ a.name = n /\ a.source = mode
              /\ mode \in T!ModeNames(intake) \ T!ExportModes(intake)
              /\ T!Actions[intake][n].proceeds = a.target
              /\ T!Actions[intake][n].writes = T!Mutations(intake, a) \cup T!ArmsExport(intake, a)
              /\ T!Enter(a.target, truthy \cup T!Actions[intake][n].writes)
              /\ rendered' = (T!RenderPending(a.target) \in T!Actions[intake][n].writes)
<1> DEFINE action == T!Actions[intake][n]
           guards == truthy \cup action.writes
           open == { t \in T!Ways[intake][mode] : t.target = action.proceeds /\ T!Holds(t, guards) }
<1>1. /\ mode \in T!ModeNames(intake) \ T!ExportModes(intake)
      /\ n \in T!Vocabulary(intake, mode) /\ n \in DOMAIN T!Actions[intake]
  BY DEF T!Take, T!Authored
<1>2. /\ T!Enter(IF open = {} THEN mode ELSE action.proceeds, guards)
      /\ rendered' = (T!RenderPending(action.proceeds) \in action.writes)
  BY DEF T!Take
<1>3. PICK a \in T!Planned(intake) :
        /\ a.name = n /\ a.source = mode /\ action.proceeds = a.target
        /\ action.writes = T!Mutations(intake, a) \cup T!ArmsExport(intake, a)
  BY <1>1, ActionIsPlanned
<1>4. PICK t \in T!Ways[intake][mode] : t.target = a.target /\ t.when = a.guard
  BY <1>1, <1>3, WaysAreThePlanned
<1>5. a.guard # None => a.guard \in action.writes
  BY <1>3 DEF T!Mutations
<1>6. t \in open
  BY <1>3, <1>4, <1>5 DEF T!Holds
<1>7. T!Enter(a.target, guards) /\ rendered' = (T!RenderPending(a.target) \in action.writes)
  <2>1. open # {}
    BY <1>6
  <2> HIDE DEF open, action
  <2> QED BY <1>2, <1>3, <2>1
<1> QED BY <1>1, <1>3, <1>7

\* What an action writes besides its guard is no guard.
LEMMA WrittenIsOwn ==
    ASSUME T!IntakesAreTyped, T!GuardsArePlain, NEW i \in Intakes,
           NEW a \in T!Planned(i), a.source \in T!ModeNames(i), NEW b \in T!Planned(i)
    PROVE  /\ b.guard \in T!Mutations(i, a) => b.guard = a.guard /\ a.guard # None
           /\ b.guard \notin T!ArmsExport(i, a)
           /\ T!RenderPending(a.target) \in T!Mutations(i, a) => FALSE
<1>1. AskedGuards(i) \cap T!OwnPaths(i) = {}
  BY DEF T!GuardsArePlain, AskedGuards
<1>2. \A c \in T!Planned(i) : c.target \in AskedStages(i) /\ (c.guard \in AskedGuards(i) \/ c.guard[2] = "selected")
  BY PlannedApart
<1>3. \A p \in T!OwnPaths(i) : p[2] # "selected"
  BY DEF T!OwnPaths
<1>4. \A c \in T!Planned(i) : c.guard \notin T!OwnPaths(i)
  BY <1>1, <1>2, <1>3
<1>5. T!RenderPending(a.target) \in T!OwnPaths(i)
  BY <1>2 DEF T!RenderPending, T!OwnPaths, AskedStages
<1>6. /\ << a.source, "result_json" >> \in T!OwnPaths(i) /\ << a.source, "items_json" >> \in T!OwnPaths(i)
      /\ T!RenderPending(a.target) \notin { << a.source, "result_json" >>, << a.source, "items_json" >> }
  BY DEF T!OwnPaths, T!RenderPending
<1>7. T!Mutations(i, a) \subseteq ({ a.guard } \ { None }) \cup { << a.source, "result_json" >>, << a.source, "items_json" >> }
  BY DEF T!Mutations
<1>8. T!ArmsExport(i, a) \subseteq { T!RenderPending(a.target) }
  BY DEF T!ArmsExport
<1> QED BY <1>4, <1>5, <1>6, <1>7, <1>8

---------------------------------------------------------------------------
(* The invariant.                                                           *)

LEMMA EnteredFresh ==
    ASSUME FreshInv, NEW m, NEW guards, T!Enter(m, guards),
           m = mode => (m \in T!Hubs(intake) =>
                \A a \in T!Planned(intake) :
                    a.source = m /\ a.guard # None /\ a.guard \in guards => a.target = m)
    PROVE  FreshInv'
<1>1. mode' = m /\ intake' = intake /\ intake \in Intakes
  BY DEF FreshInv, T!Enter
<1>2. ASSUME m \in T!Hubs(intake),
             NEW a \in T!Planned(intake), a.source = m, a.guard # None, a.guard \in truthy'
      PROVE  a.target = m
  <2>1. a.guard \in T!HubGuards(intake, m)
    BY <1>2 DEF T!HubGuards
  <2>2. CASE m = mode
    BY <1>2, <2>2 DEF T!Enter
  <2>3. CASE m # mode
    BY <1>2, <2>1, <2>3 DEF T!Enter, T!ResetsGuards, T!MayReset
  <2> QED BY <2>2, <2>3
<1> QED BY <1>1, <1>2 DEF FreshInv, HubIsFresh

LEMMA TakeKeepsFresh ==
    ASSUME T!IntakesAreTyped, FreshInv, NEW n, T!Take(n)
    PROVE  FreshInv'
<1> DEFINE action == T!Actions[intake][n]
           guards == truthy \cup action.writes
<1>1. intake \in Intakes
  BY DEF FreshInv
<1>2. PICK a \in T!Planned(intake) :
        /\ a.name = n /\ a.source = mode /\ action.writes = T!Mutations(intake, a) \cup T!ArmsExport(intake, a)
        /\ T!Enter(a.target, guards)
  BY <1>1, TakenIsOpen
<1>3. ASSUME a.target = mode, mode \in T!Hubs(intake),
             NEW b \in T!Planned(intake), b.source = mode, b.guard # None, b.guard \in guards
      PROVE  b.target = mode
  <2>1. action.writes = { a.guard } \ { None }
    BY <1>2, <1>3, HubIsNoExport, HubWrites DEF T!ArmsExport
  <2>2. CASE b.guard \in truthy
    BY <1>3, <2>2 DEF FreshInv, HubIsFresh
  <2>3. CASE b.guard \in action.writes
    <3>1. b = a
      BY <1>1, <1>2, <1>3, <2>1, <2>3, PlannedApart DEF GuardsApart
    <3> QED BY <1>3, <3>1
  <2> QED BY <1>3, <2>2, <2>3
<1> HIDE DEF guards, action
<1> QED BY <1>2, <1>3, EnteredFresh

LEMMA InferKeepsFresh ==
    ASSUME FreshInv, NEW t, T!Infer(t)
    PROVE  FreshInv'
<1>1. T!Enter(t.target, truthy)
  BY DEF T!Infer
<1>2. t.target = mode => (t.target \in T!Hubs(intake) =>
        \A a \in T!Planned(intake) :
            a.source = t.target /\ a.guard # None /\ a.guard \in truthy => a.target = t.target)
  BY DEF FreshInv, HubIsFresh
<1> QED BY <1>1, <1>2, EnteredFresh

\* No session comes to a hub with a way out of it already open.
LEMMA FreshHubs ==
    ASSUME T!IntakesAreTyped
    PROVE  T!Spec => []FreshInv
<1>1. T!Init => FreshInv
  <2> SUFFICES ASSUME T!Init PROVE FreshInv
    OBVIOUS
  <2>1. truthy = {} /\ intake \in Intakes
    BY DEF T!Init
  <2> QED BY <2>1 DEF FreshInv, HubIsFresh
<1>2. FreshInv /\ [T!Next]_(T!vars) => FreshInv'
  <2> SUFFICES ASSUME FreshInv, [T!Next]_(T!vars) PROVE FreshInv'
    OBVIOUS
  <2>1. CASE UNCHANGED T!vars
    BY <2>1 DEF T!vars, FreshInv, HubIsFresh
  <2>2. CASE T!Synthesize
    BY <2>2 DEF T!Synthesize, FreshInv, HubIsFresh
  <2>3. CASE T!Takes
    BY <2>3, TakeKeepsFresh DEF T!Takes
  <2>4. CASE T!Stay
    BY <2>1, <2>4, InferKeepsFresh DEF T!Stay
  <2>5. CASE T!Drain
    BY <2>5, InferKeepsFresh DEF T!Drain
  <2>6. CASE T!Rest
    BY <2>1, <2>6 DEF T!Rest
  <2> QED BY <2>1, <2>2, <2>3, <2>4, <2>5, <2>6 DEF T!Next
<1> QED BY <1>1, <1>2, PTL DEF T!Spec

---------------------------------------------------------------------------
(* Theorems.                                                                *)

LEMMA FreshHubsHold ==
    ASSUME FreshInv, T!Stay, mode \in T!Hubs(intake), \A t \in T!Ways[intake][mode] : t.when # None
    PROVE  mode' = mode
<1>1. CASE UNCHANGED T!vars
  BY <1>1 DEF T!vars
<1>2. CASE \E t \in T!Ways[intake][mode] : T!Infer(t)
  <2>1. PICK t \in T!Ways[intake][mode] : T!Infer(t)
    BY <1>2
  <2>2. t.when # None /\ t.when \in truthy
    BY <2>1 DEF T!Infer, T!Holds
  <2>3. PICK a \in T!Planned(intake) : a.source = mode /\ t.target = a.target /\ t.when = a.guard
    BY HubIsAuthored, WaysAreThePlanned DEF FreshInv
  <2>4. t.target = mode
    BY <2>2, <2>3 DEF FreshInv, HubIsFresh
  <2> QED BY <2>1, <2>4 DEF T!Infer, T!Enter
<1> QED BY <1>1, <1>2 DEF T!Stay

\* A round that proposes nothing leaves the session in its hub, for every topology:
\* the reaction on the way in has taken back what opened the branch before.
THEOREM HubsHold ==
    ASSUME T!IntakesAreTyped
    PROVE  T!Spec => T!HubHolds
<1>1. T!Spec => []FreshInv
  BY FreshHubs
<1>2. FreshInv /\ [T!Next]_(T!vars) =>
        [T!Stay /\ mode \in T!Hubs(intake) /\ (\A t \in T!Ways[intake][mode] : t.when # None) => mode' = mode]_(T!vars)
  BY FreshHubsHold
<1> QED BY <1>1, <1>2, PTL DEF T!Spec, T!HubHolds

\* A guard that is written opens one way out of its stage: the one the author took.
LEMMA TakenAlone ==
    ASSUME T!IntakesAreTyped, T!GuardsArePlain, FreshInv, NEW n, T!Take(n)
    PROVE  /\ mode' = T!Actions[intake][n].proceeds
           /\ \A b \in T!Others(n) : b.guard \notin T!Actions[intake][n].writes
           /\ rendered' <=> mode' \in T!ExportModes(intake)
<1>1. intake \in Intakes
  BY DEF FreshInv
<1>2. PICK a \in T!Planned(intake) :
        /\ a.name = n /\ a.source = mode
        /\ mode \in T!ModeNames(intake) \ T!ExportModes(intake)
        /\ T!Actions[intake][n].proceeds = a.target
        /\ T!Actions[intake][n].writes = T!Mutations(intake, a) \cup T!ArmsExport(intake, a)
        /\ T!Enter(a.target, truthy \cup T!Actions[intake][n].writes)
        /\ rendered' = (T!RenderPending(a.target) \in T!Actions[intake][n].writes)
  BY <1>1, TakenIsOpen
<1>3. mode' = a.target
  BY <1>2 DEF T!Enter
<1>4. ASSUME NEW b \in T!Others(n) PROVE b.guard \notin T!Actions[intake][n].writes
  <2>1. b \in T!Planned(intake) /\ b.source = a.source /\ b # a
    BY <1>2 DEF T!Others
  <2>2. ~(b.guard = a.guard /\ a.guard # None)
    BY <1>1, <2>1, PlannedApart DEF GuardsApart
  <2> QED BY <1>1, <1>2, <2>1, <2>2, WrittenIsOwn
<1>5. rendered' <=> T!RenderPending(a.target) \in T!ArmsExport(intake, a)
  BY <1>1, <1>2, WrittenIsOwn
<1>6. T!RenderPending(a.target) \in T!ArmsExport(intake, a) <=> a.target \in T!ExportModes(intake)
  BY DEF T!ArmsExport
<1> QED BY <1>2, <1>3, <1>4, <1>5, <1>6

\* An action leads where it was planned to and opens no other way out of its stage,
\* for every topology and whatever guards the intake gave the siblings: a guard that
\* two of them were to share is given to one, and the others get their own.
THEOREM OneBranchAlwaysOpens ==
    ASSUME T!IntakesAreTyped, T!GuardsArePlain
    PROVE  T!Spec => T!OneBranchOpens
<1>1. T!Spec => []FreshInv
  BY FreshHubs
<1>2. FreshInv /\ [T!Next]_(T!vars) =>
        [\A n \in DOMAIN T!Actions[intake] : T!Take(n) =>
            /\ mode' = T!Actions[intake][n].proceeds
            /\ \A a \in T!Others(n) : a.guard \notin T!Actions[intake][n].writes]_(T!vars)
  BY TakenAlone
<1> QED BY <1>1, <1>2, PTL DEF T!Spec, T!OneBranchOpens

\* An action renders exactly if it enters an export, for every topology: no action
\* writes the trigger of an export it does not lead to, and every way into one
\* carries it.
THEOREM RenderedAlwaysOnEntry ==
    ASSUME T!IntakesAreTyped, T!GuardsArePlain
    PROVE  T!Spec => T!RenderedOnEntry
<1>1. T!Spec => []FreshInv
  BY FreshHubs
<1>2. FreshInv /\ [T!Next]_(T!vars) =>
        [\A n \in DOMAIN T!Actions[intake] : T!Take(n) => (rendered' <=> mode' \in T!ExportModes(intake))]_(T!vars)
  BY TakenAlone
<1> QED BY <1>1, <1>2, PTL DEF T!Spec, T!RenderedOnEntry
=============================================================================
