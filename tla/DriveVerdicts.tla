--------------------------- MODULE DriveVerdicts ---------------------------
(***************************************************************************)
(* What a live drive is judged by.  A drive runs a generated program on a   *)
(* real engine and provider and leaves a report; the operators below are    *)
(* the verdicts the caller draws from that report and from the number of    *)
(* provider round trips its proxy counted (generated-live-drive.ts, and the *)
(* graduation gate of handlers.ts).                                         *)
(*                                                                          *)
(* A report's world is abstracted to what the verdicts ask of it: the       *)
(* status of each confirmation item, a set of facts (the boolean fields the *)
(* runners harvest), the rounds the child claims, whether a stage output    *)
(* carries stub markers, and the keyed collection.                          *)
(***************************************************************************)
EXTENDS Naturals, Sequences, FiniteSets

None == "none"
Final == "complete"      \* the completion stage (options.finalStage)

---------------------------------------------------------------------------
(* Scripts and runners.                                                     *)

ScriptNames == { "confirmation", "delegation", "upload", "export", "extraction", "keyed" }

\* Which runner source a set of scripts selects; a keyed script that comes with
\* another one is refused.
RunnerFor(scripts) ==
    CASE "keyed" \in scripts /\ Cardinality(scripts) > 1 -> "refused"
      [] scripts = {} -> "entry_only"
      [] Cardinality(scripts) = 1 -> CHOOSE s \in scripts : TRUE
      [] OTHER -> "composite"

(* How the main loops of the rendered runners differ.                       *)
(*   races   : do its triggers race the runner's own deadline?              *)
(*   tells   : the triggers whose timeout leaves a full report              *)
(*   tellsAll: does any other error of a trigger leave a full report too?   *)
EntryOnlyRunner    == [races |-> FALSE, tells |-> {}, tellsAll |-> FALSE]
ConfirmationRunner == [races |-> FALSE, tells |-> {}, tellsAll |-> FALSE]
DelegationRunner   == [races |-> TRUE, tells |-> { "entry" }, tellsAll |-> FALSE]
ExtractionRunner   == [races |-> TRUE, tells |-> { "entry" }, tellsAll |-> FALSE]
UploadRunner       == [races |-> TRUE, tells |-> { "entry" }, tellsAll |-> FALSE]
ExportRunner       == [races |-> TRUE, tells |-> { "entry" }, tellsAll |-> FALSE]
KeyedRunner        == [races |-> TRUE, tells |-> { "entry" }, tellsAll |-> TRUE]
CompositeRunner    == [races |-> TRUE, tells |-> { "entry", "decision", "upload", "extraction" },
                       tellsAll |-> FALSE]

Runner(scripts) ==
    LET kind == RunnerFor(scripts) IN
    CASE kind = "confirmation" -> ConfirmationRunner
      [] kind = "delegation"   -> DelegationRunner
      [] kind = "extraction"   -> ExtractionRunner
      [] kind = "upload"       -> UploadRunner
      [] kind = "export"       -> ExportRunner
      [] kind = "keyed"        -> KeyedRunner
      [] kind = "composite"    -> CompositeRunner
      [] OTHER                 -> EntryOnlyRunner

---------------------------------------------------------------------------
(* Confirmation choreography.                                               *)

Decisions == { "approve", "request_revision", "reject" }
Statuses  == { "pending", "proposed", "accepted", "revision_requested", "rejected" }

\* The status each decision must leave its item in.
DecisionTable == [d \in Decisions |->
    CASE d = "approve" -> "accepted"
      [] d = "request_revision" -> "revision_requested"
      [] OTHER -> "rejected"]

Proposed(items) == { i \in DOMAIN items : items[i] = "proposed" }

\* The item a runner decides on: the first one that is proposed.
FirstProposed(items) == CHOOSE i \in Proposed(items) : \A j \in Proposed(items) : i <= j

\* A snapshot carries the decision that was sent before it, if any; an item no
\* snapshot holds has no status.
Respects(snapshot) ==
    snapshot.decision # None =>
        /\ snapshot.index \in DOMAIN snapshot.items
        /\ snapshot.items[snapshot.index] = DecisionTable[snapshot.decision]

Applied(history) ==
    { n \in DOMAIN history : history[n].decision # None /\ Respects(history[n]) }

\* respected, one proposed at a time, engaged
ChoreographyHolds(history, script) ==
    /\ \A n \in DOMAIN history : Respects(history[n])
    /\ script # << >> => Applied(history) # {}
    /\ \A n \in DOMAIN history : Cardinality(Proposed(history[n].items)) <= 1
    /\ \E n \in DOMAIN history : Proposed(history[n].items) # {}
    /\ Applied(history) # {}

---------------------------------------------------------------------------
(* Engagement.  facts, child, stubs and mode are read from the report.      *)

DelegationFacts == { "child_complete", "child_distinct", "child_settled" }
UploadFacts == { "upload_accepted", "refs_landed", "extracted", "sentinel", "exact", "source_ready" }
ExtractionFacts == { "fixture_accepted", "fixture_landed", "fixture_extracted", "fixture_sentinel",
                     "fixture_exact", "fixture_ready", "docx_deflate", "sentinel_hidden" }
ExportFacts == { "artifact", "decodes", "nonce", "default_absent", "store_zip" }

DelegationEngaged(mode, world, hits) ==
    /\ DelegationFacts \subseteq world.facts
    /\ world.child >= 1
    /\ mode = Final
    /\ hits >= 1 + world.child
    /\ ~world.stubs

UploadEngaged(mode, world, hits) ==
    /\ UploadFacts \subseteq world.facts
    /\ mode = Final
    /\ hits >= 1
    /\ ~world.stubs

ExtractionEngaged(mode, world, hits) ==
    /\ ExtractionFacts \subseteq world.facts
    /\ mode = Final
    /\ hits >= 1
    /\ ~world.stubs

\* The export verdict looks at the artifact alone.
ExportEngaged(exported) == ExportFacts \subseteq exported

(* Keyed collection.  A round is the action it took: an append of one       *)
(* element, an append of a batch (which has no key), the completion action  *)
(* of the stage, with the batch argument or without, or another one.  The   *)
(* payload of an element is the set of its fields with their values.        *)

\* The rounds that append, the keys they append for, and those that do for one.
Appends(rounds) == { n \in DOMAIN rounds : rounds[n].act = "append" }
KeysOf(rounds) == { rounds[n].key : n \in Appends(rounds) }
CallsOf(rounds, k) == { n \in Appends(rounds) : rounds[n].key = k }
Repeated(rounds) == { k \in KeysOf(rounds) \ { None } : Cardinality(CallsOf(rounds, k)) >= 2 }
FirstCall(rounds, k) ==
    rounds[CHOOSE n \in CallsOf(rounds, k) : \A m \in CallsOf(rounds, k) : n <= m]
LastCall(rounds, k) ==
    rounds[CHOOSE n \in CallsOf(rounds, k) : \A m \in CallsOf(rounds, k) : n >= m]

\* Mutant of Telling: any repeated key will do.
TellingAny(rounds) == Repeated(rounds)

\* The repeated keys whose last payload differs from their first: only these tell
\* a replacement from a store that keeps the first element.
Telling(rounds) ==
    { k \in Repeated(rounds) : FirstCall(rounds, k).value # LastCall(rounds, k).value }

\* The element the verdict finds for a key is the first of the collection; it must
\* carry every field of the last payload, and may carry others.
Replaced(collection, rounds, k) ==
    \E n \in DOMAIN collection :
        /\ collection[n].key = k /\ \A m \in 1 .. n - 1 : collection[m].key # k
        /\ LastCall(rounds, k).value \subseteq collection[n].value

KeyedEngaged(mode, world, rounds, hits) ==
    LET calls == Cardinality(Appends(rounds))
        acts == { rounds[n].act : n \in DOMAIN rounds }
    IN
    /\ calls >= 2
    /\ None \notin KeysOf(rounds)
    /\ Repeated(rounds) # {}
    /\ Len(world.collection) >= 1
    /\ Len(world.collection) = Cardinality(KeysOf(rounds))
    /\ Telling(rounds) # {}
    /\ \A k \in Telling(rounds) : Replaced(world.collection, rounds, k)
    /\ "finish" \in acts /\ "finish_batch" \notin acts
    /\ mode = Final
    /\ hits >= calls + 1
    /\ ~world.stubs

---------------------------------------------------------------------------
(* The gate: a drive passes when there is no reason to fail it.  noisy: a   *)
(* runner that did not exit with 0 may have left output, which counts as    *)
(* its error.  For the scripts the gate does not derive, the engagement is  *)
(* what the caller of the drive asks for.                                   *)
GatePasses(scripts, script, report, hits, exit, noisy) ==
    LET mode == report.envelope.mode
        world == report.world
    IN
    /\ mode = Final
    /\ hits >= 1
    /\ "confirmation" \in scripts => ChoreographyHolds(report.history, script)
    /\ "delegation" \in scripts => DelegationEngaged(mode, world, hits)
    /\ "upload" \in scripts => UploadEngaged(mode, world, hits)
    /\ "extraction" \in scripts => ExtractionEngaged(mode, world, hits)
    /\ "export" \in scripts => ExportEngaged(report.exported)
    /\ "keyed" \in scripts => KeyedEngaged(mode, world, report.rounds, hits)
    /\ ~world.stubs
    /\ ~report.error
    /\ ~(exit # "ok" /\ noisy)
    /\ ~report.late
=============================================================================
