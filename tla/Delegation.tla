----------------------------- MODULE Delegation -----------------------------
(***************************************************************************)
(* How a generated program hands work to child programs (synthesizer.ts:    *)
(* applyDelegation*, applyDocuments* and the handlers and reactions they    *)
(* render).  A program is a line of stages.  One may take the user's        *)
(* documents in; others have a child that answers a request of the stage,   *)
(* on the document the program points at, or, one after the other, on every *)
(* document or configured source.                                           *)
(*                                                                          *)
(* A round is two steps: the author's action with the mutations, the        *)
(* handler and the child it calls, a child's answer being part of the round *)
(* (sync: Sync, optional: true); and the end of the round, its AfterRound   *)
(* reactions, all on one snapshot, and the transition.  A round that fails  *)
(* changes nothing.  The children run on what is in current_document; that  *)
(* the author puts no document of his own in a document_slice argument is   *)
(* assumed.                                                                 *)
(***************************************************************************)
EXTENDS Naturals, Sequences, FiniteSets

CONSTANTS
    Programs,   \* descriptors: what the program takes in, and its stages
    MaxDocs,    \* bound: documents of an upload, configured sources
    None

Kinds == { "upload", "work", "child", "sliced", "ad_hoc", "loop", "sources" }
FanOuts == { "loop", "sources" }

Descriptor(p) ==
    /\ p.documents \in { "none", "optional", "required" }
    /\ p.floor \in BOOLEAN          \* documents.fidelity_floor
    /\ p.ingest \in BOOLEAN         \* a document-ingest child on the upload stage
    /\ p.sources \in 0 .. MaxDocs   \* configured sources
    /\ p.stages \in Seq(Kinds)
    /\ p.place \in [DOMAIN p.stages -> Nat]   \* where a stage's child is declared among the children

\* What the validator sees to: the upload stage is there for the documents, a
\* child on it and a loop over documents want them required, there is one loop.
\* The children may be declared in another order than that of their stages.
\* That the readers of the documents come after the upload it does not check;
\* sources are for a program that takes no documents.
ASSUME Validated ==
    /\ MaxDocs \in Nat
    /\ None \notin 0 .. MaxDocs
    /\ \A p \in Programs :
        /\ Descriptor(p)
        /\ p.ingest => p.documents = "required"
        /\ \A s \in DOMAIN p.stages :
            /\ p.stages[s] = "upload" => p.documents # "none"
            /\ p.stages[s] = "loop" => p.documents = "required"
            /\ p.stages[s] = "sources" => p.documents = "none"
            /\ p.stages[s] \in { "sliced", "loop" } => \E r \in 1 .. s : p.stages[r] = "upload"
            /\ \A r \in DOMAIN p.stages : r # s /\ p.stages[s] = p.stages[r] =>
                p.stages[s] \notin FanOuts \cup { "upload" } /\ p.place[s] # p.place[r]

VARIABLES
    program,    \* the descriptor; never changes
    at,         \* the mode: 0 bootstrap, the stages, then done
    round,      \* idle, or what the author's action is to the mode: acted, moves
    refs,       \* document_intake.file_refs: what can be read of the last upload
    skip,       \* document_intake.status: the user has no documents
    asked,      \* document_intake.documents_requested
    received,   \* document_intake.received
    source,     \* result_path: what was read of the documents
    ready,      \* <result_path>_ready
    current,    \* current_document, or the current source; 0 is {}
    requested,  \* the child of this stage was asked
    result,     \* its result_path: None, or the document it ran on
    left,       \* the guard field of the stage's own transition
    index,      \* fan_out.index: items answered
    complete,   \* fan_out.completion_guard
    results     \* fan_out.result_path: what each key holds

intake == << refs, skip, asked, received >>
children == << requested, result >>
fanout == << index, complete, results >>
vars == << program, at, round, refs, skip, asked, received, source, ready, current,
           requested, result, left, index, complete, results >>

Stages == program.stages
Is(s, kind) == s \in DOMAIN Stages /\ Stages[s] = kind
Done == Len(Stages) + 1
IsFanOut(s) == Is(s, "loop") \/ Is(s, "sources")
FanOut == { f \in DOMAIN Stages : IsFanOut(f) }
TakesDocuments == Is(at, "upload")

\* An upload: how many of its files can be read, and whether they meet the floor.
Uploads == { u \in [docs : 0 .. MaxDocs, rich : BOOLEAN] : u.rich => u.docs > 0 }
Sources == [status : { "none", "extracted", "skipped", "blocked" }, docs : 0 .. MaxDocs, rich : BOOLEAN]
Nothing(status) == [status |-> status, docs |-> 0, rich |-> FALSE]

\* What the fan-out goes through; sources are there once begin_work has put them.
Items(f) == IF Is(f, "loop") THEN source.docs
            ELSE IF left[0] THEN program.sources
            ELSE 0

---------------------------------------------------------------------------
(* The user.                                                                *)

\* The channel is open in the upload stage.  A client sends references or the
\* skip status; one does not take back the other.
Upload(u) ==
    /\ round = "idle" /\ TakesDocuments
    /\ refs' = u /\ received' = TRUE
    /\ UNCHANGED << program, at, round, skip, asked, source, ready, current, children, left, fanout >>

SkipArrives ==
    /\ round = "idle" /\ TakesDocuments
    /\ skip' = TRUE
    /\ received' = (received \/ program.documents = "optional")
    /\ UNCHANGED << program, at, round, refs, asked, source, ready, current, children, left, fanout >>

---------------------------------------------------------------------------
(* The author's actions.                                                    *)

Fidelity == program.floor => source.rich

\* The guard of the transition out of the stage.
Guard(s) ==
    IF Is(s, "upload")
    THEN \/ ready /\ Fidelity
         \/ program.documents = "optional" /\ program.floor /\ skip
    ELSE IF IsFanOut(s) THEN complete
    ELSE left[s]

\* A guard that holds when the author begins moves the session whatever he does.
Acts == round' = IF Guard(at) THEN "moves" ELSE "acted"

\* begin_work puts the sources and starts the fan-out over them: until then its
\* reaction has found none, and may have taken it for complete.
Begin ==
    /\ round = "idle" /\ at = 0
    /\ left' = [left EXCEPT ![0] = TRUE]
    /\ IF \E f \in FanOut : Is(f, "sources")
       THEN /\ current' = IF program.sources > 0 THEN 1 ELSE current
            /\ index' = 0 /\ complete' = FALSE
       ELSE UNCHANGED << current, index, complete >>
    /\ round' = "moves"
    /\ UNCHANGED << program, at, intake, source, ready, children, results >>

RequestUpload ==
    /\ round = "idle" /\ TakesDocuments
    /\ ~asked /\ ~ready
    /\ asked' = TRUE /\ Acts
    /\ UNCHANGED << program, at, refs, skip, received, source, ready, current, children, left, fanout >>

\* ingestUploadedDocuments: the skip status wins over the references; one file
\* that cannot be extracted, or none that can, blocks the upload.
IngestDocuments ==
    /\ round = "idle" /\ TakesDocuments
    /\ received /\ ~ready
    /\ \/ /\ skip
          /\ source' = Nothing("skipped") /\ current' = 0
       \/ /\ ~skip /\ (refs = None \/ refs.docs = 0)
          /\ source' = Nothing("blocked") /\ current' = 0
       \/ /\ ~skip /\ refs # None /\ refs.docs > 0
          /\ source' = [status |-> "extracted", docs |-> refs.docs, rich |-> refs.rich]
          /\ current' = 1
    /\ Acts
    /\ UNCHANGED << program, at, intake, ready, children, left, fanout >>

SkipDocuments ==
    /\ round = "idle" /\ TakesDocuments
    /\ program.documents = "optional"
    /\ skip /\ ~ready /\ refs = None
    /\ source' = Nothing("skipped") /\ current' = 0 /\ ready' = TRUE
    /\ round' = "moves"
    /\ UNCHANGED << program, at, intake, children, left, fanout >>

HasChild(s) ==
    \/ Is(s, "child") \/ Is(s, "sliced") \/ Is(s, "ad_hoc") \/ IsFanOut(s)
    \/ Is(s, "upload") /\ program.ingest
ReadsCurrent(s) == Is(s, "sliced") \/ IsFanOut(s)

\* The child answers in the round that asks it, complete, failed or declined.
Request(s) ==
    /\ round = "idle" /\ at = s /\ HasChild(s)
    /\ requested[s] => Is(s, "ad_hoc")
    /\ Is(s, "upload") => ready
    /\ IsFanOut(s) => ~complete
    /\ requested' = [requested EXCEPT ![s] = TRUE]
    /\ result' = [result EXCEPT ![s] = IF ReadsCurrent(s) THEN current ELSE 0]
    /\ Acts
    /\ UNCHANGED << program, at, intake, source, ready, current, left, fanout >>

\* <child>.settled follows the result: derived, or by the reaction on an ingest child.
Settled(s) == result[s] # None

\* Mutant of MayProceed: an ad hoc child has to be settled too.
MayProceedSettled(s) ==
    /\ Is(s, "upload") => ready /\ Fidelity
    /\ HasChild(s) /\ ~IsFanOut(s) => Settled(s)
    /\ IsFanOut(s) => complete

\* The preconditions of the stage's transition action.
MayProceed(s) ==
    /\ Is(s, "upload") => ready /\ Fidelity
    /\ HasChild(s) /\ ~Is(s, "ad_hoc") /\ ~IsFanOut(s) => Settled(s)
    /\ IsFanOut(s) => complete

\* The sliced child that is declared k-th runs on documents.<k - 1>.
Ordinal(s) ==
    Cardinality({ r \in DOMAIN Stages : Is(r, "sliced") /\ program.place[r] <= program.place[s] })

\* Mutant of Slice: the transition does not set the slice.
SliceKept(s) == current' = current

\* The transition into a sliced child points at its document; where there is
\* none, the mutation writes nothing or an empty value.
Slice(s) ==
    IF ~Is(s, "sliced") THEN current' = current
    ELSE IF Ordinal(s) <= source.docs THEN current' = Ordinal(s)
    ELSE current' \in { current, 0 }

\* Of an upload or a fan-out the guard field is true already.
Proceed(s) ==
    /\ round = "idle" /\ at = s /\ s \in DOMAIN Stages
    /\ MayProceed(s)
    /\ left' = [left EXCEPT ![s] = TRUE]
    /\ Slice(s + 1)
    /\ round' = "moves"
    /\ UNCHANGED << program, at, intake, source, ready, children, fanout >>

\* A note, or any action of the stage that is none of these.
ActsOtherwise ==
    /\ round = "idle" /\ at # Done
    /\ Acts
    /\ UNCHANGED << program, at, intake, source, ready, current, children, left, fanout >>

---------------------------------------------------------------------------
(* The end of a round.                                                      *)

\* settleDocumentSource.
SettleSource ==
    \/ /\ ready
       /\ UNCHANGED << source, ready >>
    \/ /\ ~ready
       /\ \/ source.status = "extracted"
          \/ source.status = "skipped" /\ program.documents = "optional"
       /\ ready' = TRUE /\ source' = source
    \/ /\ ~ready /\ source.status \notin { "extracted", "skipped" }
       /\ program.documents = "optional" /\ skip
       /\ ready' = TRUE /\ source' = Nothing("skipped")
    \/ /\ ~ready /\ source.status # "extracted"
       /\ ~(program.documents = "optional" /\ (skip \/ source.status = "skipped"))
       /\ UNCHANGED << source, ready >>

\* Where a result goes: under the document's id, or the source's index.
Key(f) == IF Is(f, "loop") /\ current # 0 THEN current ELSE index + 1

\* Mutant of NextItem: the next is not pointed at.
NextItemKept(f) == current

NextItem(f) == IF index + 1 < Items(f) THEN index + 2 ELSE current

Store(f) ==
    /\ results' = [results EXCEPT ![Key(f)] = result[f]]
    /\ index' = index + 1
    /\ complete' = (index + 1 = Items(f))
    /\ requested' = [requested EXCEPT ![f] = FALSE]
    /\ current' = NextItem(f)

\* advanceDocumentDelegationFanOut and advanceSourceDelegationFanOut.  No test of
\* the mode: they run at the end of every round of the program.
Advances(f) == ~complete /\ (Is(f, "loop") => ready)

Advance(f) ==
    \/ /\ Advances(f) /\ index >= Items(f)
       /\ complete' = TRUE
       /\ UNCHANGED << requested, index, results, current >>
    \/ /\ Advances(f) /\ index < Items(f) /\ ~requested[f]
       /\ current' = index + 1
       /\ UNCHANGED << requested, fanout >>
    \/ /\ Advances(f) /\ index < Items(f) /\ requested[f] /\ result[f] # None
       /\ Store(f)
    \/ /\ ~Advances(f) \/ (index < Items(f) /\ requested[f] /\ result[f] = None)
       /\ UNCHANGED << requested, fanout, current >>

\* Without a fan-out the skip record is all that moves the current document.
KeepsChildren ==
    /\ UNCHANGED << requested, fanout >>
    /\ current' = IF source' # source THEN 0 ELSE current

\* A guard that came true in the round may wait for the next, unless the action
\* proposed the transition.
Transits(s) ==
    \/ Guard(s)' /\ at' = s + 1
    \/ ~(Guard(s)' /\ round = "moves") /\ at' = s

RoundEnds ==
    /\ round # "idle"
    /\ SettleSource
    /\ \/ \E f \in FanOut : Advance(f)
       \/ FanOut = {} /\ KeepsChildren
    /\ round' = "idle"
    /\ UNCHANGED << program, intake, result, left >>
    /\ \E s \in { at } : Transits(s)

---------------------------------------------------------------------------
Init ==
    /\ program \in Programs
    /\ at = 0 /\ round = "idle"
    /\ refs = None /\ skip = FALSE /\ asked = FALSE /\ received = FALSE
    /\ source = Nothing("none") /\ ready = FALSE /\ current = 0
    /\ requested = [s \in DOMAIN Stages |-> FALSE] /\ result = [s \in DOMAIN Stages |-> None]
    /\ left = [s \in 0 .. Len(Stages) |-> FALSE]
    /\ index = 0 /\ complete = FALSE /\ results = [k \in 1 .. MaxDocs |-> None]

User == (\E u \in Uploads : Upload(u)) \/ SkipArrives

Author ==
    \/ Begin
    \/ RequestUpload
    \/ IngestDocuments
    \/ SkipDocuments
    \/ \E s \in DOMAIN Stages : Request(s) \/ Proceed(s)
    \/ ActsOtherwise

Next == User \/ Author \/ RoundEnds

Spec == Init /\ [][Next]_vars

---------------------------------------------------------------------------
(* Fairness: a user who is waited for uploads something that can be used, and *)
(* an author who is asked again and again acts, takes it in, asks the child    *)
(* and proceeds.                                                               *)

UploadsReadable == ~ready /\ \E u \in Uploads : u.rich /\ Upload(u)
IngestsReadable == refs # None /\ IngestDocuments /\ source'.status = "extracted"
Asks == \E s \in DOMAIN Stages : ~Is(s, "ad_hoc") /\ Request(s)

Fairness ==
    /\ WF_vars(RoundEnds) /\ SF_vars(Author) /\ SF_vars(Begin)
    /\ SF_vars(UploadsReadable) /\ SF_vars(IngestsReadable)
    /\ SF_vars(Asks) /\ SF_vars(\E s \in DOMAIN Stages : Proceed(s))

LiveSpec == Spec /\ Fairness

---------------------------------------------------------------------------
(* Properties.                                                              *)

\* Every variable holds a value of its kind.
TypeOK ==
    /\ program \in Programs
    /\ at \in 0 .. Done /\ round \in { "idle", "acted", "moves" }
    /\ refs \in { None } \cup Uploads
    /\ skip \in BOOLEAN /\ asked \in BOOLEAN /\ received \in BOOLEAN
    /\ source \in Sources /\ ready \in BOOLEAN /\ current \in 0 .. MaxDocs
    /\ requested \in [DOMAIN Stages -> BOOLEAN]
    /\ result \in [DOMAIN Stages -> { None } \cup 0 .. MaxDocs]
    /\ left \in [0 .. Len(Stages) -> BOOLEAN]
    /\ index \in 0 .. MaxDocs /\ complete \in BOOLEAN
    /\ results \in [1 .. MaxDocs -> { None } \cup 0 .. MaxDocs]

\* A sliced child the program's other reactions can disturb: the loop of a later
\* stage points back at its first document; a loop that is complete, and an upload
\* that is ready, are left by any action, without the one that sets the slice,
\* and the upload points at its first document.
Disturbed(s) ==
    \/ Ordinal(s) > 1 /\ \E f \in FanOut : s < f
    \/ Ordinal(s) > 1 /\ Is(s - 1, "upload")
    \/ IsFanOut(s - 1)

\* "Review uploaded document N only": a child that has its own document of the
\* upload runs on that one, whatever happens between the upload and its request.
EachChildHasItsDocument ==
    \A s \in DOMAIN Stages :
        Is(s, "sliced") /\ ~Disturbed(s) /\ Ordinal(s) <= source.docs =>
            result[s] \in { None, Ordinal(s) }

\* The fan-out as one that goes through its items: how many there are, which item
\* each answer is about, and whether the stage was left.
items == IF FanOut = {} THEN 0 ELSE Items(CHOOSE f \in FanOut : TRUE)
answers == IF FanOut = {} THEN << >> ELSE [k \in 1 .. index |-> results[k]]
over == \E f \in FanOut : f < at

Each == INSTANCE OneEach WITH items <- items, answers <- answers, over <- over

\* The fan-out asks its child once for every item, in order, on the item itself,
\* and is left when the last one is answered.
ImplementsOneEach == Each!Spec

\* Documents below the floor are ready and cannot be taken in again; the skip
\* status is not taken back, and required documents cannot be skipped.
DeadEnd ==
    /\ TakesDocuments
    /\ \/ ready /\ ~Fidelity
       \/ program.documents = "required" /\ skip /\ ~ready

\* A session comes to its end, or to one of the two places nothing leads out of:
\* no stage waits for a child that was not asked, or asked in vain.
ParentEnds == []<>(at = Done \/ DeadEnd)
=============================================================================
