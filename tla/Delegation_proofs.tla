------------------------- MODULE Delegation_proofs -------------------------
(***************************************************************************)
(* Proofs about Delegation, for any set of validated programs and any       *)
(* number of documents and sources.                                         *)
(***************************************************************************)
EXTENDS Delegation, FiniteSetTheorems, TLAPS

\* A session that is done does not act.
Typed == TypeOK /\ (at = Done => round = "idle")

\* A stage that is left by its own transition action only.
Plain(s) == ~Is(s, "upload") /\ ~IsFanOut(s)

\* The stage after the upload has a child for another document than the first.
Apart(u) == Is(u + 1, "sliced") /\ Ordinal(u + 1) > 1

\* Beyond the upload the documents are settled; at the upload the first is pointed
\* at, unless the action that leaves it has set the slice of the next.
Taken ==
    /\ source.docs > 0 <=> source.status = "extracted"
    /\ ready /\ program.documents # "optional" => source.status = "extracted"
    /\ \A u \in DOMAIN Stages : Is(u, "upload") =>
        /\ at < u => source.docs = 0
        /\ u < at => ready
        /\ u = at /\ source.docs > 0 /\ ~Apart(u) => current = 1

\* Nothing of a stage that was not reached has happened.
Reached ==
    /\ \A s \in 0 .. Len(Stages) : Plain(s) /\ left[s] => s < at \/ (s = at /\ round = "moves")
    /\ \A s \in DOMAIN Stages : requested[s] \/ result[s] # None => s <= at
    /\ \A f \in FanOut :
        /\ f < at => complete
        /\ at < f => index = 0

\* On the way to a sliced child, and at it, its document is pointed at.
Pointed ==
    \A s \in DOMAIN Stages : Is(s, "sliced") /\ ~Disturbed(s) /\ Ordinal(s) <= source.docs =>
        /\ at = s /\ ~left[s] => current = Ordinal(s)
        /\ at = s - 1 /\ Plain(s - 1) /\ left[s - 1] => current = Ordinal(s)
        /\ result[s] \in { None, Ordinal(s) }

\* The items up to the index are answered; a request is for the next one.
InOrder ==
    \A f \in FanOut :
        /\ index <= Items(f)
        /\ complete => index = Items(f)
        /\ Is(f, "loop") /\ ~ready => index = 0 /\ ~complete
        /\ \A k \in 1 .. index : results[k] = k
        /\ requested[f] => /\ round # "idle" /\ ~complete
                           /\ result[f] = index + 1 /\ current = index + 1
                           /\ index < Items(f)
        /\ at = f /\ round = "idle" /\ ~complete => current = index + 1 /\ index < Items(f)

Inv == Typed /\ Taken /\ Reached /\ Pointed /\ InOrder

---------------------------------------------------------------------------
(* The program.                                                             *)

\* A program is a sequence of stages, and its numbers are within the bound.
LEMMA ProgramShape ==
    ASSUME program \in Programs
    PROVE  /\ MaxDocs \in Nat /\ None \notin 0 .. MaxDocs
           /\ Stages \in Seq(Kinds) /\ Len(Stages) \in Nat /\ DOMAIN Stages = 1 .. Len(Stages)
           /\ program.sources \in 0 .. MaxDocs
           /\ Done = Len(Stages) + 1
BY Validated DEF Stages, Descriptor, Done

\* What the validator guarantees of the stages.
LEMMA StagesFit ==
    ASSUME program \in Programs, NEW s \in DOMAIN Stages
    PROVE  /\ Is(s, "upload") => program.documents # "none"
           /\ Is(s, "loop") => program.documents = "required"
           /\ Is(s, "sources") => program.documents = "none"
           /\ Is(s, "sliced") \/ Is(s, "loop") => \E r \in DOMAIN Stages : r <= s /\ Is(r, "upload")
           /\ \A r \in DOMAIN Stages : Stages[r] = Stages[s] /\ (Is(s, "upload") \/ IsFanOut(s)) => r = s
<1>1. /\ DOMAIN Stages = 1 .. Len(Stages) /\ Len(Stages) \in Nat
  BY ProgramShape
<1>2. /\ Stages[s] = "upload" => program.documents # "none"
      /\ Stages[s] = "loop" => program.documents = "required"
      /\ Stages[s] = "sources" => program.documents = "none"
      /\ Stages[s] \in { "sliced", "loop" } => \E r \in 1 .. s : Stages[r] = "upload"
      /\ \A r \in DOMAIN Stages :
            r # s /\ Stages[s] = Stages[r] => Stages[s] \notin FanOuts \cup { "upload" }
  BY Validated DEF Stages
<1> QED BY <1>1, <1>2 DEF Is, IsFanOut, FanOuts

\* There is one fan-out at most, and no stage is two things.
LEMMA OneFanOut ==
    ASSUME program \in Programs, NEW f \in FanOut
    PROVE  /\ f \in DOMAIN Stages /\ IsFanOut(f)
           /\ FanOut = { f }
           /\ ~Is(f, "upload") /\ ~Is(f, "sliced")
<1>1. f \in DOMAIN Stages /\ IsFanOut(f)
  BY DEF FanOut
<1>2. ~Is(f, "upload") /\ ~Is(f, "sliced")
  BY <1>1 DEF IsFanOut, Is
<1>3. ASSUME NEW g \in FanOut PROVE g = f
  <2>1. g \in DOMAIN Stages /\ IsFanOut(g)
    BY DEF FanOut
  <2>2. Stages[g] = Stages[f]
    BY <1>1, <2>1, StagesFit DEF IsFanOut, Is
  <2> QED BY <1>1, <2>1, <2>2, StagesFit
<1> QED BY <1>1, <1>2, <1>3

\* An ordinal is a number, and a child's own is one of those it counts.
LEMMA OrdinalType ==
    ASSUME program \in Programs, NEW s \in Nat
    PROVE  Ordinal(s) \in Nat /\ (Is(s, "sliced") => Ordinal(s) > 0)
<1> DEFINE S == { r \in DOMAIN Stages : Is(r, "sliced") /\ program.place[r] <= program.place[s] }
<1>1. DOMAIN Stages = 1 .. Len(Stages) /\ Len(Stages) \in Nat
  BY ProgramShape
<1>2. IsFiniteSet(S)
  <2>1. IsFiniteSet(1 .. Len(Stages))
    BY <1>1, FS_Interval
  <2> QED BY <1>1, <2>1, FS_Subset
<1>3. Cardinality(S) \in Nat
  BY <1>2, FS_CardinalityType
<1>4. ASSUME Is(s, "sliced") PROVE Cardinality(S) # 0
  <2>1. s \in DOMAIN Stages /\ program.place[s] \in Nat
    BY <1>4, Validated DEF Is, Stages, Descriptor
  <2>2. S # {}
    BY <1>4, <2>1
  <2> QED BY <1>2, <2>2, FS_EmptySet
<1> HIDE DEF S
<1>5. Ordinal(s) = Cardinality(S)
  BY DEF Ordinal, S
<1> QED BY <1>3, <1>4, <1>5

---------------------------------------------------------------------------
(* Types.                                                                   *)

\* The slice a transition sets is within the bound.
LEMMA SliceType ==
    ASSUME TypeOK, NEW s \in Nat, Slice(s)
    PROVE  current' \in 0 .. MaxDocs
<1>1. Ordinal(s) \in Nat /\ MaxDocs \in Nat
  BY OrdinalType, ProgramShape DEF TypeOK
<1> QED BY <1>1 DEF Slice, TypeOK, Sources

LEMMA StoreType ==
    ASSUME TypeOK, NEW f \in FanOut, Advance(f)
    PROVE  /\ current' \in 0 .. MaxDocs /\ index' \in 0 .. MaxDocs /\ complete' \in BOOLEAN
           /\ requested' \in [DOMAIN Stages -> BOOLEAN]
           /\ results' \in [1 .. MaxDocs -> { None } \cup 0 .. MaxDocs]
<1>1. MaxDocs \in Nat /\ f \in DOMAIN Stages
  BY ProgramShape, OneFanOut DEF TypeOK
<1>2. Items(f) \in 0 .. MaxDocs
  BY <1>1, ProgramShape DEF Items, TypeOK, Sources
<1>3. CASE UNCHANGED << requested, index, results, current >> /\ complete' = TRUE
  BY <1>3 DEF TypeOK
<1>4. CASE UNCHANGED << requested, fanout >> /\ current' = index + 1 /\ index < Items(f)
  BY <1>1, <1>2, <1>4 DEF TypeOK, fanout
<1>5. CASE UNCHANGED << requested, fanout, current >>
  BY <1>5 DEF TypeOK, fanout
<1>6. CASE index < Items(f) /\ Store(f)
  <2>1. index + 1 \in 1 .. MaxDocs
    BY <1>1, <1>2, <1>6 DEF TypeOK
  <2>2. Key(f) \in 1 .. MaxDocs
    BY <1>1, <2>1 DEF Key, TypeOK
  <2>3. NextItem(f) \in 0 .. MaxDocs
    BY <1>1, <1>2, <2>1 DEF NextItem, TypeOK
  <2>4. result[f] \in { None } \cup 0 .. MaxDocs
    BY <1>1 DEF TypeOK
  <2> QED BY <1>1, <1>6, <2>1, <2>2, <2>3, <2>4 DEF Store, TypeOK
<1> QED BY <1>3, <1>4, <1>5, <1>6 DEF Advance

LEMMA InitTyped == Init => Typed
<1> SUFFICES ASSUME Init PROVE Typed
  OBVIOUS
<1>1. program \in Programs
  BY DEF Init
<1>2. MaxDocs \in Nat /\ Len(Stages) \in Nat /\ Done = Len(Stages) + 1
  BY <1>1, ProgramShape
<1>3. source \in Sources
  BY <1>2 DEF Init, Nothing, Sources
<1>4. /\ requested \in [DOMAIN Stages -> BOOLEAN]
      /\ result \in [DOMAIN Stages -> { None } \cup 0 .. MaxDocs]
      /\ left \in [0 .. Len(Stages) -> BOOLEAN]
      /\ results \in [1 .. MaxDocs -> { None } \cup 0 .. MaxDocs]
  BY DEF Init
<1>5. at \in 0 .. Done /\ current \in 0 .. MaxDocs /\ index \in 0 .. MaxDocs
  BY <1>2 DEF Init
<1> QED BY <1>1, <1>3, <1>4, <1>5 DEF Init, TypeOK, Typed

\* The program stays what it is, and so does all that is said of its stages.
LEMMA SameProgram ==
    ASSUME [Next]_vars
    PROVE  /\ program' = program /\ Stages' = Stages /\ Done' = Done /\ FanOut' = FanOut
           /\ \A s, kind : Is(s, kind)' = Is(s, kind)
           /\ \A s : IsFanOut(s)' = IsFanOut(s) /\ Plain(s)' = Plain(s) /\ Ordinal(s)' = Ordinal(s)
           /\ \A s : Disturbed(s)' = Disturbed(s) /\ Apart(s)' = Apart(s)
<1>1. program' = program
  BY DEF Next, User, Author, vars, Upload, SkipArrives, Begin, RequestUpload, IngestDocuments,
         SkipDocuments, Request, Proceed, ActsOtherwise, RoundEnds
<1> QED BY <1>1 DEF Stages, Done, FanOut, Is, IsFanOut, Plain, Ordinal, Disturbed, Apart

LEMMA NextTyped == Typed /\ [Next]_vars => Typed'
<1> SUFFICES ASSUME Typed, [Next]_vars PROVE Typed'
  OBVIOUS
<1> USE DEF intake, children, fanout
<1>1. /\ program' = program /\ Stages' = Stages /\ Done' = Done
  BY SameProgram
<1>2. /\ MaxDocs \in Nat /\ DOMAIN Stages = 1 .. Len(Stages) /\ Len(Stages) \in Nat
      /\ Done = Len(Stages) + 1 /\ program.sources \in 0 .. MaxDocs
  BY ProgramShape DEF TypeOK, Typed
<1>3. ASSUME NEW u \in Uploads, Upload(u) PROVE Typed'
  BY <1>1, <1>3 DEF Upload, TypeOK, Typed
<1>4. CASE SkipArrives
  BY <1>1, <1>4 DEF SkipArrives, TypeOK, Typed
<1>5. CASE Begin
  <2>1. left' \in [0 .. Len(Stages) -> BOOLEAN]
    BY <1>2, <1>5 DEF Begin, TypeOK, Typed
  <2>2. current' \in 0 .. MaxDocs /\ index' \in 0 .. MaxDocs /\ complete' \in BOOLEAN
    <3>1. CASE \E f \in FanOut : Is(f, "sources")
      <4>1. current' = (IF program.sources > 0 THEN 1 ELSE current) /\ index' = 0 /\ complete' = FALSE
        BY <1>5, <3>1 DEF Begin
      <4>2. complete' \in BOOLEAN
        BY <4>1
      <4>3. current \in 0 .. MaxDocs
        BY DEF TypeOK, Typed
      <4>4. index' \in 0 .. MaxDocs
        BY <1>2, <4>1
      <4>5. current' \in 0 .. MaxDocs
        BY <1>2, <4>1, <4>3
      <4> QED BY <4>2, <4>4, <4>5
    <3>2. CASE ~\E f \in FanOut : Is(f, "sources")
      BY <1>5, <3>2 DEF Begin, TypeOK, Typed
    <3> QED BY <3>1, <3>2
  <2>3. at' # Done
    BY <1>2, <1>5 DEF Begin
  <2> QED BY <1>1, <1>5, <2>1, <2>2, <2>3 DEF Begin, TypeOK, Typed
<1>6. CASE RequestUpload
  <2>1. at' # Done
    BY <1>2, <1>6 DEF RequestUpload, TakesDocuments, Is
  <2> QED BY <1>1, <1>6, <2>1 DEF RequestUpload, TypeOK, Typed, Acts
<1>7. CASE IngestDocuments
  <2>1. source' \in Sources /\ current' \in 0 .. MaxDocs
    <3>1. CASE source' = Nothing("skipped") /\ current' = 0
      BY <1>2, <3>1 DEF Nothing, Sources
    <3>2. CASE source' = Nothing("blocked") /\ current' = 0
      BY <1>2, <3>2 DEF Nothing, Sources
    <3>3. CASE /\ refs # None /\ refs.docs > 0 /\ current' = 1
               /\ source' = [status |-> "extracted", docs |-> refs.docs, rich |-> refs.rich]
      <4>1. refs.docs \in 0 .. MaxDocs /\ refs.rich \in BOOLEAN
        BY <3>3 DEF TypeOK, Typed, Uploads
      <4> QED BY <1>2, <3>3, <4>1 DEF Sources
    <3> QED BY <1>7, <3>1, <3>2, <3>3 DEF IngestDocuments
  <2>2. at' # Done
    BY <1>2, <1>7 DEF IngestDocuments, TakesDocuments, Is
  <2> QED BY <1>1, <1>7, <2>1, <2>2 DEF IngestDocuments, TypeOK, Typed, Acts
<1>8. CASE SkipDocuments
  <2>1. at' # Done
    BY <1>2, <1>8 DEF SkipDocuments, TakesDocuments, Is
  <2> QED BY <1>1, <1>2, <1>8, <2>1 DEF SkipDocuments, TypeOK, Typed, Nothing, Sources
<1>9. ASSUME NEW s \in DOMAIN Stages, Request(s) PROVE Typed'
  BY <1>1, <1>2, <1>9 DEF Request, TypeOK, Typed, Acts
<1>10. ASSUME NEW s \in DOMAIN Stages, Proceed(s) PROVE Typed'
  <2>1. current' \in 0 .. MaxDocs
    BY <1>2, <1>10, SliceType DEF Proceed, Typed
  <2> QED BY <1>1, <1>2, <1>10, <2>1 DEF Proceed, TypeOK, Typed
<1>11. CASE ActsOtherwise
  BY <1>1, <1>11 DEF ActsOtherwise, TypeOK, Typed, Acts
<1>12. CASE RoundEnds
  <2>1. at' \in 0 .. Done
    BY <1>2, <1>12 DEF RoundEnds, Transits, TypeOK, Typed
  <2>2. source' \in Sources /\ ready' \in BOOLEAN
    <3>1. Nothing("skipped") \in Sources
      BY <1>2 DEF Nothing, Sources
    <3>2. source' \in { source, Nothing("skipped") } /\ ready' \in { ready, TRUE }
      BY <1>12 DEF RoundEnds, SettleSource
    <3> QED BY <3>1, <3>2 DEF TypeOK, Typed
  <2>3. /\ current' \in 0 .. MaxDocs /\ index' \in 0 .. MaxDocs /\ complete' \in BOOLEAN
        /\ requested' \in [DOMAIN Stages -> BOOLEAN]
        /\ results' \in [1 .. MaxDocs -> { None } \cup 0 .. MaxDocs]
    <3>1. ASSUME NEW f \in FanOut, Advance(f) PROVE <2>3
      BY <3>1, StoreType DEF Typed
    <3>2. CASE KeepsChildren
      BY <1>2, <3>2 DEF KeepsChildren, TypeOK, Typed
    <3> QED BY <1>12, <3>1, <3>2 DEF RoundEnds
  <2> QED BY <1>1, <1>12, <2>1, <2>2, <2>3 DEF RoundEnds, TypeOK, Typed
<1>13. CASE UNCHANGED vars
  BY <1>1, <1>13 DEF vars, TypeOK, Typed
<1> QED BY <1>3, <1>4, <1>5, <1>6, <1>7, <1>8, <1>9, <1>10, <1>11, <1>12, <1>13 DEF Next, User, Author

\* Every variable keeps its kind, whatever the programs are.
THEOREM TypeCorrect == Spec => []TypeOK
<1>1. Typed => TypeOK
  BY DEF Typed
<1> QED BY <1>1, InitTyped, NextTyped, PTL DEF Spec

---------------------------------------------------------------------------
(* The rounds.                                                              *)

\* A loop has the upload before it; a fan-out over sources is in a program
\* without an upload, and so without a child on a document.
LEMMA UploadsAndFanOuts ==
    ASSUME program \in Programs, NEW f \in FanOut
    PROVE  /\ Is(f, "loop") \/ Is(f, "sources")
           /\ Is(f, "loop") => \E u \in DOMAIN Stages : u < f /\ Is(u, "upload")
           /\ Is(f, "loop") => program.documents = "required"
           /\ Is(f, "sources") => \A s \in DOMAIN Stages : ~Is(s, "upload") /\ ~Is(s, "sliced")
           /\ Is(f, "loop") <=> ~Is(f, "sources")
<1>1. f \in DOMAIN Stages /\ IsFanOut(f) /\ ~Is(f, "upload") /\ DOMAIN Stages = 1 .. Len(Stages) /\ Len(Stages) \in Nat
  BY OneFanOut, ProgramShape
<1>2. ASSUME Is(f, "loop") PROVE \E u \in DOMAIN Stages : u < f /\ Is(u, "upload")
  <2>1. PICK u \in DOMAIN Stages : u <= f /\ Is(u, "upload")
    BY <1>1, <1>2, StagesFit
  <2>2. u # f
    BY <1>1, <2>1
  <2> QED BY <1>1, <2>1, <2>2
<1>3. ASSUME Is(f, "sources"), NEW s \in DOMAIN Stages PROVE ~Is(s, "upload") /\ ~Is(s, "sliced")
  BY <1>1, <1>3, StagesFit
<1> QED BY <1>1, <1>2, <1>3, StagesFit DEF IsFanOut, Is

\* What is ready stays, and so does what was read.
LEMMA ReadyKept ==
    ASSUME Typed, Next, ready
    PROVE  ready' /\ source' = source
BY DEF Next, User, Author, Upload, SkipArrives, Begin, RequestUpload, IngestDocuments,
       SkipDocuments, Request, Proceed, ActsOtherwise, RoundEnds, SettleSource

\* A round's end keeps the mode or takes the next; no answer of a child changes.
LEMMA RoundType ==
    ASSUME Typed, RoundEnds, NEW s, s = at
    PROVE  /\ s \in 0 .. Len(Stages) /\ Len(Stages) \in Nat
           /\ at' \in { s, s + 1 }
           /\ at' = s + 1 => Guard(s)'
           /\ Guard(s)' /\ round = "moves" => at' = s + 1
           /\ round' = "idle" /\ left' = left /\ result' = result /\ skip' = skip
<1>1. /\ at \in 0 .. Len(Stages) + 1 /\ at # Len(Stages) + 1 /\ Len(Stages) \in Nat
  BY ProgramShape DEF Typed, TypeOK, RoundEnds
<1>2. /\ round' = "idle" /\ left' = left /\ result' = result /\ skip' = skip
  BY DEF RoundEnds, intake
<1>3. Transits(s)
  BY DEF RoundEnds
<1> QED BY <1>1, <1>2, <1>3 DEF Transits

---------------------------------------------------------------------------
(* What was taken in.                                                       *)

LEMMA InitTaken == Init => Taken
<1> SUFFICES ASSUME Init PROVE Taken
  OBVIOUS
<1>1. DOMAIN Stages = 1 .. Len(Stages)
  BY ProgramShape DEF Init
<1> QED BY <1>1 DEF Init, Taken, Nothing

\* The documents are known when they are extracted, and only then.
LEMMA NextExtracted ==
    ASSUME Typed, Taken, Next
    PROVE  /\ source'.docs > 0 <=> source'.status = "extracted"
           /\ ready' /\ program.documents # "optional" => source'.status = "extracted"
<1>1. ASSUME source' = source, ready' = ready
      PROVE  /\ source'.docs > 0 <=> source'.status = "extracted"
             /\ ready' /\ program.documents # "optional" => source'.status = "extracted"
  BY <1>1 DEF Taken
<1>2. CASE IngestDocuments
  <2>1. ~ready'
    BY <1>2 DEF IngestDocuments
  <2>2. source'.docs > 0 <=> source'.status = "extracted"
    BY <1>2 DEF IngestDocuments, Nothing
  <2> QED BY <2>1, <2>2
<1>3. CASE SkipDocuments
  BY <1>3 DEF SkipDocuments, Nothing
<1>4. CASE RoundEnds
  BY <1>4 DEF RoundEnds, SettleSource, Nothing, Taken
<1> QED BY <1>1, <1>2, <1>3, <1>4 DEF Next, User, Author, Upload, SkipArrives, Begin, RequestUpload,
          Request, Proceed, ActsOtherwise

\* The upload is left ready.
LEMMA UploadLeftReady ==
    ASSUME Typed, RoundEnds, NEW u \in DOMAIN Stages, Is(u, "upload"), Guard(u)'
    PROVE  ready'
<1>1. Is(u, "upload")' /\ program' = program
  BY SameProgram DEF Next
<1>2. ready' \/ (program.documents = "optional" /\ skip)
  BY <1>1 DEF Guard, RoundEnds, intake
<1> QED BY <1>2 DEF RoundEnds, SettleSource, Typed, TypeOK

LEMMA NextTaken == Inv /\ [Next]_vars => Taken'
<1> SUFFICES ASSUME Inv, [Next]_vars PROVE Taken'
  OBVIOUS
<1>1. CASE UNCHANGED vars
  BY <1>1 DEF vars, Inv, Taken, Stages, Is, Apart, Ordinal
<1>2. CASE Next
  <2>1. Typed /\ Taken /\ program' = program /\ Stages' = Stages
    BY SameProgram DEF Inv
  <2>2. DOMAIN Stages = 1 .. Len(Stages) /\ Len(Stages) \in Nat /\ at \in Nat /\ program \in Programs
    BY <2>1, ProgramShape DEF Typed, TypeOK
  <2>3. /\ source'.docs > 0 <=> source'.status = "extracted"
        /\ ready' /\ program.documents # "optional" => source'.status = "extracted"
    BY <1>2, <2>1, NextExtracted
  <2>4. ASSUME NEW u \in DOMAIN Stages, Is(u, "upload")
        PROVE  /\ at' < u => source'.docs = 0
               /\ u < at' => ready'
               /\ u = at' /\ source'.docs > 0 /\ ~Apart(u) => current' = 1
    <3> DEFINE Goal == /\ at' < u => source'.docs = 0
                       /\ u < at' => ready'
                       /\ u = at' /\ source'.docs > 0 /\ ~Apart(u) => current' = 1
    <3>1. /\ at < u => source.docs = 0
          /\ u < at => ready
          /\ u = at /\ source.docs > 0 /\ ~Apart(u) => current = 1
      BY <2>1, <2>4 DEF Taken
    <3>2. ASSUME at' = at, source' = source, ready' = ready, current' = current PROVE Goal
      BY <3>1, <3>2
    <3>3. CASE Begin
      BY <2>2, <3>1, <3>3 DEF Begin
    <3>4. CASE IngestDocuments
      <4>1. u = at
        BY <2>1, <2>2, <2>4, <3>4, StagesFit DEF IngestDocuments, TakesDocuments, Is
      <4> QED BY <2>2, <3>4, <4>1 DEF IngestDocuments, Nothing
    <3>5. CASE SkipDocuments
      BY <3>1, <3>5 DEF SkipDocuments, Nothing
    <3>6. ASSUME NEW s \in DOMAIN Stages, Proceed(s) PROVE Goal
      <4>1. CASE s = u
        <5>1. ASSUME source.docs > 0, ~Apart(u) PROVE current' = 1
          <6>1. Slice(u + 1) /\ current = 1
            BY <3>1, <3>6, <4>1, <5>1 DEF Proceed
          <6>2. CASE Is(u + 1, "sliced")
            <7>1. Ordinal(u + 1) = 1
              BY <2>2, <5>1, <6>2, OrdinalType DEF Apart
            <7>2. source.docs \in Nat
              BY <2>1 DEF Typed, TypeOK, Sources
            <7> QED BY <5>1, <6>1, <6>2, <7>1, <7>2 DEF Slice
          <6>3. CASE ~Is(u + 1, "sliced")
            BY <6>1, <6>3 DEF Slice
          <6> QED BY <6>2, <6>3
        <5> QED BY <3>1, <3>6, <4>1, <5>1 DEF Proceed
      <4>2. CASE s # u
        BY <3>1, <3>6, <4>2 DEF Proceed
      <4> QED BY <4>1, <4>2
    <3>7. CASE RoundEnds
      <4>1. PICK s \in 0 .. Len(Stages) : s = at
        BY <2>1, <3>7, RoundType
      <4>2. at' \in { s, s + 1 } /\ (at' = s + 1 => Guard(s)')
        BY <2>1, <3>7, <4>1, RoundType
      <4>3. source'.docs > 0 => source' = source
        BY <3>7 DEF RoundEnds, SettleSource, Nothing
      <4>4. source.docs = 0 => source'.docs = 0
        BY <3>7 DEF RoundEnds, SettleSource, Nothing
      <4>5. u < at' => ready'
        <5>1. CASE u < s
          BY <1>2, <2>1, <3>1, <4>1, <5>1, ReadyKept
        <5>2. CASE u = s /\ at' = s + 1
          BY <2>1, <2>4, <3>7, <4>2, <5>2, UploadLeftReady
        <5> QED BY <2>2, <4>1, <4>2, <5>1, <5>2
      <4>6. at' < u => source'.docs = 0
        BY <2>2, <3>1, <4>1, <4>2, <4>4
      <4>7. ASSUME u = at', source'.docs > 0, ~Apart(u) PROVE current' = 1
        <5>1. source' = source /\ source.docs > 0
          BY <4>3, <4>7
        <5>2. u = s /\ current = 1
          <6>1. ~(at < u)
            BY <3>1, <5>1
          <6> QED BY <2>2, <3>1, <4>1, <4>2, <4>7, <5>1, <6>1
        <5>3. ASSUME NEW f \in FanOut, Advance(f) PROVE current' = 1
          <6>1. f \in DOMAIN Stages /\ u < f
            <7>1. PICK v \in DOMAIN Stages : v < f /\ Is(v, "upload")
              BY <2>2, <2>4, UploadsAndFanOuts
            <7> QED BY <2>2, <2>4, <7>1, OneFanOut, StagesFit DEF Is
          <6>2. index = 0 /\ ~requested[f]
            BY <2>2, <4>1, <5>2, <6>1 DEF Inv, Reached
          <6> QED BY <5>2, <6>2, <5>3 DEF Advance
        <5>4. CASE KeepsChildren
          BY <5>1, <5>2, <5>4 DEF KeepsChildren
        <5> QED BY <3>7, <5>3, <5>4 DEF RoundEnds
      <4> QED BY <4>5, <4>6, <4>7
    <3>8. CASE User
      BY <3>2, <3>8 DEF User, Upload, SkipArrives
    <3>9. CASE RequestUpload \/ ActsOtherwise \/ \E s \in DOMAIN Stages : Request(s)
      BY <3>2, <3>9 DEF RequestUpload, ActsOtherwise, Request
    <3> QED BY <1>2, <3>3, <3>4, <3>5, <3>6, <3>7, <3>8, <3>9 DEF Next, Author
  <2>5. \A u, kind : Is(u, kind)' = Is(u, kind) /\ Apart(u)' = Apart(u)
    BY SameProgram
  <2> QED BY <2>1, <2>3, <2>4, <2>5 DEF Taken
<1> QED BY <1>1, <1>2

---------------------------------------------------------------------------
(* What was reached.                                                        *)

LEMMA InitReached == Init => Reached
<1> SUFFICES ASSUME Init PROVE Reached
  OBVIOUS
<1>1. /\ DOMAIN Stages = 1 .. Len(Stages) /\ Len(Stages) \in Nat
      /\ \A f \in FanOut : f \in DOMAIN Stages
  BY ProgramShape DEF Init, FanOut
<1> QED BY <1>1 DEF Init, Reached

\* Before a fan-out is reached nothing is counted; once complete it stays so.
LEMMA AdvanceFacts ==
    ASSUME Typed, Reached, InOrder, NEW f \in FanOut, Advance(f)
    PROVE  /\ complete => complete' /\ index' = index
           /\ at < f => index' = 0 /\ current' \in { current, 1 }
           /\ \A s \in DOMAIN Stages : requested'[s] => requested[s]
<1>1. f \in DOMAIN Stages /\ requested \in [DOMAIN Stages -> BOOLEAN] /\ at \in Nat
      /\ DOMAIN Stages = 1 .. Len(Stages) /\ Len(Stages) \in Nat
  BY OneFanOut, ProgramShape DEF Typed, TypeOK
<1>2. complete => complete' /\ index' = index
  BY DEF Advance, Advances, fanout
<1>3. ASSUME at < f PROVE index' = 0 /\ current' \in { current, 1 }
  <2>1. index = 0 /\ ~requested[f]
    BY <1>1, <1>3 DEF Reached
  <2> QED BY <2>1 DEF Advance, fanout
<1>4. ASSUME NEW s \in DOMAIN Stages, requested'[s] PROVE requested[s]
  BY <1>1, <1>4 DEF Advance, Store
<1> QED BY <1>2, <1>3, <1>4

LEMMA NextReached == Inv /\ [Next]_vars => Reached'
<1> SUFFICES ASSUME Inv, [Next]_vars PROVE Reached'
  OBVIOUS
<1>1. CASE UNCHANGED vars
  BY <1>1 DEF vars, Inv, Reached, Stages, Is, IsFanOut, FanOut, Plain
<1>2. CASE Next
  <2>1. /\ Typed /\ Reached /\ InOrder
        /\ Stages' = Stages /\ FanOut' = FanOut
        /\ \A s : Plain(s)' = Plain(s)
    BY SameProgram DEF Inv
  <2>2. /\ DOMAIN Stages = 1 .. Len(Stages) /\ Len(Stages) \in Nat /\ at \in Nat
        /\ \A f \in FanOut : f \in DOMAIN Stages
    BY <2>1, ProgramShape DEF Typed, TypeOK, FanOut
  <2>3. ASSUME NEW s \in 0 .. Len(Stages), Plain(s), left'[s]
        PROVE  s < at' \/ (s = at' /\ round' = "moves")
    <3>1. left[s] => s < at \/ (s = at /\ round = "moves")
      BY <2>1, <2>3 DEF Reached
    <3>2. CASE round = "idle" /\ at' = at /\ left' = left
      BY <2>3, <3>1, <3>2
    <3>3. CASE Begin
      BY <2>1, <2>3, <3>1, <3>3 DEF Begin, Typed, TypeOK
    <3>4. ASSUME NEW t \in DOMAIN Stages, Proceed(t) PROVE s < at' \/ (s = at' /\ round' = "moves")
      BY <2>1, <2>3, <3>1, <3>4 DEF Proceed, Typed, TypeOK
    <3>5. CASE RoundEnds
      <4>1. PICK t \in 0 .. Len(Stages) : t = at
        BY <2>1, <3>5, RoundType
      <4>2. /\ at' \in { t, t + 1 } /\ left' = left
            /\ Guard(t)' /\ round = "moves" => at' = t + 1
        BY <2>1, <3>5, <4>1, RoundType
      <4>3. CASE s < t
        BY <4>1, <4>2, <4>3
      <4>4. CASE s = t /\ round = "moves"
        <5>1. Plain(s)'
          BY <2>1, <2>3
        <5>2. Guard(s)'
          BY <2>3, <5>1 DEF Guard, Plain
        <5> QED BY <4>1, <4>2, <4>4, <5>2
      <4> QED BY <2>3, <3>1, <4>1, <4>2, <4>3, <4>4
    <3> QED BY <1>2, <3>2, <3>3, <3>4, <3>5 DEF Next, User, Author, Upload, SkipArrives,
                RequestUpload, IngestDocuments, SkipDocuments, Request, ActsOtherwise
  <2>4. ASSUME NEW s \in DOMAIN Stages, requested'[s] \/ result'[s] # None PROVE s <= at'
    <3>1. requested[s] \/ result[s] # None => s <= at
      BY <2>1 DEF Reached
    <3>2. CASE at' = at /\ UNCHANGED << requested, result >>
      BY <2>4, <3>1, <3>2
    <3>3. ASSUME NEW t \in DOMAIN Stages, Request(t) PROVE s <= at'
      BY <2>1, <2>2, <2>4, <3>1, <3>3 DEF Request, Typed, TypeOK
    <3>4. CASE RoundEnds
      <4>1. PICK t \in 0 .. Len(Stages) : t = at
        BY <2>1, <3>4, RoundType
      <4>2. at' \in { t, t + 1 } /\ result' = result
        BY <2>1, <3>4, <4>1, RoundType
      <4>3. requested'[s] => requested[s]
        BY <2>1, <3>4, AdvanceFacts DEF RoundEnds, KeepsChildren
      <4> QED BY <2>2, <2>4, <3>1, <4>1, <4>2, <4>3
    <3> QED BY <1>2, <3>2, <3>3, <3>4 DEF Next, User, Author, Upload, SkipArrives, Begin, children,
                RequestUpload, IngestDocuments, SkipDocuments, Proceed, ActsOtherwise
  <2>5. ASSUME NEW f \in FanOut PROVE (f < at' => complete') /\ (at' < f => index' = 0)
    <3>1. (f < at => complete) /\ (at < f => index = 0) /\ f \in Nat /\ f > 0
      <4>1. \A g \in FanOut : (g < at => complete) /\ (at < g => index = 0)
        BY <2>1 DEF Reached
      <4>2. f \in 1 .. Len(Stages)
        BY <2>2, <2>5
      <4> QED BY <2>2, <4>1, <4>2
    <3>2. CASE at' = at /\ UNCHANGED fanout
      BY <3>1, <3>2 DEF fanout
    <3>3. CASE Begin
      BY <3>1, <3>3 DEF Begin
    <3>4. CASE RoundEnds
      <4>1. PICK t \in 0 .. Len(Stages) : t = at
        BY <2>1, <3>4, RoundType
      <4>2. at' \in { t, t + 1 } /\ (at' = t + 1 => Guard(t)')
        BY <2>1, <3>4, <4>1, RoundType
      <4>3. Advance(f)
        BY <2>1, <3>4, OneFanOut DEF RoundEnds, Typed, TypeOK
      <4>4. (complete => complete') /\ (at < f => index' = 0)
        BY <2>1, <4>3, AdvanceFacts
      <4>5. ASSUME f < at' PROVE complete'
        <5>1. CASE f < t
          BY <3>1, <4>1, <4>4, <5>1
        <5>2. CASE f = t /\ at' = t + 1
          <6>1. IsFanOut(f)' /\ ~Is(f, "upload")'
            BY <2>1, OneFanOut, SameProgram DEF Typed, TypeOK
          <6> QED BY <4>2, <5>2, <6>1 DEF Guard
        <5> QED BY <3>1, <4>2, <4>5, <5>1, <5>2
      <4> QED BY <3>1, <4>1, <4>2, <4>4, <4>5
    <3> QED BY <1>2, <3>2, <3>3, <3>4 DEF Next, User, Author, Upload, SkipArrives, fanout,
                RequestUpload, IngestDocuments, SkipDocuments, Request, Proceed, ActsOtherwise
  <2> QED BY <2>1, <2>3, <2>4, <2>5 DEF Reached
<1> QED BY <1>1, <1>2

---------------------------------------------------------------------------
(* The fan-out's items.                                                     *)

\* How many items there are is a number, and what it depends on.
LEMMA ItemsType ==
    ASSUME Typed, NEW f \in FanOut
    PROVE  /\ Items(f) \in 0 .. MaxDocs /\ index \in Nat /\ current \in Nat /\ MaxDocs \in Nat
           /\ [Next]_vars /\ source' = source /\ left'[0] = left[0] => Items(f)' = Items(f)
<1>1. /\ MaxDocs \in Nat /\ source.docs \in 0 .. MaxDocs /\ program.sources \in 0 .. MaxDocs
      /\ index \in Nat /\ current \in Nat
  BY ProgramShape DEF Typed, TypeOK, Sources
<1>2. Items(f) \in 0 .. MaxDocs
  BY <1>1 DEF Items
<1>3. ASSUME [Next]_vars, source' = source, left'[0] = left[0] PROVE Items(f)' = Items(f)
  BY <1>3, SameProgram DEF Items
<1> QED BY <1>1, <1>2, <1>3

\* What holds of the fan-out f, and is kept by every step.
Counted(f) ==
    /\ index <= Items(f)
    /\ complete => index = Items(f)
    /\ Is(f, "loop") /\ ~ready => index = 0 /\ ~complete
    /\ \A k \in 1 .. index : results[k] = k
Asked(f) ==
    requested[f] => /\ round # "idle" /\ ~complete
                    /\ result[f] = index + 1 /\ current = index + 1
                    /\ index < Items(f)
Waits(f) == at = f /\ round = "idle" /\ ~complete => current = index + 1 /\ index < Items(f)

LEMMA InOrderParts == InOrder <=> \A f \in FanOut : Counted(f) /\ Asked(f) /\ Waits(f)
BY DEF InOrder, Counted, Asked, Waits

LEMMA InitInOrder == Init => InOrder
<1> SUFFICES ASSUME Init, NEW f \in FanOut PROVE Counted(f) /\ Asked(f) /\ Waits(f)
  BY InOrderParts
<1>1. Typed /\ f \in DOMAIN Stages /\ DOMAIN Stages = 1 .. Len(Stages) /\ Len(Stages) \in Nat
  BY InitTyped, ProgramShape DEF Init, FanOut
<1>2. Items(f) \in Nat
  BY <1>1, ItemsType
<1>3. index = 0 /\ complete = FALSE /\ at # f /\ ~requested[f]
  BY <1>1 DEF Init
<1> QED BY <1>2, <1>3 DEF Counted, Asked, Waits

\* A step within a round that leaves the fan-out and its items alone.
LEMMA Undisturbed ==
    ASSUME Typed, InOrder, NEW f \in FanOut, [Next]_vars, round = "idle",
           UNCHANGED << index, complete, results, source, ready >>, left'[0] = left[0],
           requested'[f] = requested[f],
           round' = "idle" => at' = at /\ current' = current
    PROVE  Counted(f)' /\ Asked(f)' /\ Waits(f)'
<1>1. Items(f)' = Items(f) /\ Is(f, "loop")' = Is(f, "loop")
  BY ItemsType, SameProgram
<1>2. Counted(f) /\ Asked(f) /\ Waits(f)
  BY InOrderParts
<1>3. Counted(f)'
  BY <1>1, <1>2 DEF Counted
<1>4. Asked(f)'
  BY <1>2 DEF Asked
<1>5. Waits(f)'
  BY <1>1, <1>2 DEF Waits
<1> QED BY <1>3, <1>4, <1>5

\* A request is for the item the program points at, which is the next one.
LEMMA RequestInOrder ==
    ASSUME Typed, InOrder, Next, NEW f \in FanOut, NEW s \in DOMAIN Stages, Request(s)
    PROVE  Counted(f)' /\ Asked(f)' /\ Waits(f)'
<1>1. round = "idle" /\ UNCHANGED << index, complete, results, source, ready, left, at, current >>
  BY DEF Request, fanout
<1>2. CASE s # f
  <2>1. requested'[f] = requested[f]
    BY <1>2, OneFanOut DEF Request, Typed, TypeOK
  <2> QED BY <1>1, <2>1, Undisturbed
<1>3. CASE s = f
  <2>1. Items(f)' = Items(f) /\ Is(f, "loop")' = Is(f, "loop")
    BY <1>1, ItemsType, SameProgram
  <2>2. Counted(f) /\ Waits(f)
    BY InOrderParts
  <2>3. at = f /\ ~complete /\ round' # "idle"
    BY <1>3, OneFanOut DEF Request, Typed, TypeOK, Acts
  <2>4. result'[f] = current
    BY <1>3, OneFanOut DEF Request, Typed, TypeOK, ReadsCurrent
  <2>5. Counted(f)'
    BY <1>1, <2>1, <2>2 DEF Counted
  <2>6. Asked(f)'
    BY <1>1, <2>1, <2>2, <2>3, <2>4 DEF Asked, Waits
  <2>7. Waits(f)'
    BY <2>3 DEF Waits
  <2> QED BY <2>5, <2>6, <2>7
<1> QED BY <1>2, <1>3

\* begin_work puts the sources before the first is counted.
LEMMA BeginInOrder ==
    ASSUME Typed, InOrder, Next, NEW f \in FanOut, Begin
    PROVE  Counted(f)' /\ Asked(f)' /\ Waits(f)'
<1>1. /\ round = "idle" /\ round' = "moves"
      /\ UNCHANGED << results, source, ready, requested >>
  BY DEF Begin, children
<1>2. ~requested[f]
  BY <1>1, InOrderParts DEF Asked
<1>3. Items(f)' \in Nat /\ Is(f, "loop")' = Is(f, "loop")
  <2>1. Is(f, "loop")' = Is(f, "loop") /\ program' = program
    BY SameProgram
  <2>2. source'.docs \in Nat /\ program.sources \in Nat
    BY <1>1, ProgramShape DEF Typed, TypeOK, Sources
  <2> QED BY <2>1, <2>2 DEF Items
<1>4. CASE Is(f, "sources")
  <2>1. index' = 0 /\ complete' = FALSE /\ ~Is(f, "loop")
    BY <1>4, UploadsAndFanOuts DEF Begin, Typed, TypeOK
  <2> QED BY <1>1, <1>2, <1>3, <2>1 DEF Counted, Asked, Waits
<1>5. CASE Is(f, "loop")
  <2>1. ~\E g \in FanOut : Is(g, "sources")
    BY <1>5, OneFanOut, UploadsAndFanOuts DEF Typed, TypeOK
  <2>2. UNCHANGED << index, complete >>
    BY <2>1 DEF Begin
  <2>3. Items(f)' = Items(f)
    BY <1>1, <1>3, <1>5 DEF Items
  <2>4. Counted(f)
    BY InOrderParts
  <2> QED BY <1>1, <1>2, <1>3, <2>2, <2>3, <2>4 DEF Counted, Asked, Waits
<1> QED BY <1>4, <1>5, UploadsAndFanOuts DEF Typed, TypeOK

\* Documents are taken in before the first of them is counted.
LEMMA IntakeInOrder ==
    ASSUME Inv, Next, NEW f \in FanOut, IngestDocuments \/ SkipDocuments
    PROVE  Counted(f)' /\ Asked(f)' /\ Waits(f)'
<1>1. /\ round = "idle" /\ round' # "idle" /\ ~ready
      /\ TakesDocuments /\ UNCHANGED << fanout, requested >>
  BY DEF IngestDocuments, SkipDocuments, Acts, children
<1>2. Is(f, "loop")
  BY <1>1, UploadsAndFanOuts DEF Inv, Typed, TypeOK, TakesDocuments, Is
<1>3. Counted(f) /\ Asked(f)
  BY InOrderParts DEF Inv
<1>4. index = 0 /\ ~complete /\ ~requested[f]
  BY <1>1, <1>2, <1>3 DEF Counted, Asked
<1>5. Items(f)' \in Nat
  <2>1. Is(f, "loop")'
    BY <1>2, SameProgram
  <2>2. source' \in Sources
    BY NextTyped DEF Inv, Typed, TypeOK
  <2>3. source'.docs \in Nat
    BY <2>2, ProgramShape DEF Inv, Typed, TypeOK, Sources
  <2> QED BY <2>1, <2>3 DEF Items
<1>6. index' = 0 /\ ~complete' /\ ~requested'[f]
  BY <1>1, <1>4 DEF fanout
<1> QED BY <1>1, <1>5, <1>6 DEF Counted, Asked, Waits

\* The end of a round leaves the items alone, and finds them ready from the loop on.
LEMMA RoundItems ==
    ASSUME Inv, RoundEnds, NEW f \in FanOut
    PROVE  /\ Items(f)' = Items(f) /\ Advance(f)
           /\ f <= at /\ ~complete => Advances(f)
           /\ at' = f /\ at # f => at = f - 1
<1>1. program \in Programs /\ f \in DOMAIN Stages /\ at \in Nat /\ Typed /\ Taken
      /\ DOMAIN Stages = 1 .. Len(Stages) /\ Len(Stages) \in Nat
  BY OneFanOut, ProgramShape DEF Inv, Typed, TypeOK
<1>2. Items(f)' = Items(f)
  <2>1. Is(f, "loop")' = Is(f, "loop") /\ program' = program /\ left' = left
    BY SameProgram DEF RoundEnds, Next
  <2>2. CASE Is(f, "loop")
    <3>1. program.documents = "required"
      BY <1>1, <2>2, UploadsAndFanOuts
    <3>2. source' = source
      BY <3>1 DEF RoundEnds, SettleSource
    <3> QED BY <2>1, <2>2, <3>2 DEF Items
  <2>3. CASE ~Is(f, "loop")
    BY <2>1, <2>3 DEF Items
  <2> QED BY <2>2, <2>3
<1>3. Advance(f)
  BY <1>1, OneFanOut DEF RoundEnds
<1>4. ASSUME f <= at, ~complete PROVE Advances(f)
  <2>1. ASSUME Is(f, "loop") PROVE ready
    <3>1. PICK u \in DOMAIN Stages : u < f /\ Is(u, "upload")
      BY <1>1, <2>1, UploadsAndFanOuts
    <3>2. u < at
      BY <1>1, <1>4, <3>1
    <3> QED BY <1>1, <3>1, <3>2 DEF Taken
  <2> QED BY <1>4, <2>1 DEF Advances
<1>5. ASSUME at' = f, at # f PROVE at = f - 1
  <2>1. PICK s \in 0 .. Len(Stages) : s = at
    BY <1>1, RoundType
  <2>2. at' \in { s, s + 1 }
    BY <1>1, <2>1, RoundType
  <2> QED BY <1>1, <1>5, <2>1, <2>2
<1> QED BY <1>2, <1>3, <1>4, <1>5

\* An answer is stored where the next item's goes, and is about that item.
LEMMA StoreFacts ==
    ASSUME Inv, RoundEnds, NEW f \in FanOut, Store(f), requested[f], index < Items(f)
    PROVE  /\ index' = index + 1 /\ ~requested'[f]
           /\ results' = [results EXCEPT ![index + 1] = index + 1]
           /\ complete' <=> index + 1 = Items(f)
           /\ index + 1 < Items(f) => current' = index + 2
           /\ index + 1 \in 1 .. MaxDocs
<1>1. /\ Items(f) \in 0 .. MaxDocs /\ index \in Nat /\ MaxDocs \in Nat
      /\ f \in DOMAIN Stages /\ requested \in [DOMAIN Stages -> BOOLEAN]
  BY ItemsType, OneFanOut DEF Inv, Typed, TypeOK
<1>2. result[f] = index + 1 /\ current = index + 1
  BY InOrderParts DEF Inv, Asked
<1>3. Key(f) = index + 1
  BY <1>1, <1>2 DEF Key
<1>4. complete' <=> index + 1 = Items(f)
  BY DEF Store
<1>5. ~requested'[f]
  BY <1>1 DEF Store
<1>6. index' = index + 1 /\ index + 1 \in 1 .. MaxDocs /\ (index + 1 < Items(f) => current' = index + 2)
  <2>1. index' = index + 1 /\ current' = NextItem(f)
    BY DEF Store
  <2>2. index + 1 < Items(f) => NextItem(f) = index + 2
    BY DEF NextItem
  <2>3. index + 1 \in 1 .. MaxDocs
    BY <1>1
  <2> QED BY <2>1, <2>2, <2>3
<1>7. results' = [results EXCEPT ![index + 1] = index + 1]
  BY <1>2, <1>3 DEF Store
<1> QED BY <1>4, <1>5, <1>6, <1>7

LEMMA RoundInOrder ==
    ASSUME Inv, RoundEnds, NEW f \in FanOut
    PROVE  Counted(f)' /\ Asked(f)' /\ Waits(f)'
<1>1. /\ Items(f)' = Items(f) /\ Is(f, "loop")' = Is(f, "loop") /\ Advance(f)
      /\ Items(f) \in Nat /\ index \in Nat
      /\ f \in DOMAIN Stages /\ Typed /\ Taken /\ Reached /\ at \in Nat
      /\ DOMAIN Stages = 1 .. Len(Stages) /\ Len(Stages) \in Nat
  BY RoundItems, ItemsType, OneFanOut, SameProgram, ProgramShape DEF Inv, Typed, TypeOK, Next
<1>2. Counted(f) /\ Asked(f) /\ Waits(f)
  BY InOrderParts DEF Inv
<1>3. round' = "idle" /\ result' = result /\ (~ready' => ~ready)
  BY <1>1, ReadyKept DEF RoundEnds, Next
<1>4. ASSUME requested[f]
      PROVE  /\ Advances(f) /\ index < Items(f) /\ result[f] # None /\ ~complete
             /\ Store(f)
  <2>1. f <= at /\ ~complete /\ index < Items(f) /\ result[f] = index + 1
    BY <1>1, <1>2, <1>4 DEF Asked, Reached
  <2>2. result[f] # None
    <3>1. MaxDocs \in Nat /\ None \notin 0 .. MaxDocs /\ Items(f) \in 0 .. MaxDocs
      BY <1>1, ItemsType, ProgramShape DEF Typed, TypeOK
    <3> QED BY <1>1, <2>1, <3>1
  <2>3. Advances(f)
    BY <2>1, RoundItems
  <2> QED BY <1>1, <1>4, <2>1, <2>2, <2>3 DEF Advance
<1>5. Counted(f)'
  <2>1. CASE Advances(f) /\ index >= Items(f) /\ complete' = TRUE /\ UNCHANGED << index, results >>
    <3>1. Is(f, "loop") => ready'
      BY <1>1, <2>1, ReadyKept DEF Advances, Next
    <3> QED BY <1>1, <1>2, <2>1, <3>1 DEF Counted
  <2>2. CASE UNCHANGED fanout
    BY <1>1, <1>2, <1>3, <2>2 DEF Counted, fanout
  <2>3. CASE requested[f] /\ Store(f)
    <3>1. /\ index' = index + 1 /\ (complete' <=> index + 1 = Items(f)) /\ index < Items(f)
          /\ results' = [results EXCEPT ![index + 1] = index + 1] /\ index + 1 \in 1 .. MaxDocs
      BY <1>4, <2>3, StoreFacts
    <3>2. Is(f, "loop") => ready'
      BY <1>1, <1>4, <2>3, ReadyKept DEF Advances, Next
    <3>3. \A k \in 1 .. index + 1 : results'[k] = k
      <4>1. \A k \in 1 .. index : results[k] = k
        BY <1>2 DEF Counted
      <4>2. DOMAIN results = 1 .. MaxDocs /\ MaxDocs \in Nat
        BY <1>1, ProgramShape DEF Typed, TypeOK
      <4> QED BY <1>1, <3>1, <4>1, <4>2
    <3> QED BY <1>1, <3>1, <3>2, <3>3 DEF Counted
  <2> QED BY <1>1, <2>1, <2>2, <2>3 DEF Advance
<1>6. ~requested'[f]
  <2>1. CASE requested[f]
    BY <1>4, <2>1, StoreFacts
  <2>2. CASE ~requested[f]
    BY <1>1, <2>2, AdvanceFacts DEF Inv
  <2> QED BY <2>1, <2>2
<1>7. ASSUME at' = f, ~complete' PROVE current' = index' + 1 /\ index' < Items(f)
  <2>1. ~complete
    BY <1>1, <1>7, AdvanceFacts DEF Inv
  <2>2. CASE Advances(f)
    <3>1. CASE requested[f]
      <4>1. /\ index' = index + 1 /\ (complete' <=> index + 1 = Items(f)) /\ index < Items(f)
            /\ index + 1 < Items(f) => current' = index + 2
        BY <1>4, <3>1, StoreFacts
      <4> QED BY <1>1, <1>7, <4>1
    <3>2. CASE ~requested[f]
      BY <1>1, <1>7, <2>2, <3>2 DEF Advance, fanout
    <3> QED BY <3>1, <3>2
  <2>3. CASE ~Advances(f)
    \* The upload is the stage before: its first document is pointed at.
    <3>1. Is(f, "loop") /\ ~ready /\ at = f - 1
      <4>1. at = f \/ at = f - 1
        BY <1>7, RoundItems
      <4>2. ~(f <= at)
        BY <2>1, <2>3, RoundItems
      <4> QED BY <1>1, <2>1, <2>3, <4>1, <4>2 DEF Advances
    <3>2. PICK u \in DOMAIN Stages : u < f /\ Is(u, "upload")
      BY <1>1, <3>1, UploadsAndFanOuts DEF Typed, TypeOK
    <3>3. u = at
      <4>1. ~(u < at)
        BY <1>1, <3>1, <3>2 DEF Taken
      <4> QED BY <1>1, <3>1, <3>2, <4>1
    <3>4. source' = source /\ source'.docs > 0
      <4>1. program.documents = "required" /\ program' = program /\ Stages' = Stages /\ Is(u, "upload")'
        BY <1>1, <3>1, <3>2, UploadsAndFanOuts, SameProgram DEF Typed, TypeOK, Next
      <4>2. Taken'
        BY NextTaken DEF Next
      <4>3. ready'
        BY <1>1, <1>7, <3>1, <3>2, <3>3, <4>1, <4>2 DEF Taken
      <4>4. source'.docs > 0
        BY <4>1, <4>2, <4>3 DEF Taken
      <4> QED BY <4>1, <4>4 DEF RoundEnds, SettleSource
    <3>5. current = 1
      <4>1. ~Apart(u)
        BY <1>1, <3>1, <3>3 DEF Apart, Is
      <4> QED BY <3>2, <3>3, <3>4, <4>1, <1>1 DEF Taken
    <3>6. index = 0
      BY <1>2, <3>1 DEF Counted
    <3>7. index' = index /\ current' = current
      BY <1>1, <2>3 DEF Advance, fanout
    <3>8. Items(f) = source.docs
      BY <3>1 DEF Items
    <3> QED BY <1>1, <3>4, <3>5, <3>6, <3>7, <3>8
  <2> QED BY <2>2, <2>3
<1> QED BY <1>1, <1>3, <1>5, <1>6, <1>7 DEF Asked, Waits

LEMMA NextInOrder == Inv /\ [Next]_vars => InOrder'
<1> SUFFICES ASSUME Inv, [Next]_vars PROVE InOrder'
  OBVIOUS
<1>1. CASE UNCHANGED vars
  BY <1>1 DEF vars, Inv, InOrder, Stages, Is, IsFanOut, FanOut, Items
<1>2. CASE Next
  <2>1. ASSUME NEW f \in FanOut PROVE Counted(f)' /\ Asked(f)' /\ Waits(f)'
    <3>1. Typed /\ InOrder
      BY DEF Inv
    <3>2. f \in DOMAIN Stages /\ 0 \notin DOMAIN Stages
      BY <3>1, OneFanOut, ProgramShape DEF Typed, TypeOK
    <3>3. CASE User
      BY <1>2, <3>1, <3>3, Undisturbed DEF User, Upload, SkipArrives, children, fanout
    <3>4. CASE RequestUpload \/ ActsOtherwise
      BY <1>2, <3>1, <3>4, Undisturbed DEF RequestUpload, ActsOtherwise, children, fanout, Acts
    <3>5. ASSUME NEW s \in DOMAIN Stages, Proceed(s) PROVE Counted(f)' /\ Asked(f)' /\ Waits(f)'
      <4>1. left'[0] = left[0]
        <5>1. s # 0 /\ left \in [0 .. Len(Stages) -> BOOLEAN] /\ Len(Stages) \in Nat
          BY <3>1, <3>2, ProgramShape DEF Typed, TypeOK
        <5>2. left' = [left EXCEPT ![s] = TRUE]
          BY <3>5 DEF Proceed
        <5> QED BY <5>1, <5>2
      <4> QED BY <1>2, <3>1, <3>5, <4>1, Undisturbed DEF Proceed, children, fanout
    <3> QED BY <1>2, <3>1, <3>3, <3>4, <3>5, RequestInOrder, BeginInOrder, IntakeInOrder,
               RoundInOrder DEF Next, Author
  <2>2. FanOut' = FanOut
    BY SameProgram
  <2>3. \A f \in FanOut' : Counted(f)' /\ Asked(f)' /\ Waits(f)'
    BY <2>1, <2>2
  <2> QED BY <2>3 DEF InOrder, Counted, Asked, Waits
<1> QED BY <1>1, <1>2

---------------------------------------------------------------------------
(* The documents of the children.                                           *)

\* What holds of the child s that has its own document.
Aimed(s) ==
    Is(s, "sliced") /\ ~Disturbed(s) /\ Ordinal(s) <= source.docs =>
        /\ at = s /\ ~left[s] => current = Ordinal(s)
        /\ at = s - 1 /\ Plain(s - 1) /\ left[s - 1] => current = Ordinal(s)
        /\ result[s] \in { None, Ordinal(s) }

LEMMA InitPointed == Init => Pointed
<1> SUFFICES ASSUME Init, NEW s \in DOMAIN Stages, Is(s, "sliced"), Ordinal(s) <= source.docs PROVE FALSE
  BY DEF Pointed
<1>1. program \in Programs /\ s \in Nat
  BY ProgramShape DEF Init
<1>2. Ordinal(s) \in Nat /\ Ordinal(s) > 0
  BY <1>1, OrdinalType
<1> QED BY <1>2 DEF Init, Nothing

\* Before its document is taken in, a child was not asked.
LEMMA IntakeAimed ==
    ASSUME Inv, Next, NEW s \in DOMAIN Stages, IngestDocuments \/ SkipDocuments
    PROVE  Aimed(s)'
<1>1. /\ TakesDocuments /\ at' = at /\ UNCHANGED << result, left >>
      /\ Typed /\ Reached /\ at \in Nat /\ Stages' = Stages
      /\ DOMAIN Stages = 1 .. Len(Stages) /\ Len(Stages) \in Nat
  BY ProgramShape, SameProgram DEF IngestDocuments, SkipDocuments, children, Inv, Typed, TypeOK
<1>2. CASE Is(s, "sliced")
  <2>1. at \in DOMAIN Stages /\ at < s
    <3>1. PICK u \in DOMAIN Stages : u <= s /\ Is(u, "upload")
      BY <1>1, <1>2, StagesFit DEF Typed, TypeOK
    <3>2. at \in DOMAIN Stages /\ at = u
      BY <1>1, <3>1, StagesFit DEF TakesDocuments, Typed, TypeOK, Is
    <3>3. u # s
      BY <1>2, <3>1 DEF Is
    <3> QED BY <1>1, <3>1, <3>2, <3>3
  <2>2. result[s] = None
    BY <1>1, <2>1 DEF Reached
  <2>3. at = s - 1 => ~Plain(s - 1)'
    <3>1. at = s - 1 => ~Plain(s - 1)
      BY <1>1 DEF Plain, TakesDocuments
    <3> QED BY <3>1, SameProgram
  <2> QED BY <1>1, <2>1, <2>2, <2>3 DEF Aimed
<1>3. CASE ~Is(s, "sliced")
  <2>1. ~Is(s, "sliced")'
    BY <1>3, SameProgram
  <2> QED BY <2>1 DEF Aimed
<1> QED BY <1>2, <1>3

\* Actions of a round that leave the documents alone.
LEMMA ActionAimed ==
    ASSUME Inv, Next, NEW s \in DOMAIN Stages,
           ~RoundEnds, ~IngestDocuments, ~SkipDocuments
    PROVE  Aimed(s)'
<1>1. /\ Typed /\ Reached /\ Pointed /\ at \in Nat /\ program \in Programs
      /\ DOMAIN Stages = 1 .. Len(Stages) /\ Len(Stages) \in Nat
      /\ left \in [0 .. Len(Stages) -> BOOLEAN] /\ result \in [DOMAIN Stages -> { None } \cup 0 .. MaxDocs]
  BY ProgramShape DEF Inv, Typed, TypeOK
<1>0. UNCHANGED << source, at >> /\ round = "idle"
  BY DEF Next, User, Author, Upload, SkipArrives, Begin, RequestUpload, Request, Proceed, ActsOtherwise
<1>2. SUFFICES ASSUME Is(s, "sliced"), ~Disturbed(s), Ordinal(s) <= source.docs
               PROVE  /\ at = s /\ ~left'[s] => current' = Ordinal(s)
                      /\ at = s - 1 /\ Plain(s - 1) /\ left'[s - 1] => current' = Ordinal(s)
                      /\ result'[s] \in { None, Ordinal(s) }
  BY <1>0, SameProgram DEF Aimed
<1>3. /\ at = s /\ ~left[s] => current = Ordinal(s)
      /\ at = s - 1 /\ Plain(s - 1) /\ left[s - 1] => current = Ordinal(s)
      /\ result[s] \in { None, Ordinal(s) }
  BY <1>1, <1>2 DEF Pointed
<1>4. Plain(s) /\ ~\E g \in FanOut : Is(g, "sources")
  <2>1. \A g \in FanOut : ~Is(g, "sources")
    BY <1>1, <1>2, UploadsAndFanOuts
  <2> QED BY <1>2, <2>1 DEF Plain, Is, IsFanOut
<1>5. CASE UNCHANGED << left, current, result >>
  BY <1>3, <1>5
<1>6. CASE Begin
  <2>1. current' = current /\ result' = result /\ at = 0
    BY <1>4, <1>6 DEF Begin, children
  <2>2. s # 1
    <3>1. PICK u \in DOMAIN Stages : u <= s /\ Is(u, "upload")
      BY <1>1, <1>2, StagesFit
    <3> QED BY <1>1, <1>2, <3>1 DEF Is
  <2> QED BY <1>1, <1>3, <2>1, <2>2
<1>7. ASSUME NEW t \in DOMAIN Stages, Request(t)
      PROVE  /\ left' = left /\ current' = current
             /\ result'[s] \in { None, Ordinal(s) }
  <2>1. left' = left /\ current' = current /\ at = t
    BY <1>7 DEF Request
  <2>2. CASE t = s
    <3>1. ~left[s]
      BY <1>0, <1>1, <1>4, <2>1, <2>2 DEF Reached
    <3>2. result'[s] = current
      BY <1>1, <1>2, <1>7, <2>2 DEF Request, ReadsCurrent
    <3> QED BY <1>3, <2>1, <2>2, <3>1, <3>2
  <2>3. CASE t # s
    BY <1>1, <1>3, <1>7, <2>3 DEF Request
  <2> QED BY <2>1, <2>2, <2>3
<1>8. ASSUME NEW t \in DOMAIN Stages, Proceed(t)
      PROVE  /\ at = s /\ ~left'[s] => current' = Ordinal(s)
             /\ at = s - 1 /\ Plain(s - 1) /\ left'[s - 1] => current' = Ordinal(s)
             /\ result' = result
  <2>1. at = t /\ left' = [left EXCEPT ![t] = TRUE] /\ result' = result /\ Slice(t + 1)
    BY <1>8 DEF Proceed, children
  <2>2. at = s => left'[s]
    BY <1>1, <2>1
  <2>3. ASSUME at = s - 1 PROVE current' = Ordinal(s)
    <3>1. t + 1 = s
      BY <1>1, <2>1, <2>3
    <3>2. Slice(s)
      BY <2>1, <3>1
    <3> QED BY <1>2, <3>2 DEF Slice
  <2> QED BY <2>1, <2>2, <2>3
<1>9. CASE User \/ RequestUpload \/ ActsOtherwise
  BY <1>5, <1>9 DEF User, Upload, SkipArrives, RequestUpload, ActsOtherwise, children
<1>10. CASE \E t \in DOMAIN Stages : Request(t)
  BY <1>3, <1>7, <1>10
<1>11. CASE \E t \in DOMAIN Stages : Proceed(t)
  BY <1>3, <1>8, <1>11
<1> QED BY <1>6, <1>9, <1>10, <1>11 DEF Next, Author

\* At a child's stage, and on the way to it, the end of a round moves its document
\* only where it is said to be disturbed.
LEMMA RoundKeepsCurrent ==
    ASSUME Inv, RoundEnds, NEW s \in DOMAIN Stages, Is(s, "sliced"), ~Disturbed(s),
           at \in { s - 1, s }, source' = source, current = Ordinal(s)
    PROVE  current' = current
<1>1. /\ Typed /\ Reached /\ InOrder /\ at \in Nat /\ program \in Programs
      /\ DOMAIN Stages = 1 .. Len(Stages) /\ Len(Stages) \in Nat
  BY ProgramShape DEF Inv, Typed, TypeOK
<1>2. CASE KeepsChildren
  BY <1>2 DEF KeepsChildren
<1>3. ASSUME NEW f \in FanOut, Advance(f) PROVE current' = current
  <2>1. f \in DOMAIN Stages /\ IsFanOut(f) /\ f # s
    BY <1>1, OneFanOut
  <2>2. f # s - 1
    BY <2>1 DEF Disturbed
  <2>3. CASE f < s
    <3>1. f < at
      BY <1>1, <2>1, <2>2, <2>3
    <3>2. complete
      BY <1>1, <3>1 DEF Reached
    <3> QED BY <1>3, <3>2 DEF Advance, Advances
  <2>4. CASE s < f
    <3>1. Ordinal(s) = 1
      <4>1. ~(Ordinal(s) > 1)
        BY <2>4 DEF Disturbed
      <4>2. Ordinal(s) \in Nat /\ Ordinal(s) > 0
        BY <1>1, OrdinalType
      <4> QED BY <4>1, <4>2
    <3>2. at < f
      BY <1>1, <2>1, <2>4
    <3>3. current' \in { current, 1 }
      BY <1>1, <1>3, <3>2, AdvanceFacts
    <3> QED BY <3>1, <3>3
  <2> QED BY <1>1, <2>1, <2>3, <2>4
<1> QED BY <1>2, <1>3 DEF RoundEnds

LEMMA RoundAimed ==
    ASSUME Inv, RoundEnds, NEW s \in DOMAIN Stages
    PROVE  Aimed(s)'
<1>1. /\ Typed /\ Taken /\ Reached /\ Pointed /\ at \in Nat /\ program \in Programs /\ Next
      /\ DOMAIN Stages = 1 .. Len(Stages) /\ Len(Stages) \in Nat /\ source.docs \in Nat
  BY ProgramShape DEF Inv, Typed, TypeOK, Next, Sources
<1>2. SUFFICES ASSUME Is(s, "sliced"), ~Disturbed(s), Ordinal(s) <= source'.docs
               PROVE  /\ at' = s /\ ~left'[s] => current' = Ordinal(s)
                      /\ at' = s - 1 /\ Plain(s - 1) /\ left'[s - 1] => current' = Ordinal(s)
                      /\ result'[s] \in { None, Ordinal(s) }
  BY <1>1, SameProgram DEF Aimed
<1>3. Ordinal(s) \in Nat /\ Ordinal(s) > 0
  BY <1>1, <1>2, OrdinalType
<1>4. source' = source
  BY <1>2, <1>3 DEF RoundEnds, SettleSource, Nothing
<1>5. PICK t \in 0 .. Len(Stages) : t = at
  BY <1>1, RoundType
<1>6. /\ at' \in { t, t + 1 } /\ (at' = t + 1 => Guard(t)')
      /\ round' = "idle" /\ left' = left /\ result' = result
  BY <1>1, <1>5, RoundType
<1>7. /\ at = s /\ ~left[s] => current = Ordinal(s)
      /\ at = s - 1 /\ Plain(s - 1) /\ left[s - 1] => current = Ordinal(s)
      /\ result[s] \in { None, Ordinal(s) }
  BY <1>1, <1>2, <1>4 DEF Pointed
<1>8. ASSUME at' = s, ~left'[s] PROVE current' = Ordinal(s)
  <2>1. CASE t = s
    <3>1. current = Ordinal(s)
      BY <1>5, <1>6, <1>7, <1>8, <2>1
    <3> QED BY <1>2, <1>4, <1>5, <2>1, <3>1, RoundKeepsCurrent
  <2>2. CASE t = s - 1 /\ Guard(t)'
    <3>1. current = Ordinal(s)
      <4>1. CASE Is(t, "upload")
        <5>1. t \in DOMAIN Stages
          BY <4>1 DEF Is
        <5>2. t + 1 = s
          BY <1>1, <2>2
        <5>3. Ordinal(s) = 1
          BY <1>1, <1>2, <1>3, <1>5, <2>2, <4>1 DEF Disturbed
        <5>4. source.docs > 0 /\ ~Apart(t)
          BY <1>1, <1>2, <1>4, <5>2, <5>3 DEF Apart
        <5> QED BY <1>1, <1>5, <4>1, <5>1, <5>3, <5>4 DEF Taken
      <4>2. CASE Plain(t)
        <5>1. Plain(t)'
          BY <1>1, <4>2, SameProgram
        <5>2. left'[t]
          BY <2>2, <5>1 DEF Guard, Plain
        <5> QED BY <1>5, <1>6, <1>7, <2>2, <4>2, <5>2
      <4>3. ~IsFanOut(t)
        BY <1>2, <2>2 DEF Disturbed
      <4> QED BY <4>1, <4>2, <4>3 DEF Plain
    <3> QED BY <1>2, <1>4, <1>5, <2>2, <3>1, RoundKeepsCurrent
  <2> QED BY <1>1, <1>5, <1>6, <1>8, <2>1, <2>2
<1>9. ~(at' = s - 1 /\ Plain(s - 1) /\ left'[s - 1])
  <2>1. Reached' /\ Stages' = Stages /\ Plain(s - 1)' = Plain(s - 1)
    BY <1>1, NextReached, SameProgram
  <2>2. s - 1 \in 0 .. Len(Stages)
    BY <1>1
  <2>3. ASSUME Plain(s - 1)', left'[s - 1], at' = s - 1 PROVE FALSE
    <3>1. s - 1 < at' \/ (s - 1 = at' /\ round' = "moves")
      BY <2>1, <2>2, <2>3 DEF Reached
    <3> QED BY <1>1, <1>6, <2>3, <3>1
  <2> QED BY <2>1, <2>3
<1> QED BY <1>6, <1>7, <1>8, <1>9

LEMMA NextPointed == Inv /\ [Next]_vars => Pointed'
<1> SUFFICES ASSUME Inv, [Next]_vars PROVE Pointed'
  OBVIOUS
<1>1. CASE UNCHANGED vars
  BY <1>1 DEF vars, Inv, Pointed, Stages, Is, IsFanOut, FanOut, Plain, Disturbed, Ordinal
<1>2. CASE Next
  <2>1. ASSUME NEW s \in DOMAIN Stages PROVE Aimed(s)'
    BY <1>2, IntakeAimed, ActionAimed, RoundAimed
  <2>2. Stages' = Stages
    BY SameProgram
  <2>3. \A s \in DOMAIN Stages' : Aimed(s)'
    BY <2>1, <2>2
  <2> QED BY <2>3 DEF Pointed, Aimed
<1> QED BY <1>1, <1>2

\* The parts of the invariant, together.
LEMMA Invariant == Spec => []Inv
<1>1. Init => Inv
  BY InitTyped, InitTaken, InitReached, InitPointed, InitInOrder DEF Inv
<1>2. Inv /\ [Next]_vars => Inv'
  BY NextTyped, NextTaken, NextReached, NextPointed, NextInOrder DEF Inv
<1> QED BY <1>1, <1>2, PTL DEF Spec

\* A child that has its own document of the upload runs on that one, in a program
\* of any length and with any number of documents, unless a fan-out disturbs it.
THEOREM ChildrenHaveTheirDocuments == Spec => []EachChildHasItsDocument
<1>1. Inv => EachChildHasItsDocument
  BY DEF Inv, Pointed, EachChildHasItsDocument
<1> QED BY <1>1, Invariant, PTL

---------------------------------------------------------------------------
(* The refinement.                                                          *)

\* What the abstract variables are, of a program with the fan-out f.
Abstracted ==
    \A f \in FanOut :
        /\ items = Items(f) /\ Items(f) \in 0 .. MaxDocs
        /\ answers = [k \in 1 .. index |-> k] /\ index \in Nat
        /\ index = 0 => answers = << >>
        /\ over <=> f < at

LEMMA AbstractValues == Inv => Abstracted
<1> SUFFICES ASSUME Inv, NEW f \in FanOut
             PROVE  /\ items = Items(f) /\ Items(f) \in 0 .. MaxDocs
                    /\ answers = [k \in 1 .. index |-> k] /\ index \in Nat
                    /\ index = 0 => answers = << >>
                    /\ over <=> f < at
  BY DEF Abstracted
<1>1. FanOut = { f } /\ FanOut # {}
  BY OneFanOut DEF Inv, Typed, TypeOK
<1>2. items = Items(f) /\ Items(f) \in 0 .. MaxDocs
  BY <1>1, ItemsType DEF items, Inv
<1>3. index \in Nat /\ \A k \in 1 .. index : results[k] = k
  BY ItemsType DEF Inv, InOrder
<1>4. answers = [k \in 1 .. index |-> k]
  BY <1>1, <1>3 DEF answers
<1>5. over <=> f < at
  BY <1>1 DEF over
<1>6. ASSUME index = 0 PROVE answers = << >>
  BY <1>4, <1>6
<1> QED BY <1>2, <1>3, <1>4, <1>5, <1>6

LEMMA EachInit == Init => Each!Init
<1> SUFFICES ASSUME Init PROVE Each!Init
  OBVIOUS
<1>1. \A f \in FanOut : Items(f) = 0 /\ ~(f < at)
  <2>1. ASSUME NEW f \in FanOut PROVE Items(f) = 0 /\ ~(f < at)
    <3>1. f \in 1 .. Len(Stages) /\ Len(Stages) \in Nat
      BY ProgramShape DEF Init, FanOut
    <3>2. left[0] = FALSE /\ source.docs = 0
      BY <3>1 DEF Init, Nothing
    <3> QED BY <3>1, <3>2 DEF Items, Init
  <2> QED BY <2>1
<1>2. items = 0 /\ over = FALSE
  BY <1>1 DEF items, over
<1>3. answers = << >>
  BY DEF answers, Init
<1> QED BY <1>2, <1>3 DEF Each!Init

\* The values after a step.
LEMMA AbstractStep ==
    ASSUME Inv, Inv', [Next]_vars, NEW f \in FanOut
    PROVE  /\ items' = Items(f)' /\ items' \in 0 .. MaxDocs
           /\ answers' = [k \in 1 .. index' |-> k] /\ index' \in Nat
           /\ index' = 0 => answers' = << >>
           /\ over' <=> f < at'
           /\ items = Items(f) /\ answers = [k \in 1 .. index |-> k] /\ index \in Nat
           /\ index = 0 => answers = << >>
           /\ over <=> f < at
<1>1. Abstracted' /\ Abstracted
  BY AbstractValues, PTL
<1>2. FanOut' = FanOut
  BY SameProgram
<1> QED BY <1>1, <1>2 DEF Abstracted

\* The documents are taken in, and the sources put, before the first answer.
LEMMA IntakeGathers ==
    ASSUME Inv, Inv', Next, NEW f \in FanOut, Begin \/ IngestDocuments \/ SkipDocuments
    PROVE  Each!Next \/ UNCHANGED << items, answers, over >>
<1>1. /\ at' = at /\ at \in Nat /\ Typed /\ Taken /\ Reached /\ InOrder
      /\ f \in DOMAIN Stages /\ DOMAIN Stages = 1 .. Len(Stages) /\ Len(Stages) \in Nat
  BY OneFanOut, ProgramShape DEF Begin, IngestDocuments, SkipDocuments, Inv, Typed, TypeOK
<1>2. at < f /\ index = 0
  <2>1. at < f
    <3>1. CASE Begin
      BY <1>1, <3>1 DEF Begin
    <3>2. CASE TakesDocuments /\ ~ready
      <4>1. at \in DOMAIN Stages /\ Is(at, "upload") /\ Is(f, "loop")
        BY <1>1, <3>2, UploadsAndFanOuts DEF TakesDocuments, Is, Typed, TypeOK
      <4>2. PICK u \in DOMAIN Stages : u < f /\ Is(u, "upload")
        BY <1>1, <4>1, UploadsAndFanOuts DEF Typed, TypeOK
      <4>3. ~(u < at)
        BY <1>1, <3>2, <4>2 DEF Taken
      <4>4. u = at
        BY <1>1, <4>1, <4>2, StagesFit DEF Typed, TypeOK, Is
      <4> QED BY <4>2, <4>4
    <3> QED BY <3>1, <3>2 DEF IngestDocuments, SkipDocuments
  <2>2. index = 0
    BY <1>1, <2>1 DEF Reached
  <2> QED BY <2>1, <2>2
<1>3. index' = 0
  BY <1>2 DEF Begin, IngestDocuments, SkipDocuments, fanout
<1>4. ~over /\ ~over' /\ over \in BOOLEAN /\ over' \in BOOLEAN
  BY <1>1, <1>2, AbstractStep DEF over
<1>5. Each!Gather
  BY <1>2, <1>3, <1>4, AbstractStep DEF Each!Gather
<1> QED BY <1>5 DEF Each!Next

\* The end of a round answers an item, leaves the stage, both, or neither.
LEMMA RoundAnswers ==
    ASSUME Inv, Inv', RoundEnds, NEW f \in FanOut
    PROVE  Each!Next \/ UNCHANGED << items, answers, over >>
<1>1. /\ Items(f)' = Items(f) /\ Advance(f) /\ Next /\ f \in Nat /\ at \in Nat
      /\ Typed /\ Reached /\ InOrder
  BY RoundItems, OneFanOut, ProgramShape DEF Inv, Typed, TypeOK, Next
<1>2. /\ items = Items(f) /\ items' = items /\ index \in Nat /\ index' \in Nat
      /\ answers = [k \in 1 .. index |-> k] /\ answers' = [k \in 1 .. index' |-> k]
      /\ (over <=> f < at) /\ (over' <=> f < at')
      /\ over \in BOOLEAN /\ over' \in BOOLEAN
  BY <1>1, AbstractStep DEF over
<1>3. PICK t \in 0 .. Len(Stages) : t = at
  BY <1>1, RoundType
<1>4. at' \in { t, t + 1 }
  BY <1>1, <1>3, RoundType
<1>5. over => over'
  BY <1>1, <1>2, <1>3, <1>4
<1>6. over' => complete' /\ index' = items
  <2>1. Counted(f)' /\ (f < at' => complete')
    <3>1. FanOut' = FanOut /\ InOrder' /\ Reached'
      BY <1>1, SameProgram DEF Inv
    <3> QED BY <1>1, <3>1, RoundInOrder DEF Reached
  <2> QED BY <1>1, <1>2, <2>1 DEF Counted
<1>7. CASE requested[f] /\ index' # index
  <2>1. f <= at /\ ~complete /\ index < Items(f)
    BY <1>1, <1>7, InOrderParts, OneFanOut DEF Reached, Asked, Typed, TypeOK
  <2>2. ~over
    <3>1. f < at => complete
      BY <1>1 DEF Reached
    <3> QED BY <1>2, <2>1, <3>1
  <2>3. Store(f)
    BY <1>1, <1>7 DEF Advance, fanout
  <2>4. index' = index + 1
    BY <1>7, <2>1, <2>3, StoreFacts
  <2>5. answers \in Seq(Nat) /\ Len(answers) = index
    BY <1>2
  <2>6. answers' = Append(answers, Len(answers) + 1)
    BY <1>2, <2>4, <2>5
  <2>7. over' \in { FALSE, Len(answers) + 1 = items }
    BY <1>2, <1>6, <2>4, <2>5
  <2>8. Each!Answer
    BY <1>1, <1>2, <2>1, <2>2, <2>5, <2>6, <2>7 DEF Each!Answer
  <2> QED BY <2>8 DEF Each!Next
<1>8. CASE index' = index
  <2>1. answers' = answers
    BY <1>2, <1>8
  <2>2. CASE over' = over
    BY <1>2, <2>1, <2>2
  <2>3. CASE over' # over
    <3>1. ~over /\ over' = TRUE
      BY <1>2, <1>5, <2>3
    <3>2. Len(answers) = items
      BY <1>2, <1>6, <1>8, <3>1
    <3>3. Each!Leave
      BY <1>2, <2>1, <3>1, <3>2 DEF Each!Leave
    <3> QED BY <3>3 DEF Each!Next
  <2> QED BY <2>2, <2>3
<1>9. index' = index \/ requested[f]
  BY <1>1 DEF Advance, fanout
<1> QED BY <1>7, <1>8, <1>9

\* No other action concerns the fan-out.
LEMMA OthersStutter ==
    ASSUME Inv, Inv', [Next]_vars, NEW f \in FanOut,
           ~Begin, ~IngestDocuments, ~SkipDocuments, ~RoundEnds
    PROVE  UNCHANGED << items, answers, over >>
<1>1. UNCHANGED << source, index, at >> /\ left'[0] = left[0]
  <2>1. UNCHANGED << source, index, at >>
    BY DEF Next, User, Author, Upload, SkipArrives, RequestUpload, Request, Proceed, ActsOtherwise,
           vars, fanout
  <2>2. ASSUME NEW s \in DOMAIN Stages, left' = [left EXCEPT ![s] = TRUE] PROVE left'[0] = left[0]
    <3>1. s # 0 /\ left \in [0 .. Len(Stages) -> BOOLEAN] /\ Len(Stages) \in Nat
      BY ProgramShape DEF Inv, Typed, TypeOK
    <3> QED BY <2>2, <3>1
  <2>3. left' = left \/ \E s \in DOMAIN Stages : left' = [left EXCEPT ![s] = TRUE]
    BY DEF Next, User, Author, Upload, SkipArrives, RequestUpload, Request, Proceed, ActsOtherwise, vars
  <2> QED BY <2>1, <2>2, <2>3
<1>2. Items(f)' = Items(f)
  BY <1>1, ItemsType DEF Inv
<1>3. items' = items /\ answers' = answers
  BY <1>1, <1>2, AbstractStep
<1>4. over' = over
  BY <1>1, SameProgram DEF over
<1> QED BY <1>3, <1>4

\* The fan-out of any program asks its child once for every item, in order, on the
\* item itself, and is left when the last one is answered.
THEOREM FanOutIsOneEach == Spec => ImplementsOneEach
<1>1. Inv /\ Inv' /\ [Next]_vars => [Each!Next]_Each!each
  <2> SUFFICES ASSUME Inv, Inv', [Next]_vars PROVE Each!Next \/ UNCHANGED << items, answers, over >>
    BY DEF Each!each
  <2>1. CASE FanOut = {}
    <3>1. FanOut' = {}
      BY <2>1, SameProgram
    <3> QED BY <2>1, <3>1 DEF items, answers, over
  <2>2. ASSUME NEW f \in FanOut PROVE Each!Next \/ UNCHANGED << items, answers, over >>
    <3>1. CASE Begin \/ IngestDocuments \/ SkipDocuments
      BY <2>2, <3>1, IntakeGathers DEF Next, Author
    <3>2. CASE RoundEnds
      BY <2>2, <3>2, RoundAnswers
    <3> QED BY <2>2, <3>1, <3>2, OthersStutter
  <2> QED BY <2>1, <2>2
<1> QED BY <1>1, EachInit, Invariant, PTL DEF Spec, ImplementsOneEach, Each!Spec

=============================================================================
