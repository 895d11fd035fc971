-------------------------- MODULE LiveDrive_proofs --------------------------
(***************************************************************************)
(* Theorems about live drives, for any scripts, decisions, items, keys and  *)
(* bounds.  Types, the single verdict and what a pass says of the session   *)
(* hold whether or not triggers are answered early; that decisions find     *)
(* their items and that only sound programs pass hold where they are not.   *)
(***************************************************************************)
EXTENDS LiveDrive, FiniteSetTheorems, SequenceTheorems, TLAPS

(* Types of the constants of the model.                                     *)

USE DEF None, Final

LEMMA SessionTypes ==
    /\ NoSession \in Sessions /\ NewSession \in Sessions /\ BlankWorld \in Worlds
<1>1. BlankWorld \in Worlds
  BY DEF BlankWorld, Worlds
<1>2. NoSession \in Sessions
  BY <1>1 DEF NoSession, Sessions, Envelopes, Rounds
<1>3. [i \in 1 .. Items |-> "pending"] \in Seq(Statuses)
  BY BoundsAssumption DEF Statuses
<1>4. [BlankWorld EXCEPT !.items = [i \in 1 .. Items |-> "pending"]] \in Worlds
  BY <1>1, <1>3 DEF Worlds
<1>5. NewSession \in Sessions
  BY <1>4 DEF NewSession, Sessions, Envelopes, Rounds
<1> QED
  BY <1>1, <1>2, <1>5

LEMMA ReportType ==
    ASSUME NEW state \in Sessions, NEW hist \in Seq(Snapshots), NEW exp \in SUBSET Facts,
           NEW islate \in BOOLEAN, NEW err \in BOOLEAN
    PROVE  Report(state, hist, exp, islate, err) \in Reports
BY DEF Report, Reports, Sessions

LEMMA ReportTypes ==
    /\ NoReport \in Reports /\ BareReport \in Reports /\ Leftover \in Reports
    /\ NoReport.envelope.mode = None /\ BareReport.envelope.mode = None
    /\ BareReport.error
<1>1. << >> \in Seq(Snapshots) /\ << >> \in Rounds /\ {} \in SUBSET Facts
  BY DEF Rounds
<1>2. Report(NoSession, << >>, {}, FALSE, FALSE) \in Reports
  BY <1>1, SessionTypes, ReportType
<1>3. NoReport \in Reports /\ NoReport.envelope.mode = None
  BY <1>2 DEF NoReport, Reports, Report, NoSession
<1>4. BareReport \in Reports /\ BareReport.envelope.mode = None /\ BareReport.error
  BY <1>3 DEF BareReport, Reports
<1>5. Leftover \in Reports
  <2> DEFINE w == [BlankWorld EXCEPT !.facts = DelegationFacts \cup ExtractionFacts, !.child = 1]
             s == [envelope |-> [mode |-> Final, terminal |-> TRUE], world |-> w, rounds |-> << >>]
  <2>1. w \in Worlds
    BY SessionTypes DEF Worlds, Facts
  <2>2. s \in Sessions
    BY <1>1, <2>1 DEF Sessions, Envelopes
  <2>3. ExportFacts \in SUBSET Facts
    BY DEF Facts
  <2> HIDE DEF s
  <2>4. Report(s, << >>, ExportFacts, FALSE, FALSE) \in Reports
    BY <1>1, <2>2, <2>3, ReportType
  <2> QED
    BY <2>4 DEF Leftover, s
<1> QED
  BY <1>3, <1>4, <1>5
-----------------------------------------------------------------------------
(* Type correctness.                                                       *)

\* The parts of TypeOK.
CallOK ==
    /\ scripts \in Drives /\ fault \in { None } \cup FaultsOf(scripts)
    /\ drive \in { "idle", "ready", "waiting", "closing", "clearing", "settled" }
    /\ verdict \in { None, "passed", "failed", "threw" }
    /\ report \in Reports
    /\ proxy \in [open : BOOLEAN, hits : Nat]
    /\ exit \in { None, "ok", "failed", "killed" }
    /\ late \in BOOLEAN
ReadingOK ==
    /\ pc \in { "absent", "booting", "reading", "checking", "deciding", "asking", "harvesting",
               "writing", "flushing", "dead" }
    /\ why \in { "loop", "round", "landing", "final", "timeout", "error" }
    /\ DOMAIN got \subseteq Parts
    /\ "envelope" \in DOMAIN got => got.envelope \in Envelopes
    /\ "world" \in DOMAIN got => got.world \in Worlds
    /\ "rounds" \in DOMAIN got => got.rounds \in Rounds
    /\ seen \in Sessions
    /\ exported \in SUBSET Facts
    /\ history \in Seq(Snapshots)
LoopOK ==
    /\ before \in Nat /\ triggers \in Nat /\ used \in 0 .. Len(Script)
    /\ ask \in Asks
    /\ attempted \in SUBSET Uploads /\ accepted \in SUBSET Uploads
ServedOK ==
    /\ engine \in Sessions /\ queue \in Seq(Asks)
    /\ reply \in { None, "ok", "terminal", "error", "late" }

LEMMA TypeParts == TypeOK <=> CallOK /\ ReadingOK /\ LoopOK /\ ServedOK
BY DEF TypeOK, CallOK, ReadingOK, LoopOK, ServedOK

LEMMA TypePartsNext == CallOK' /\ ReadingOK' /\ LoopOK' /\ ServedOK' => TypeOK'
BY DEF TypeOK, CallOK, ReadingOK, LoopOK, ServedOK

LEMMA EntryType == Entry \in Asks
BY DEF Entry, Asks, AskKinds

LEMMA InitType == Init => TypeOK
<1> SUFFICES ASSUME Init PROVE TypeOK
  OBVIOUS
<1>0. << >> \in Seq(Snapshots) /\ << >> \in Seq(Asks) /\ Len(Script) \in Nat
  BY ScriptAssumption
<1>1. CallOK
  BY ReportTypes DEF Init, CallOK
<1>2. ReadingOK
  BY <1>0, SessionTypes DEF Init, ReadingOK
<1>3. LoopOK
  BY <1>0, EntryType DEF Init, LoopOK
<1>4. ServedOK
  BY <1>0, SessionTypes DEF Init, ServedOK
<1> QED
  BY <1>1, <1>2, <1>3, <1>4, TypeParts

\* What is kept when its variables are.
LEMMA Kept ==
    /\ CallOK /\ UNCHANGED << fixed, parent, report, proxy, exit, late >> => CallOK'
    /\ ReadingOK /\ UNCHANGED << pc, reading >> => ReadingOK'
    /\ LoopOK /\ UNCHANGED loop => LoopOK'
    /\ ServedOK /\ UNCHANGED << engine, queue, reply >> => ServedOK'
BY DEF CallOK, ReadingOK, LoopOK, ServedOK, fixed, parent, reading, loop

LEMMA CallerTypes == ASSUME TypeOK, Caller \/ Kill PROVE TypeOK'
<1>0. CallOK /\ ReadingOK /\ LoopOK /\ ServedOK
  BY TypeParts
<1>1. CallOK'
  <2>1. CASE Setup
    BY <1>0, <2>1, ReportTypes DEF Setup, CallOK, fixed
  <2>2. CASE Spawn \/ Kill
    BY <1>0, <2>2 DEF Spawn, Kill, CallOK, fixed, parent
  <2>3. CASE Judge
    BY <1>0, <2>3 DEF Judge, CallOK, fixed
  <2>4. CASE CloseProxy \/ RemoveDirectory
    BY <1>0, <2>4, ReportTypes DEF CloseProxy, RemoveDirectory, CallOK, fixed
  <2> QED
    BY <2>1, <2>2, <2>3, <2>4 DEF Caller
<1>2. ReadingOK'
  BY <1>0 DEF ReadingOK, Caller, Setup, Spawn, Kill, Judge, CloseProxy, RemoveDirectory, reading
<1>3. LoopOK'
  BY <1>0, Kept DEF Caller, Setup, Spawn, Kill, Judge, CloseProxy, RemoveDirectory, loop
<1>4. ServedOK'
  BY <1>0, Kept DEF Caller, Setup, Spawn, Kill, Judge, CloseProxy, RemoveDirectory
<1> QED
  BY <1>1, <1>2, <1>3, <1>4, TypePartsNext

LEMMA SnapshotType ==
    ASSUME NEW state \in Sessions, NEW index \in Nat, NEW decision \in Decisions \cup { None },
           history \in Seq(Snapshots)
    PROVE  Recorded(state, index, decision) \in Seq(Snapshots)
<1>1. Len(state.rounds) \in Nat /\ state.world.items \in Seq(Statuses)
  BY DEF Sessions, Worlds, Rounds
<1>2. Snapshot(state, index, decision) \in Snapshots
  BY <1>1 DEF Snapshot, Snapshots
<1> QED
  BY <1>2 DEF Recorded

\* Reading the state.
LEMMA ReadingTypes ==
    ASSUME TypeOK, \/ Boot \/ Deadline \/ Crash \/ PollAgain \/ StateRead \/ ReadFails
                   \/ Harvest \/ Check
                   \/ \E part \in Parts : Get(part)
    PROVE  TypeOK'
<1>0. CallOK /\ ReadingOK /\ LoopOK /\ ServedOK
  BY TypeParts
<1>1. ASSUME Boot \/ Deadline \/ Crash \/ PollAgain \/ ReadFails \/ Check PROVE TypeOK'
  <2>1. CallOK'
    BY <1>0, <1>1, ReportTypes
       DEF CallOK, Boot, Deadline, Crash, Break, PollAgain, ReadFails, Check, fixed, parent
  <2>2. ReadingOK'
    BY <1>0, <1>1
       DEF ReadingOK, Boot, Deadline, Crash, Break, PollAgain, ReadFails, Check, reading
  <2>3. LoopOK'
    BY <1>0, <1>1, Kept DEF Boot, Deadline, Crash, PollAgain, ReadFails, Check
  <2>4. ServedOK'
    BY <1>0, <1>1, SessionTypes
       DEF ServedOK, Boot, Deadline, Crash, PollAgain, ReadFails, Check
  <2> QED
    BY <2>1, <2>2, <2>3, <2>4, TypePartsNext
<1>2. ASSUME NEW part \in Parts, Get(part) PROVE TypeOK'
  <2>1. CallOK' /\ LoopOK' /\ ServedOK'
    BY <1>0, <1>2, Kept DEF Get
  <2>2. engine.envelope \in Envelopes /\ engine.world \in Worlds /\ engine.rounds \in Rounds
    BY <1>0 DEF ServedOK, Sessions
  <2>3. DOMAIN got' = DOMAIN got \cup { part } /\ DOMAIN got' \subseteq Parts
    BY <1>0, <1>2 DEF Get, ReadingOK
  <2>4. \A p \in DOMAIN got' : got'[p] = IF p = part THEN engine[part] ELSE got[p]
    BY <1>2 DEF Get
  <2>5. "envelope" \in DOMAIN got' => got'.envelope \in Envelopes
    BY <1>0, <2>2, <2>3, <2>4 DEF ReadingOK
  <2>6. "world" \in DOMAIN got' => got'.world \in Worlds
    BY <1>0, <2>2, <2>3, <2>4 DEF ReadingOK
  <2>7. "rounds" \in DOMAIN got' => got'.rounds \in Rounds
    BY <1>0, <2>2, <2>3, <2>4 DEF ReadingOK
  <2>8. ReadingOK'
    BY <1>0, <1>2, <2>3, <2>5, <2>6, <2>7 DEF Get, ReadingOK
  <2> QED
    BY <2>1, <2>8, TypePartsNext
<1>3. ASSUME StateRead PROVE TypeOK'
  <2>1. CallOK' /\ LoopOK' /\ ServedOK'
    BY <1>0, <1>3, Kept DEF StateRead
  <2>2. State \in Sessions
    BY <1>0, <1>3 DEF StateRead, ReadingOK, State, Sessions, Parts
  <2>3. ask.index \in Nat /\ ask.decision \in Decisions \cup { None }
    BY <1>0 DEF LoopOK, Asks
  <2>4. history' \in Seq(Snapshots)
    BY <1>0, <1>3, <2>2, <2>3, SnapshotType DEF StateRead, ReadingOK
  <2>5. ReadingOK'
    BY <1>0, <1>3, <2>2, <2>4 DEF StateRead, ReadingOK
  <2> QED
    BY <2>1, <2>5, TypePartsNext
<1>4. ASSUME Harvest PROVE TypeOK'
  <2>1. CallOK' /\ LoopOK' /\ ServedOK'
    BY <1>0, <1>4, Kept DEF Harvest
  <2>2. exported' \in SUBSET Facts
    BY <1>4 DEF Harvest, Facts
  <2>3. ReadingOK'
    BY <1>0, <1>4, <2>2 DEF Harvest, ReadingOK
  <2> QED
    BY <2>1, <2>3, TypePartsNext
<1> QED
  BY <1>1, <1>2, <1>3, <1>4

\* Writing the report.
LEMMA WritingTypes ==
    ASSUME TypeOK, StartReport \/ FinishReport
    PROVE  TypeOK'
<1>0. CallOK /\ ReadingOK /\ LoopOK /\ ServedOK
  BY TypeParts
<1>1. LoopOK' /\ ServedOK'
  BY <1>0, Kept DEF StartReport, FinishReport
<1>2. ReadingOK'
  BY <1>0 DEF ReadingOK, StartReport, FinishReport, reading
<1>3. CASE StartReport
  BY <1>0, <1>1, <1>2, <1>3, ReportTypes, TypePartsNext DEF StartReport, CallOK, fixed, parent
<1>4. CASE FinishReport
  <2> DEFINE f == seen.world.facts \cup { AcceptedFact(k) : k \in accepted }
             told == [seen EXCEPT !.world.facts = f]
             err == why \in { "timeout", "error" }
  <2>1. f \in SUBSET Facts
    BY <1>0 DEF ReadingOK, Sessions, Worlds, LoopOK, AcceptedFact, Facts, UploadFacts,
                ExtractionFacts, Uploads
  <2>2. told \in Sessions
    <3> HIDE DEF f
    <3>1. seen \in Sessions /\ seen.world \in Worlds
      BY <1>0 DEF ReadingOK, Sessions
    <3>2. [seen.world EXCEPT !.facts = f] \in Worlds
      BY <2>1, <3>1 DEF Worlds
    <3>3. told = [seen EXCEPT !.world = [seen.world EXCEPT !.facts = f]]
      BY <3>1 DEF Sessions, Worlds
    <3> QED
      BY <3>1, <3>2, <3>3 DEF Sessions
  <2> HIDE DEF told
  <2>3. Report(told, history, exported, why = "timeout", err) \in Reports
    <3> DEFINE l == (why = "timeout")
    <3>1. l \in BOOLEAN /\ err \in BOOLEAN /\ history \in Seq(Snapshots)
          /\ exported \in SUBSET Facts
      BY <1>0 DEF ReadingOK
    <3> HIDE DEF l, err
    <3>2. Report(told, history, exported, l, err) \in Reports
      BY <2>2, <3>1, ReportType
    <3> QED
      BY <3>2 DEF l
  <2>4. report' = Report(told, history, exported, why = "timeout", err)
    BY <1>4 DEF FinishReport, told
  <2>5. CallOK'
    BY <1>0, <1>4, <2>3, <2>4 DEF FinishReport, CallOK, fixed, parent
  <2> QED
    BY <1>1, <1>2, <2>5, TypePartsNext
<1> QED
  BY <1>3, <1>4

\* Asking.
LEMMA AskTypes ==
    ASSUME TypeOK, NEW a \in Asks, Ask(a)
    PROVE  ask' \in Asks /\ before' \in Nat /\ queue' \in Seq(Asks)
           /\ reply' \in { None, "late" } /\ pc' = "asking"
<1>1. Len(seen.rounds) \in Nat
  BY DEF TypeOK, Sessions, Rounds
<1>2. queue \in Seq(Asks) /\ Append(queue, a) \in Seq(Asks)
  BY DEF TypeOK
<1>3. CASE late /\ Runner(scripts).races
  BY <1>1, <1>2, <1>3 DEF Ask
<1>4. CASE ~(late /\ Runner(scripts).races)
  BY <1>1, <1>2, <1>4 DEF Ask
<1> QED
  BY <1>3, <1>4

LEMMA AskingTypes ==
    ASSUME TypeOK, SendDecision \/ SendEntry \/ \E kind \in Uploads : PostFile(kind)
    PROVE  TypeOK'
<1>0. CallOK /\ ReadingOK /\ LoopOK /\ ServedOK
  BY TypeParts
<1>1. CASE SendDecision
  <2>1. PICK i \in Proposed(seen.world.items) :
            Ask([kind |-> "decision", index |-> i,
                 decision |-> IF used < Len(Script) THEN Script[used + 1] ELSE "approve"])
    BY <1>1 DEF SendDecision
  <2>2. i \in Nat
    BY <1>0 DEF Proposed, ReadingOK, Sessions, Worlds
  <2>3. (IF used < Len(Script) THEN Script[used + 1] ELSE "approve") \in Decisions
    BY <1>0, ScriptAssumption DEF LoopOK, Decisions
  <2> DEFINE a == [kind |-> "decision", index |-> i,
                   decision |-> IF used < Len(Script) THEN Script[used + 1] ELSE "approve"]
  <2>4. a \in Asks
    <3> DEFINE d == IF used < Len(Script) THEN Script[used + 1] ELSE "approve"
    <3>1. d \in Decisions
      BY <2>3
    <3> HIDE DEF d
    <3>2. [kind |-> "decision", index |-> i, decision |-> d] \in Asks
      BY <2>2, <3>1 DEF Asks
    <3> QED
      BY <3>2 DEF d
  <2>5. Ask(a)
    BY <2>1
  <2> HIDE DEF a
  <2>6. ask' \in Asks /\ before' \in Nat /\ queue' \in Seq(Asks)
        /\ reply' \in { None, "late" } /\ pc' = "asking"
    BY <2>4, <2>5, AskTypes
  <2>7. used' \in 0 .. Len(Script)
    BY <1>0, <1>1, ScriptAssumption DEF SendDecision, LoopOK
  <2>8. CallOK' /\ ReadingOK'
    BY <1>0, <1>1, <2>6 DEF SendDecision, CallOK, ReadingOK, fixed, parent, reading
  <2>9. LoopOK' /\ ServedOK'
    BY <1>0, <1>1, <2>6, <2>7 DEF SendDecision, LoopOK, ServedOK
  <2> QED
    BY <2>8, <2>9, TypePartsNext
<1>2. CASE SendEntry
  <2>1. ask' \in Asks /\ before' \in Nat /\ queue' \in Seq(Asks)
        /\ reply' \in { None, "late" } /\ pc' = "asking"
    BY <1>2, EntryType, AskTypes DEF SendEntry
  <2>2. CallOK' /\ ReadingOK'
    BY <1>0, <1>2, <2>1 DEF SendEntry, CallOK, ReadingOK, fixed, parent, reading
  <2>3. LoopOK' /\ ServedOK'
    BY <1>0, <1>2, <2>1 DEF SendEntry, LoopOK, ServedOK
  <2> QED
    BY <2>2, <2>3, TypePartsNext
<1>3. ASSUME NEW kind \in Uploads, PostFile(kind) PROVE TypeOK'
  <2> DEFINE a == [kind |-> kind, index |-> 0, decision |-> None]
  <2>1. a \in Asks
    BY DEF Asks, AskKinds, Uploads
  <2>2. CallOK' /\ LoopOK' /\ ServedOK' /\ pc' \in { pc, "asking" }
    <3>1. CASE fault = AcceptedFact(kind)
      BY <1>0, <1>3, <3>1 DEF PostFile, CallOK, LoopOK, ServedOK, fixed, parent
    <3>2. CASE fault # AcceptedFact(kind)
      <4>1. Ask(a) /\ accepted' = accepted \cup { kind }
        BY <1>3, <3>2 DEF PostFile
      <4>2. ask' \in Asks /\ before' \in Nat /\ queue' \in Seq(Asks)
            /\ reply' \in { None, "late" } /\ pc' = "asking"
        BY <2>1, <4>1, AskTypes
      <4> QED
        BY <1>0, <1>3, <4>1, <4>2 DEF PostFile, CallOK, LoopOK, ServedOK, fixed, parent
    <3> QED
      BY <3>1, <3>2
  <2>3. ReadingOK'
    BY <1>0, <1>3, <2>2 DEF PostFile, ReadingOK, reading
  <2> QED
    BY <2>2, <2>3, TypePartsNext
<1> QED
  BY <1>1, <1>2, <1>3

\* The answers to a trigger.
LEMMA AnswerTypes ==
    ASSUME TypeOK, Answered \/ SessionOver \/ TimesOut \/ Refused
    PROVE  TypeOK'
<1>0. CallOK /\ ReadingOK /\ LoopOK /\ ServedOK
  BY TypeParts
<1>1. CallOK'
  <2>1. CASE Answered \/ SessionOver
    BY <1>0, <2>1, Kept DEF Answered, SessionOver
  <2>2. CASE TimesOut
    BY <1>0, <2>2, ReportTypes DEF TimesOut, Break, CallOK, fixed, parent
  <2>3. CASE Refused
    BY <1>0, <2>3, ReportTypes DEF Refused, Break, CallOK, fixed, parent
  <2> QED
    BY <2>1, <2>2, <2>3
<1>2. ReadingOK'
  <2>1. CASE Answered \/ SessionOver
    BY <1>0, <2>1 DEF Answered, SessionOver, ReadingOK
  <2>2. CASE TimesOut \/ Refused
    BY <1>0, <2>2 DEF TimesOut, Refused, Break, ReadingOK
  <2> QED
    BY <2>1, <2>2
<1>3. LoopOK'
  BY <1>0 DEF Answered, SessionOver, TimesOut, Refused, LoopOK, loop
<1>4. ServedOK'
  BY <1>0 DEF Answered, SessionOver, TimesOut, Refused, ServedOK
<1> QED
  BY <1>1, <1>2, <1>3, <1>4, TypePartsNext

\* The engine.
RoundSet == [act : { "append", "finish", "finish_batch", "other" }, key : Keys \cup { None },
             value : Values \cup { {} }]

LEMMA DequeueTypes ==
    ASSUME TypeOK, Busy, Dequeue
    PROVE  queue' \in Seq(Asks) /\ reply' \in { None, "ok", "terminal", "error", "late" }
<1>1. queue \in Seq(Asks) /\ queue # << >> /\ reply \in { None, "ok", "terminal", "error", "late" }
  BY DEF TypeOK, Busy
<1>2. CASE queue' = [queue EXCEPT ![1] = Entry] /\ reply' = reply
  BY <1>1, <1>2, EntryType
<1>3. CASE queue' = Tail(queue) /\ ReplyWith("ok")
  BY <1>1, <1>3 DEF ReplyWith
<1> QED
  BY <1>2, <1>3 DEF Dequeue

LEMMA RoundTypes ==
    ASSUME TypeOK, NEW envelope \in Envelopes, NEW world \in Worlds, NEW round \in RoundSet,
           NEW hits \in Nat, Round(envelope, world, round, hits)
    PROVE  TypeOK'
<1>0. CallOK /\ ReadingOK /\ LoopOK /\ ServedOK
  BY TypeParts
<1>1. queue' \in Seq(Asks) /\ reply' \in { None, "ok", "terminal", "error", "late" }
  BY DequeueTypes DEF Round
<1>2. Append(engine.rounds, round) \in Rounds
  BY <1>0 DEF ServedOK, Sessions, Rounds, RoundSet
<1>3. engine' \in Sessions
  BY <1>2 DEF Round, Sessions
<1>4. proxy' \in [open : BOOLEAN, hits : Nat]
  BY <1>0 DEF Round, CallOK
<1>5. CallOK'
  BY <1>0, <1>4 DEF Round, CallOK, fixed, parent
<1>6. ReadingOK' /\ LoopOK'
  BY <1>0, Kept DEF Round
<1>7. ServedOK'
  BY <1>1, <1>3 DEF ServedOK
<1> QED
  BY <1>5, <1>6, <1>7, TypePartsNext

LEMMA OtherRoundType == OtherRound \in RoundSet /\ \A m \in { "append", "finish", "finish_batch" } :
    [OtherRound EXCEPT !.act = m] \in RoundSet
BY DEF OtherRound, RoundSet

LEMMA StoredType ==
    ASSUME NEW c \in Seq([key : Keys, value : Values]), NEW k \in Keys, NEW v \in Values
    PROVE  Stored(c, k, v) \in Seq([key : Keys, value : Values])
<1> DEFINE E == [key : Keys, value : Values]
           e == [key |-> k, value |-> v]
<1>1. e \in E
  OBVIOUS
<1>2. Append(c, e) \in Seq(E)
  BY <1>1
<1>3. [n \in DOMAIN c |-> IF c[n].key = k THEN e ELSE c[n]] \in Seq(E)
  <2> HIDE DEF e, E
  <2>1. c \in Seq(E)
    BY DEF E
  <2>2. Len(c) \in Nat /\ DOMAIN c = 1 .. Len(c) /\ \A n \in DOMAIN c : c[n] \in E
    BY <2>1
  <2> QED
    BY <1>1, <2>2
<1> QED
  BY <1>2, <1>3 DEF Stored, Upsert

LEMMA UpdatedSeq ==
    ASSUME NEW S, NEW q \in Seq(S), NEW n, NEW s \in S
    PROVE  [q EXCEPT ![n] = s] \in Seq(S)
<1>1. Len(q) \in Nat /\ DOMAIN q = 1 .. Len(q) /\ \A m \in 1 .. Len(q) : q[m] \in S
  OBVIOUS
<1> DEFINE f == [m \in 1 .. Len(q) |-> IF m = n THEN s ELSE q[m]]
<1>2. [q EXCEPT ![n] = s] = f
  BY <1>1
<1>3. \A m \in 1 .. Len(q) : f[m] \in S
  BY <1>1
<1>4. f \in Seq(S)
  BY <1>1, <1>3
<1> QED
  BY <1>2, <1>4

LEMMA EngineTypes == ASSUME TypeOK, EngineStep PROVE TypeOK'
<1>0. CallOK /\ ReadingOK /\ LoopOK /\ ServedOK
  BY TypeParts
<1>1. engine.envelope \in Envelopes /\ engine.world \in Worlds /\ engine.world.facts \subseteq Facts
      /\ engine.world.items \in Seq(Statuses)
      /\ engine.world.collection \in Seq([key : Keys, value : Values])
  BY <1>0 DEF ServedOK, Sessions, Worlds
<1>2. CASE Work
  <2> DEFINE ran == "delegation" \in scripts
             f == engine.world.facts \cup Delivered
             w == [engine.world EXCEPT !.facts = engine.world.facts \cup Delivered,
                                       !.child = IF ran THEN 1 ELSE 0,
                                       !.stubs = (fault = "stubs")]
  <2>1. f \in SUBSET Facts
    BY <1>1 DEF Delivered, Facts, FactsOf, Uploads
  <2>2. w \in Worlds
    <3> HIDE DEF ran
    <3> QED
      BY <1>1, <2>1 DEF Worlds
  <2> HIDE DEF w
  <2>3. Round(engine.envelope, w, OtherRound, IF ran THEN 2 ELSE 1)
    BY <1>2 DEF Work, w
  <2>4. (IF ran THEN 2 ELSE 1) \in Nat
    OBVIOUS
  <2> QED
    BY <1>1, <2>2, <2>3, <2>4, OtherRoundType, RoundTypes
<1>3. CASE Propose
  <2>1. PICK i \in DOMAIN engine.world.items :
            Round(engine.envelope, [engine.world EXCEPT !.items[i] = "proposed"], OtherRound, 1)
    BY <1>3 DEF Propose
  <2>2. [engine.world.items EXCEPT ![i] = "proposed"] \in Seq(Statuses)
    BY <1>1, <2>1 DEF Statuses
  <2> DEFINE w == [engine.world EXCEPT !.items = [engine.world.items EXCEPT ![i] = "proposed"]]
  <2>3. w \in Worlds /\ [engine.world EXCEPT !.items[i] = "proposed"] = w
    BY <1>1, <2>2 DEF Worlds
  <2> QED
    BY <1>1, <2>1, <2>3, OtherRoundType, RoundTypes
<1>4. CASE AppendRecord
  <2>1. PICK k \in Keys, v \in Values :
            Round(engine.envelope,
                  [engine.world EXCEPT !.collection = Stored(engine.world.collection, k, v)],
                  [act |-> "append", key |-> IF fault = "batch_append" THEN None ELSE k, value |-> v],
                  1)
    BY <1>4 DEF AppendRecord
  <2>2. [engine.world EXCEPT !.collection = Stored(engine.world.collection, k, v)] \in Worlds
    BY <1>1, <2>1, StoredType DEF Worlds
  <2>3. [act |-> "append", key |-> IF fault = "batch_append" THEN None ELSE k, value |-> v]
           \in RoundSet
    BY <2>1 DEF RoundSet
  <2> QED
    BY <1>1, <2>1, <2>2, <2>3, RoundTypes
<1>5. CASE Advance
  <2>1. PICK m \in 1 .. 2, terminal \in BOOLEAN :
            Round([mode |-> Modes[m + 1], terminal |-> terminal],
                  [engine.world EXCEPT !.stubs = (fault = "stubs")],
                  [OtherRound EXCEPT !.act =
                      IF m = 2 THEN IF fault = "batch_finish" THEN "finish_batch" ELSE "finish"
                      ELSE "other"], 1)
    BY <1>5 DEF Advance
  <2>2. [mode |-> Modes[m + 1], terminal |-> terminal] \in Envelopes
    BY <2>1 DEF Modes, Envelopes
  <2>3. [engine.world EXCEPT !.stubs = (fault = "stubs")] \in Worlds
    <3> DEFINE b == (fault = "stubs")
    <3>1. b \in BOOLEAN
      OBVIOUS
    <3> HIDE DEF b
    <3>2. [engine.world EXCEPT !.stubs = b] \in Worlds
      BY <1>1, <3>1 DEF Worlds
    <3> QED
      BY <3>2 DEF b
  <2>4. [OtherRound EXCEPT !.act =
            IF m = 2 THEN IF fault = "batch_finish" THEN "finish_batch" ELSE "finish"
            ELSE "other"] \in RoundSet
    BY DEF OtherRound, RoundSet
  <2> QED
    BY <2>1, <2>2, <2>3, <2>4, RoundTypes
<1>6. CASE Ingest
  <2>1. PICK hits \in 0 .. 1 :
            Round(engine.envelope,
                  [engine.world EXCEPT !.items =
                      IF Proposed(engine.world.items) = {} \/ fault = "ignores_decisions"
                      THEN engine.world.items
                      ELSE [engine.world.items EXCEPT ![FirstProposed(engine.world.items)] =
                              DecisionTable[Head(queue).decision]]],
                  OtherRound, hits)
    BY <1>6 DEF Ingest
  <2> DEFINE items == engine.world.items
             taken == [items EXCEPT ![FirstProposed(items)] = DecisionTable[Head(queue).decision]]
             left == IF Proposed(items) = {} \/ fault = "ignores_decisions" THEN items ELSE taken
             w == [engine.world EXCEPT !.items = left]
  <2>2. Head(queue).decision \in Decisions
    BY <1>0, <1>6 DEF Ingest, Here, Busy, ServedOK, Asks
  <2>3. DecisionTable[Head(queue).decision] \in Statuses
    BY <2>2 DEF DecisionTable, Statuses, Decisions
  <2>4. taken \in Seq(Statuses)
    <3>1. items \in Seq(Statuses)
      BY <1>1
    <3> QED
      BY <2>3, <3>1, UpdatedSeq
  <2>5. left \in Seq(Statuses)
    BY <1>1, <2>4
  <2>6. w \in Worlds
    <3> HIDE DEF left
    <3> QED
      BY <1>1, <2>5 DEF Worlds
  <2>7. Round(engine.envelope, w, OtherRound, hits)
    BY <2>1
  <2> HIDE DEF w
  <2> QED
    BY <1>1, <2>1, <2>6, <2>7, OtherRoundType, RoundTypes
<1>7. CASE Land
  <2> DEFINE f == engine.world.facts \cup ({ LandedFact(Head(queue).kind) } \ { fault })
             w == [engine.world EXCEPT !.facts = f]
  <2>1. f \subseteq Facts
    BY <1>1 DEF LandedFact, Facts, UploadFacts, ExtractionFacts
  <2>2. w \in Worlds
    BY <1>1, <2>1 DEF Worlds
  <2>3. Round(engine.envelope, w, OtherRound, 0)
    BY <1>7 DEF Land
  <2> QED
    BY <1>1, <2>2, <2>3, OtherRoundType, RoundTypes
<1>8. CASE AnswerEarly
  BY <1>0, <1>8, Kept, TypePartsNext DEF AnswerEarly, ServedOK
<1>9. CASE Fail
  <2>1. queue' \in Seq(Asks)
    BY <1>0, <1>9 DEF Fail, Busy, ServedOK
  <2>2. ServedOK'
    BY <1>0, <1>9, <2>1 DEF Fail, ReplyWith, ServedOK
  <2> QED
    BY <1>0, <1>9, <2>2, Kept, TypePartsNext DEF Fail
<1> QED
  BY <1>2, <1>3, <1>4, <1>5, <1>6, <1>7, <1>8, <1>9 DEF EngineStep

LEMMA TypeStep == TypeOK /\ [Next]_vars => TypeOK'
<1> SUFFICES ASSUME TypeOK, [Next]_vars PROVE TypeOK'
  OBVIOUS
<1>1. CASE UNCHANGED vars
  BY <1>1, TypeParts, Kept, TypePartsNext DEF vars, fixed, parent, reading, loop
<1>2. CASE Caller \/ Kill
  BY <1>2, CallerTypes
<1>3. CASE RunnerStep
  BY <1>3, ReadingTypes, WritingTypes, AskingTypes, AnswerTypes DEF RunnerStep
<1>4. CASE EngineStep
  BY <1>4, EngineTypes
<1> QED
  BY <1>1, <1>2, <1>3, <1>4 DEF Next

\* TypeOK is an invariant: every variable of the caller, the runner and the engine
\* keeps its type, whatever the scripts and bounds.
THEOREM DriveTypeCorrect == Spec => []TypeOK
<1> QED
  BY InitType, TypeStep, PTL DEF Spec

-----------------------------------------------------------------------------
(* What a passed drive stands for.                                         *)

\* Where the caller is when the runner is where it is.
Staged ==
    /\ drive \in { "idle", "ready" } => pc = "absent"
    /\ drive \in { "closing", "clearing", "settled" } => pc \in { "absent", "dead" }
    /\ verdict = "passed" => pc = "dead" /\ drive \in { "closing", "clearing", "settled" }

\* Nothing that has been read or reported tells of a completion that did not happen.
TrueToEngine ==
    /\ "envelope" \in DOMAIN got /\ got.envelope.mode = Final => engine.envelope.mode = Final
    /\ seen.envelope.mode = Final => engine.envelope.mode = Final
    /\ drive # "idle" /\ report.envelope.mode = Final => engine.envelope.mode = Final

\* Nothing has been read or written before the engine is booted.
FreshStart ==
    pc \in { "absent", "booting" } =>
        /\ got = << >> /\ seen.envelope.mode # Final
        /\ drive # "idle" => report.envelope.mode # Final

\* A runner that broke says so in its report.
BrokenSaysSo == exit = "failed" => pc = "dead" /\ (drive = "waiting" => report.error)

Inv == TypeOK /\ Staged /\ TrueToEngine /\ FreshStart /\ BrokenSaysSo /\ PassedMeansDriven

LEMMA InitInv == Init => Inv
<1> SUFFICES ASSUME Init PROVE Inv
  OBVIOUS
<1>1. TypeOK
  BY InitType
<1>2. NoSession.envelope.mode = None
  BY DEF NoSession
<1> QED
  BY <1>1, <1>2
     DEF Init, Inv, Staged, TrueToEngine, FreshStart, BrokenSaysSo, PassedMeansDriven

LEMMA CallerKeepsInv == ASSUME Inv, TypeOK', Caller \/ Kill PROVE Inv'
<1> USE DEF Inv, Staged, TrueToEngine, FreshStart, BrokenSaysSo, PassedMeansDriven
<1>1. CASE Setup
  BY <1>1, ReportTypes DEF Setup, reading
<1>2. CASE Spawn
  BY <1>2 DEF Spawn, reading
<1>3. CASE Kill
  BY <1>3 DEF Kill, Runs, reading, parent
<1>4. CASE Judge
  <2>1. verdict' = "passed" => /\ report.envelope.mode = Final /\ proxy.hits >= 1 /\ ~report.error
    BY <1>4 DEF Judge, GatePasses
  <2> QED
    BY <1>4, <2>1 DEF Judge, reading
<1>5. CASE CloseProxy
  BY <1>5 DEF CloseProxy, reading, TypeOK
<1>6. CASE RemoveDirectory
  BY <1>6, ReportTypes DEF RemoveDirectory, reading
<1> QED
  BY <1>1, <1>2, <1>3, <1>4, <1>5, <1>6 DEF Caller

LEMMA RunnerKeepsInv == ASSUME Inv, TypeOK', RunnerStep PROVE Inv'
<1> USE DEF Inv, Staged, TrueToEngine, FreshStart, BrokenSaysSo, PassedMeansDriven
<1>0. DOMAIN << >> = {}
  OBVIOUS
<1>1. CASE Boot
  BY <1>0, <1>1 DEF Boot, parent
<1>2. CASE Deadline \/ PollAgain \/ ReadFails \/ Check
  BY <1>0, <1>2 DEF Deadline, PollAgain, ReadFails, Check, Runs, reading, parent
<1>3. CASE Crash
  BY <1>3, ReportTypes DEF Crash, Break, Runs, reading, parent
<1>4. ASSUME NEW part \in Parts, Get(part) PROVE Inv'
  <2>1. "envelope" \in DOMAIN got' => got'.envelope \in { engine.envelope, got.envelope }
        /\ ("envelope" \in DOMAIN got \/ got'.envelope = engine.envelope)
    BY <1>4 DEF Get
  <2> QED
    BY <1>4, <2>1 DEF Get, parent
<1>5. CASE StateRead
  BY <1>0, <1>5 DEF StateRead, State, Parts, parent
<1>6. CASE Harvest \/ StartReport
  BY <1>6, ReportTypes DEF Harvest, StartReport, reading, parent
<1>7. CASE FinishReport
  <2>1. report'.envelope = seen.envelope
    BY <1>7 DEF FinishReport, Report, TypeOK, Sessions
  <2>2. exit' = "failed" => report'.error
    BY <1>7 DEF FinishReport, Report
  <2> QED
    BY <1>7, <2>1, <2>2 DEF FinishReport, reading, parent
<1>8. CASE SendDecision \/ SendEntry
  BY <1>8 DEF SendDecision, SendEntry, Ask, reading, parent
<1>9. ASSUME NEW kind \in Uploads, PostFile(kind) PROVE Inv'
  BY <1>9 DEF PostFile, Ask, reading, parent
<1>10. CASE Answered \/ SessionOver
  BY <1>0, <1>10 DEF Answered, SessionOver, parent
<1>11. CASE TimesOut
  BY <1>0, <1>11, ReportTypes DEF TimesOut, Break, parent
<1>12. CASE Refused
  BY <1>0, <1>12, ReportTypes DEF Refused, Break, parent
<1> QED
  BY <1>1, <1>2, <1>3, <1>4, <1>5, <1>6, <1>7, <1>8, <1>9, <1>10, <1>11, <1>12 DEF RunnerStep

\* A round leaves a completed session complete and only adds to the hits.
LEMMA EngineMoves ==
    ASSUME TypeOK, EngineStep
    PROVE  /\ engine.envelope.mode = Final => engine'.envelope.mode = Final
           /\ Busy /\ proxy'.hits \in Nat /\ proxy'.hits >= proxy.hits /\ proxy'.open = proxy.open
           /\ UNCHANGED << fixed, parent, report, exit, pc, reading >>
<1>1. ASSUME NEW envelope, NEW world, NEW round, NEW hits \in Nat,
             engine.envelope.mode = Final => envelope.mode = Final,
             Round(envelope, world, round, hits)
      PROVE  /\ engine.envelope.mode = Final => engine'.envelope.mode = Final
             /\ Busy /\ proxy'.hits \in Nat /\ proxy'.hits >= proxy.hits /\ proxy'.open = proxy.open
             /\ UNCHANGED << fixed, parent, report, exit, pc, reading >>
  <2>1. proxy.hits \in Nat /\ proxy'.hits = proxy.hits + hits /\ proxy'.open = proxy.open
    BY <1>1 DEF Round, TypeOK
  <2> QED
    BY <1>1, <2>1 DEF Round
<1>2. CASE Work
  BY <1>1, <1>2 DEF Work
<1>3. CASE Propose
  BY <1>1, <1>3 DEF Propose
<1>4. CASE AppendRecord
  BY <1>1, <1>4 DEF AppendRecord
<1>5. CASE Advance
  <2>1. PICK m \in 1 .. 2, terminal \in BOOLEAN :
            /\ engine.envelope.mode = Modes[m]
            /\ Round([mode |-> Modes[m + 1], terminal |-> terminal],
                     [engine.world EXCEPT !.stubs = (fault = "stubs")],
                     [OtherRound EXCEPT !.act =
                         IF m = 2 THEN IF fault = "batch_finish" THEN "finish_batch" ELSE "finish"
                         ELSE "other"], 1)
    BY <1>5 DEF Advance
  <2>2. engine.envelope.mode # Final
    BY <2>1 DEF Modes
  <2> QED
    BY <1>1, <2>1, <2>2
<1>6. CASE Ingest
  BY <1>1, <1>6 DEF Ingest
<1>7. CASE Land
  BY <1>1, <1>7 DEF Land
<1>8. CASE AnswerEarly \/ Fail
  BY <1>8 DEF AnswerEarly, Fail, TypeOK
<1> QED
  BY <1>2, <1>3, <1>4, <1>5, <1>6, <1>7, <1>8 DEF EngineStep

LEMMA StepInv == Inv /\ [Next]_vars => Inv'
<1> SUFFICES ASSUME Inv, [Next]_vars PROVE Inv'
  OBVIOUS
<1>0. TypeOK'
  BY TypeStep DEF Inv
<1>1. CASE UNCHANGED vars
  BY <1>0, <1>1 DEF vars, Inv, Staged, TrueToEngine, FreshStart, BrokenSaysSo, PassedMeansDriven
<1>2. CASE Caller \/ Kill
  BY <1>0, <1>2, CallerKeepsInv
<1>3. CASE RunnerStep
  BY <1>0, <1>3, RunnerKeepsInv
<1>4. CASE EngineStep
  BY <1>0, <1>4, EngineMoves DEF Busy, fixed, parent, reading,
     Inv, Staged, TrueToEngine, FreshStart, BrokenSaysSo, PassedMeansDriven
<1> QED
  BY <1>1, <1>2, <1>3, <1>4 DEF Next

LEMMA Invariant == Spec => []Inv
BY InitInv, StepInv, PTL DEF Spec

\* PassedMeansDriven is an invariant: a passed drive reached the completion stage in
\* this very session, on an answer of the provider, by a runner that did not break.
THEOREM PassedAlwaysDriven == Spec => []PassedMeansDriven
<1>1. Inv => PassedMeansDriven
  BY DEF Inv
<1> QED
  BY <1>1, Invariant, PTL

-----------------------------------------------------------------------------
(* One verdict.                                                            *)

\* What the caller has decided and what it holds, by where it is.
Held ==
    /\ drive = "idle" => verdict = None /\ ~proxy.open
    /\ drive \in { "ready", "waiting" } => verdict = None /\ proxy.open
    /\ drive = "closing" => verdict # None /\ proxy.open
    /\ drive \in { "clearing", "settled" } => verdict # None /\ ~proxy.open

LEMMA StepHeld ==
    ASSUME Inv, Held, [Next]_vars
    PROVE  Held' /\ [Verification!Next]_(Verification!vars)
<1> USE DEF Held, Verification!vars
<1>1. CASE UNCHANGED vars
  BY <1>1 DEF vars
<1>2. CASE Setup
  BY <1>2 DEF Setup, Verification!Next, Verification!Acquire, Verification!GiveUp, Inv, TypeOK
<1>3. CASE Spawn
  BY <1>3 DEF Spawn, Verification!Next, Verification!Conclude
<1>4. CASE Judge
  BY <1>4 DEF Judge, Verification!Next, Verification!Conclude
<1>5. CASE CloseProxy
  BY <1>5 DEF CloseProxy, Verification!Next, Verification!Release, Inv, TypeOK
<1>6. CASE RemoveDirectory
  BY <1>6 DEF RemoveDirectory, Verification!Next, Verification!Return
<1>7. ASSUME UNCHANGED << drive, verdict >>, proxy'.open = proxy.open
      PROVE  Held' /\ UNCHANGED << verdict, proxy.open, drive = "settled" >>
  BY <1>7
<1>8. CASE Kill
  BY <1>7, <1>8 DEF Kill, parent
<1>9. CASE EngineStep
  BY <1>7, <1>9, EngineMoves DEF parent, Inv
<1>10. CASE RunnerStep
  <2>1. UNCHANGED << drive, verdict, proxy >>
    BY <1>10 DEF RunnerStep, Boot, Deadline, Crash, Get, PollAgain, StateRead, ReadFails, Harvest,
       StartReport, FinishReport, Check, SendDecision, PostFile, SendEntry, Answered, SessionOver,
       TimesOut, Refused, parent
  <2> QED
    BY <1>7, <2>1
<1> QED
  BY <1>1, <1>2, <1>3, <1>4, <1>5, <1>6, <1>8, <1>9, <1>10 DEF Next, Caller

\* The safety half of ImplementsOneVerdict: a drive starts where OneVerdict does and
\* each of its steps is one of OneVerdict's or none.
THEOREM DriveGivesOneVerdict ==
    Spec => Verification!Init /\ [][Verification!Next]_(Verification!vars)
<1>1. Init => Held /\ Verification!Init
  BY DEF Init, Held, Verification!Init
<1>2. Inv /\ Held /\ [Next]_vars => Held' /\ [Verification!Next]_(Verification!vars)
  BY StepHeld
<1> QED
  BY <1>1, <1>2, Invariant, PTL DEF Spec
-----------------------------------------------------------------------------
(* Decisions find their items, when no trigger is answered early.          *)

\* A trigger that has not been answered is what the runner waits for, was given up
\* at the deadline, or outlived its runner.
Handshake ==
    /\ Len(queue) <= 1
    /\ queue # << >> =>
           \/ pc = "asking" /\ reply = None
           \/ pc \in { "reading", "harvesting", "writing", "flushing" } /\ why = "timeout"
           \/ pc = "dead"
    /\ pc \in { "absent", "booting" } => ask.decision = None /\ why = "loop"
    /\ pc \in { "checking", "deciding", "asking" } => why \in { "loop", "round", "landing" }

\* What the runner goes by is what the engine holds.
Fresh ==
    /\ pc = "reading" /\ why # "timeout" => \A p \in DOMAIN got : got[p] = engine[p]
    /\ pc = "checking" => got = << >>
    /\ pc \in { "checking", "deciding" } => seen = engine
    /\ pc \in { "harvesting", "writing", "flushing" } /\ why \notin { "timeout", "error" } =>
           seen = engine

Prompted == TypeOK /\ Handshake /\ Fresh /\ DecisionFindsItsItem

\* At most one trigger is in the queue.
LEMMA OneInQueue ==
    ASSUME Prompted
    PROVE  /\ queue \in Seq(Asks)
           /\ queue # << >> => Len(queue) = 1 /\ Tail(queue) = << >>
<1>1. queue \in Seq(Asks) /\ Len(queue) <= 1
  BY DEF Prompted, TypeOK, Handshake
<1>2. ASSUME queue # << >>
      PROVE  Len(queue) = 1 /\ Tail(queue) = << >>
  <2>1. Len(queue) = 1
    BY <1>1, <1>2, EmptySeq
  <2>2. Tail(queue) \in Seq(Asks) /\ Len(Tail(queue)) = 0
    BY <1>1, <1>2, <2>1, HeadTailProperties
  <2> QED
    BY <2>1, <2>2, EmptySeq
<1> QED
  BY <1>1, <1>2

\* A round leaves the author's entry in the queue, or nothing.
LEMMA RoundPrompted ==
    ASSUME Prompted, NEW envelope, NEW world, NEW round, NEW hits,
           Round(envelope, world, round, hits)
    PROVE  Handshake' /\ Fresh' /\ DecisionFindsItsItem'
<1>1. Busy /\ Dequeue /\ UNCHANGED << pc, reading, loop >>
  BY DEF Round
<1>2. queue \in Seq(Asks) /\ queue # << >> /\ Len(queue) = 1
  BY <1>1, OneInQueue DEF Busy
<1>3. \/ Len(queue') = 1 /\ DOMAIN queue' = { 1 } /\ queue'[1] = Entry /\ reply' = reply
      \/ queue' = << >>
  BY <1>1, <1>2, EntryType DEF Dequeue
<1>4. Handshake'
  <2>1. Len(queue') <= 1 /\ (queue' # << >> => reply' = reply)
    BY <1>3
  <2>2. UNCHANGED << pc, why, ask >>
    BY <1>1 DEF reading, loop
  <2> QED
    BY <1>2, <2>1, <2>2 DEF Prompted, Handshake
<1>5. Fresh'
  BY <1>1, <1>2 DEF Prompted, Handshake, Fresh, Busy, reading
<1>6. \A n \in DOMAIN queue' : queue'[n].kind = "entry"
  BY <1>3 DEF Entry
<1> QED
  BY <1>4, <1>5, <1>6 DEF DecisionFindsItsItem

LEMMA EnginePrompted ==
    ASSUME ~AnswersEarly, Prompted, EngineStep
    PROVE  Handshake' /\ Fresh' /\ DecisionFindsItsItem'
<1>1. CASE \E envelope, world, round, hits : Round(envelope, world, round, hits)
  BY <1>1, RoundPrompted
<1>2. CASE Work
  BY <1>1, <1>2 DEF Work
<1>3. CASE Propose
  BY <1>1, <1>3 DEF Propose
<1>4. CASE AppendRecord
  BY <1>1, <1>4 DEF AppendRecord
<1>5. CASE Advance
  BY <1>1, <1>5 DEF Advance
<1>6. CASE Ingest
  BY <1>1, <1>6 DEF Ingest
<1>7. CASE Land
  BY <1>1, <1>7 DEF Land
<1>8. CASE Fail
  <2>1. queue' = << >> /\ Len(queue') = 0 /\ DOMAIN queue' = {}
    BY <1>8, OneInQueue DEF Fail, Busy
  <2> QED
    BY <1>8, <2>1
       DEF Fail, Prompted, Handshake, Fresh, DecisionFindsItsItem, reading, loop
<1> QED
  BY <1>2, <1>3, <1>4, <1>5, <1>6, <1>7, <1>8 DEF EngineStep, AnswerEarly

LEMMA AskPrompted ==
    ASSUME Prompted, pc = "deciding", NEW a \in Asks, Ask(a),
           UNCHANGED << reading, engine >>,
           a.kind = "decision" => a.index \in Proposed(engine.world.items)
    PROVE  Handshake' /\ Fresh' /\ DecisionFindsItsItem'
<1>1. queue = << >> /\ why \in { "loop", "round", "landing" }
  BY DEF Prompted, Handshake
<1>2. pc' = "asking" /\ why' = why
  BY DEF Ask, reading
<1>3. \/ queue' = << >> /\ Len(queue') = 0
      \/ queue' = << a >> /\ Len(queue') = 1 /\ reply' = None
  <2>1. CASE late /\ Runner(scripts).races
    BY <1>1, <2>1, EmptySeq DEF Ask
  <2>2. CASE ~(late /\ Runner(scripts).races)
    BY <1>1, <2>2 DEF Ask
  <2> QED
    BY <2>1, <2>2
<1>4. Handshake'
  <2>1. CASE queue' = << >> /\ Len(queue') = 0
    BY <1>1, <1>2, <2>1 DEF Handshake
  <2>2. CASE queue' = << a >> /\ Len(queue') = 1 /\ reply' = None
    BY <1>1, <1>2, <2>2 DEF Handshake
  <2> QED
    BY <1>3, <2>1, <2>2
<1>5. Fresh'
  BY <1>2 DEF Fresh
<1>6. DecisionFindsItsItem'
  BY <1>3 DEF DecisionFindsItsItem
<1> QED
  BY <1>4, <1>5, <1>6

LEMMA DecisionAsked ==
    ASSUME TypeOK, SendDecision
    PROVE  \E a \in Asks : /\ Ask(a) /\ a.kind = "decision"
                           /\ a.index \in Proposed(seen.world.items)
<1>1. PICK i \in Proposed(seen.world.items) :
          Ask([kind |-> "decision", index |-> i,
               decision |-> IF used < Len(Script) THEN Script[used + 1] ELSE "approve"])
  BY DEF SendDecision
<1> DEFINE d == IF used < Len(Script) THEN Script[used + 1] ELSE "approve"
           a == [kind |-> "decision", index |-> i, decision |-> d]
<1>2. i \in Nat
  BY DEF Proposed, TypeOK, Sessions, Worlds
<1>3. d \in Decisions
  BY ScriptAssumption DEF TypeOK, Decisions
<1>4. Ask(a)
  BY <1>1
<1> HIDE DEF d
<1>5. a \in Asks /\ a.kind = "decision" /\ a.index = i
  BY <1>2, <1>3 DEF Asks
<1> HIDE DEF a
<1> QED
  BY <1>1, <1>4, <1>5

LEMMA RunnerPrompted ==
    ASSUME Prompted, RunnerStep
    PROVE  Handshake' /\ Fresh' /\ DecisionFindsItsItem'
<1>0. DOMAIN << >> = {}
  OBVIOUS
<1>1. CASE Boot
  <2>1. queue = << >> /\ UNCHANGED queue /\ Len(queue) = 0
    BY <1>1 DEF Boot, Prompted, Handshake
  <2> QED
    BY <1>0, <1>1, <2>1 DEF Boot, Prompted, Handshake, Fresh, DecisionFindsItsItem, loop
<1>2. CASE Deadline
  BY <1>2 DEF Deadline, Prompted, Handshake, Fresh, DecisionFindsItsItem, loop, reading
<1>3. CASE Crash
  BY <1>3 DEF Crash, Break, Prompted, Handshake, Fresh, DecisionFindsItsItem, loop, reading
<1>4. ASSUME NEW part \in Parts, Get(part)
      PROVE  Handshake' /\ Fresh' /\ DecisionFindsItsItem'
  BY <1>4 DEF Get, Prompted, Handshake, Fresh, DecisionFindsItsItem, loop
<1>5. CASE PollAgain
  BY <1>0, <1>5 DEF PollAgain, Prompted, Handshake, Fresh, DecisionFindsItsItem, loop
<1>6. CASE StateRead
  <2>1. why # "timeout" => State = engine
    BY <1>6 DEF StateRead, State, Prompted, Fresh, TypeOK, Sessions, Parts
  <2>2. Handshake'
    BY <1>6 DEF StateRead, Prompted, Handshake, loop
  <2>3. Fresh'
    BY <1>6, <2>1 DEF StateRead, Fresh
  <2> QED
    BY <1>6, <2>2, <2>3 DEF StateRead, Prompted, DecisionFindsItsItem
<1>7. CASE ReadFails
  BY <1>7 DEF ReadFails, Prompted, Handshake, Fresh, DecisionFindsItsItem, loop, reading
<1>8. CASE Harvest
  BY <1>8 DEF Harvest, Prompted, Handshake, Fresh, DecisionFindsItsItem, loop
<1>9. CASE StartReport \/ FinishReport
  BY <1>9 DEF StartReport, FinishReport, Prompted, Handshake, Fresh, DecisionFindsItsItem,
     loop, reading
<1>10. CASE Check
  BY <1>0, <1>10 DEF Check, Prompted, Handshake, Fresh, DecisionFindsItsItem, loop
<1>11. CASE SendDecision
  <2>1. seen = engine
    BY <1>11 DEF SendDecision, Prompted, Fresh
  <2> QED
    BY <1>11, <2>1, DecisionAsked, AskPrompted DEF SendDecision, Prompted
<1>12. CASE SendEntry
  BY <1>12, EntryType, AskPrompted DEF SendEntry, Entry
<1>13. ASSUME NEW kind \in Uploads, PostFile(kind)
       PROVE  Handshake' /\ Fresh' /\ DecisionFindsItsItem'
  <2> DEFINE a == [kind |-> kind, index |-> 0, decision |-> None]
  <2>1. a \in Asks /\ a.kind # "decision"
    BY DEF Asks, AskKinds, Uploads
  <2>2. CASE fault = AcceptedFact(kind)
    BY <1>13, <2>2 DEF PostFile, Prompted, Handshake, Fresh, DecisionFindsItsItem, reading
  <2>3. CASE fault # AcceptedFact(kind)
    <3>1. Ask(a) /\ pc = "deciding" /\ UNCHANGED << reading, engine >>
      BY <1>13, <2>3 DEF PostFile
    <3> HIDE DEF a
    <3> QED
      BY <2>1, <3>1, AskPrompted
  <2> QED
    BY <2>2, <2>3
<1>14. CASE Answered
  BY <1>0, <1>14 DEF Answered, Prompted, Handshake, Fresh, DecisionFindsItsItem
<1>15. CASE SessionOver
  BY <1>0, <1>15 DEF SessionOver, Prompted, Handshake, Fresh, DecisionFindsItsItem, loop
<1>16. CASE TimesOut
  BY <1>0, <1>16 DEF TimesOut, Break, Prompted, Handshake, Fresh, DecisionFindsItsItem, loop
<1>17. CASE Refused
  BY <1>0, <1>17 DEF Refused, Break, Prompted, Handshake, Fresh, DecisionFindsItsItem, loop
<1> QED
  BY <1>1, <1>2, <1>3, <1>4, <1>5, <1>6, <1>7, <1>8, <1>9, <1>10, <1>11, <1>12, <1>13,
     <1>14, <1>15, <1>16, <1>17 DEF RunnerStep

LEMMA StepPrompted ==
    ASSUME ~AnswersEarly, Inv, Prompted, [Next]_vars
    PROVE  Prompted'
<1>0. TypeOK'
  BY TypeStep DEF Prompted
<1>1. CASE UNCHANGED vars
  BY <1>0, <1>1 DEF vars, Prompted, Handshake, Fresh, DecisionFindsItsItem
<1>2. CASE Caller \/ Kill
  <2>1. /\ UNCHANGED << reading, loop, queue, reply, engine >>
        /\ pc' = pc \/ pc' = "dead" \/ (pc = "absent" /\ pc' = "booting")
    <3>1. CASE Setup \/ Judge \/ CloseProxy \/ RemoveDirectory
      BY <3>1 DEF Setup, Judge, CloseProxy, RemoveDirectory, reading, loop
    <3>2. CASE Spawn
      <4>1. drive = "ready" /\ UNCHANGED << reading, loop, queue, reply, engine >>
            /\ (pc' = pc \/ pc' = "booting")
        BY <3>2 DEF Spawn, reading, loop
      <4> QED
        BY <4>1 DEF Inv, Staged
    <3>3. CASE Kill
      BY <3>3 DEF Kill, reading, loop
    <3> QED
      BY <1>2, <3>1, <3>2, <3>3 DEF Caller
  <2>2. Handshake'
    BY <2>1 DEF Prompted, Handshake, reading, loop
  <2>3. Fresh' /\ DecisionFindsItsItem'
    BY <2>1 DEF Prompted, Fresh, DecisionFindsItsItem, reading
  <2> QED
    BY <1>0, <2>2, <2>3 DEF Prompted
<1>3. CASE RunnerStep
  BY <1>0, <1>3, RunnerPrompted DEF Prompted
<1>4. CASE EngineStep
  BY <1>0, <1>4, EnginePrompted DEF Prompted
<1> QED
  BY <1>1, <1>2, <1>3, <1>4 DEF Next

LEMMA InitPrompted == Init => Prompted
<1> SUFFICES ASSUME Init PROVE Prompted
  OBVIOUS
<1>1. TypeOK
  BY InitType
<1>2. Handshake
  BY DEF Init, Handshake, Entry
<1> QED
  BY <1>1, <1>2 DEF Init, Prompted, Fresh, DecisionFindsItsItem

\* DecisionFindsItsItem is an invariant where triggers are answered when their rounds
\* are done: a decision that the engine has not taken is for an item that is still
\* proposed, whatever the program, the provider and the deadline do.
THEOREM DecisionsFindTheirItems ==
    ASSUME ~AnswersEarly
    PROVE  Spec => []DecisionFindsItsItem
<1>1. Inv /\ Prompted /\ [Next]_vars => Prompted'
  BY StepPrompted
<1>2. Prompted => DecisionFindsItsItem
  BY DEF Prompted
<1> QED
  BY <1>1, <1>2, InitPrompted, Invariant, PTL DEF Spec
-----------------------------------------------------------------------------
(* Only sound programs pass, when no trigger is answered early.            *)

\* No payload is part of another: a replacement shows in a field of its own.
ValuesApart == \A v, w \in Values : v \subseteq w => v = w

\* The elements of a store that keeps the first are those of each key's first append.
FirstOnly(collection, rounds) ==
    /\ KeysOf(rounds) = { collection[n].key : n \in DOMAIN collection }
    /\ \A n \in DOMAIN collection : \E c \in CallsOf(rounds, collection[n].key) :
           /\ collection[n].value = rounds[c].value
           /\ \A m \in CallsOf(rounds, collection[n].key) : c <= m

\* A broken program shows it in every state of its session.
Shows(mode, world, rounds) ==
    /\ \A n \in Appends(rounds) : rounds[n].value \in Values
    /\ fault \notin world.facts
    /\ fault = "stubs" /\ mode = Final => world.stubs
    /\ fault = "drops_appends" => world.collection = << >>
    /\ fault = "appends_duplicates" => Len(world.collection) = Cardinality(Appends(rounds))
    /\ fault = "keeps_first" => FirstOnly(world.collection, rounds)
    /\ fault = "batch_append" => KeysOf(rounds) \subseteq { None }
    /\ fault = "batch_finish" => \A n \in DOMAIN rounds : rounds[n].act # "finish"

\* Where decisions are ignored, an item stays proposed once it is.
Ignored(hist) ==
    fault = "ignores_decisions" =>
        \A n \in DOMAIN hist : hist[n].decision # None => hist[n].index \in Proposed(hist[n].items)

EngineTells ==
    /\ Shows(engine.envelope.mode, engine.world, engine.rounds)
    /\ fault = "ignores_decisions" /\ ask.decision # None => ask.index \in Proposed(engine.world.items)
RunnerTells ==
    /\ Ignored(history)
    /\ fault \notin exported
    /\ \A kind \in accepted : fault # AcceptedFact(kind)

\* So does the report of a drive that may pass.
ReportTells ==
    drive # "idle" /\ report.envelope.mode = Final /\ ~report.error =>
        /\ Shows(report.envelope.mode, report.world, report.rounds)
        /\ Ignored(report.history)
        /\ fault \notin report.exported

Sound == EngineTells /\ RunnerTells /\ ReportTells /\ PassedMeansSound

\* A fault is of a script of the drive, and of no other kind.
LEMMA FaultKinds ==
    ASSUME TypeOK, fault # None
    PROVE  \/ fault = "stubs"
           \/ "delegation" \in scripts /\ fault \in DelegationFacts
           \/ "upload" \in scripts /\ fault \in UploadFacts
           \/ "extraction" \in scripts /\ fault \in ExtractionFacts
           \/ "export" \in scripts /\ fault \in ExportFacts
           \/ "confirmation" \in scripts /\ fault = "ignores_decisions"
           \/ /\ "keyed" \in scripts
              /\ fault \in { "appends_duplicates", "keeps_first", "drops_appends",
                             "batch_append", "batch_finish" }
BY DEF TypeOK, FaultsOf

\* What a round adds to the appends.
LEMMA OtherAppends ==
    ASSUME NEW rounds \in Rounds, NEW r, r.act # "append"
    PROVE  /\ Appends(Append(rounds, r)) = Appends(rounds)
           /\ KeysOf(Append(rounds, r)) = KeysOf(rounds)
           /\ \A k : CallsOf(Append(rounds, r), k) = CallsOf(rounds, k)
           /\ \A n \in Appends(rounds) : Append(rounds, r)[n] = rounds[n]
<1>1. /\ DOMAIN Append(rounds, r) = DOMAIN rounds \cup { Len(rounds) + 1 }
      /\ \A n \in DOMAIN rounds : Append(rounds, r)[n] = rounds[n]
      /\ Append(rounds, r)[Len(rounds) + 1] = r
      /\ Len(rounds) + 1 \notin DOMAIN rounds
  BY DEF Rounds
<1> DEFINE more == Append(rounds, r)
<1> HIDE DEF more
<1>2. Appends(more) = Appends(rounds)
  BY <1>1 DEF Appends, more
<1>3. \A n \in Appends(rounds) : more[n] = rounds[n]
  BY <1>1 DEF Appends, more
<1>4. KeysOf(more) = KeysOf(rounds) /\ \A k : CallsOf(more, k) = CallsOf(rounds, k)
  BY <1>2, <1>3 DEF KeysOf, CallsOf
<1> QED
  BY <1>2, <1>3, <1>4 DEF more

LEMMA MoreAppends ==
    ASSUME NEW rounds \in Rounds, NEW r, r.act = "append"
    PROVE  /\ Appends(Append(rounds, r)) = Appends(rounds) \cup { Len(rounds) + 1 }
           /\ Len(rounds) + 1 \notin Appends(rounds)
           /\ KeysOf(Append(rounds, r)) = KeysOf(rounds) \cup { r.key }
           /\ \A k : CallsOf(Append(rounds, r), k) =
                         IF k = r.key THEN CallsOf(rounds, k) \cup { Len(rounds) + 1 }
                                      ELSE CallsOf(rounds, k)
           /\ \A n \in Appends(rounds) : Append(rounds, r)[n] = rounds[n] /\ n <= Len(rounds)
           /\ Append(rounds, r)[Len(rounds) + 1] = r
<1>1. /\ DOMAIN Append(rounds, r) = DOMAIN rounds \cup { Len(rounds) + 1 }
      /\ \A n \in DOMAIN rounds : Append(rounds, r)[n] = rounds[n] /\ n <= Len(rounds)
      /\ Append(rounds, r)[Len(rounds) + 1] = r
      /\ Len(rounds) + 1 \notin DOMAIN rounds
  BY DEF Rounds
<1> DEFINE more == Append(rounds, r)
           last == Len(rounds) + 1
<1> HIDE DEF more, last
<1>2. Appends(more) = Appends(rounds) \cup { last } /\ last \notin Appends(rounds)
  BY <1>1 DEF Appends, more, last
<1>3. \A n \in Appends(rounds) : more[n] = rounds[n] /\ n <= Len(rounds)
  BY <1>1 DEF Appends, more
<1>4. more[last] = r
  BY <1>1 DEF more, last
<1>5. KeysOf(more) = KeysOf(rounds) \cup { r.key }
  BY <1>2, <1>3, <1>4 DEF KeysOf
<1>6. \A k : CallsOf(more, k) = IF k = r.key THEN CallsOf(rounds, k) \cup { last }
                                             ELSE CallsOf(rounds, k)
  BY <1>2, <1>3, <1>4 DEF CallsOf
<1> QED
  BY <1>2, <1>3, <1>4, <1>5, <1>6 DEF more, last

\* The appends of a session are finitely many, and so are their keys.
LEMMA AppendsFinite ==
    ASSUME NEW rounds \in Rounds
    PROVE  /\ IsFiniteSet(Appends(rounds)) /\ Cardinality(Appends(rounds)) \in Nat
           /\ \A k : IsFiniteSet(CallsOf(rounds, k))
<1>1. DOMAIN rounds = 1 .. Len(rounds) /\ Len(rounds) \in Nat
  BY DEF Rounds
<1>2. IsFiniteSet(1 .. Len(rounds))
  BY <1>1, FS_Interval
<1>3. Appends(rounds) \subseteq 1 .. Len(rounds)
  BY <1>1 DEF Appends
<1>4. IsFiniteSet(Appends(rounds))
  BY <1>2, <1>3, FS_Subset
<1>5. \A k : CallsOf(rounds, k) \subseteq Appends(rounds)
  BY DEF CallsOf
<1> QED
  BY <1>4, <1>5, FS_Subset, FS_CardinalityType

\* A round that does not append shows what the session showed.
LEMMA OtherShows ==
    ASSUME TypeOK, EngineTells, NEW r, r.act # "append",
           fault = "batch_finish" => r.act # "finish",
           NEW mode, NEW world,
           world.collection = engine.world.collection,
           fault \notin world.facts,
           fault = "stubs" /\ mode = Final => world.stubs
    PROVE  Shows(mode, world, Append(engine.rounds, r))
<1>0. engine.rounds \in Rounds
  BY DEF TypeOK, Sessions
<1> DEFINE rounds == engine.rounds
           more == Append(rounds, r)
<1>1. /\ Appends(more) = Appends(rounds) /\ KeysOf(more) = KeysOf(rounds)
      /\ \A k : CallsOf(more, k) = CallsOf(rounds, k)
      /\ \A n \in Appends(rounds) : more[n] = rounds[n]
  BY <1>0, OtherAppends
<1>2. /\ DOMAIN more = DOMAIN rounds \cup { Len(rounds) + 1 }
      /\ \A n \in DOMAIN rounds : more[n] = rounds[n]
      /\ more[Len(rounds) + 1] = r
  BY <1>0 DEF Rounds
<1> HIDE DEF more
<1>3. Shows(engine.envelope.mode, engine.world, rounds)
  BY DEF EngineTells
<1>4. fault = "keeps_first" => FirstOnly(world.collection, more)
  <2>1. \A k : CallsOf(rounds, k) \subseteq Appends(rounds)
    BY DEF CallsOf
  <2> QED
    BY <1>1, <1>3, <2>1 DEF Shows, FirstOnly
<1>5. fault = "batch_finish" => \A n \in DOMAIN more : more[n].act # "finish"
  BY <1>2, <1>3 DEF Shows
<1>6. \A n \in Appends(more) : more[n].value \in Values
  BY <1>1, <1>3 DEF Shows
<1>7. Shows(mode, world, more)
  BY <1>1, <1>3, <1>4, <1>5, <1>6 DEF Shows
<1> QED
  BY <1>7 DEF more

\* An append of a broken store shows, too.
LEMMA AppendShows ==
    ASSUME TypeOK, EngineTells, engine.envelope.mode # Final,
           NEW k \in Keys, NEW v \in Values, NEW r, NEW world,
           r.act = "append", r.value = v,
           r.key = IF fault = "batch_append" THEN None ELSE k,
           world.collection = Stored(engine.world.collection, k, v),
           world.facts = engine.world.facts
    PROVE  Shows(engine.envelope.mode, world, Append(engine.rounds, r))
<1> DEFINE rounds == engine.rounds
           more == Append(rounds, r)
           before_ == engine.world.collection
           after == world.collection
           last == Len(rounds) + 1
<1>0. /\ rounds \in Rounds /\ Len(rounds) \in Nat
      /\ before_ \in Seq([key : Keys, value : Values])
  BY DEF TypeOK, Sessions, Worlds, Rounds
<1>1. /\ Appends(more) = Appends(rounds) \cup { last } /\ last \notin Appends(rounds)
      /\ KeysOf(more) = KeysOf(rounds) \cup { r.key }
      /\ \A j : CallsOf(more, j) = IF j = r.key THEN CallsOf(rounds, j) \cup { last }
                                               ELSE CallsOf(rounds, j)
      /\ \A n \in Appends(rounds) : more[n] = rounds[n] /\ n <= Len(rounds)
      /\ more[last] = r
  <2> HIDE DEF rounds
  <2> QED
    BY <1>0, MoreAppends
<1>2. DOMAIN more = DOMAIN rounds \cup { last } /\ \A n \in DOMAIN rounds : more[n] = rounds[n]
  BY <1>0 DEF Rounds
<1>3. Shows(engine.envelope.mode, engine.world, rounds)
  BY DEF EngineTells
<1>4. after = Stored(before_, k, v) /\ r.act = "append" /\ r.value = v
      /\ r.key = IF fault = "batch_append" THEN None ELSE k
  OBVIOUS
<1> HIDE DEF more, rounds, before_, after
<1>5. fault = "drops_appends" => after = << >>
  BY <1>3, <1>4 DEF Shows, Stored, before_
<1>6. fault = "appends_duplicates" => Len(after) = Cardinality(Appends(more))
  <2> SUFFICES ASSUME fault = "appends_duplicates"
               PROVE  Len(after) = Cardinality(Appends(more))
    OBVIOUS
  <2>1. after = Append(before_, [key |-> k, value |-> v])
    BY <1>4 DEF Stored
  <2>2. Len(after) = Len(before_) + 1
    BY <1>0, <2>1
  <2>3. Len(before_) = Cardinality(Appends(rounds))
    BY <1>3 DEF Shows, before_
  <2>4. Cardinality(Appends(more)) = Cardinality(Appends(rounds)) + 1
    <3>1. IsFiniteSet(Appends(rounds))
      BY <1>0, AppendsFinite
    <3> HIDE DEF last
    <3> QED
      BY <1>1, <3>1, FS_AddElement
  <2> QED
    BY <2>2, <2>3, <2>4
<1>7. fault = "keeps_first" => FirstOnly(after, more)
  <2> SUFFICES ASSUME fault = "keeps_first"
               PROVE  FirstOnly(after, more)
    OBVIOUS
  <2>0. r.key = k
    BY <1>4
  <2>1. FirstOnly(before_, rounds)
    BY <1>3 DEF Shows, before_
  <2>2. \A j : CallsOf(rounds, j) \subseteq Appends(rounds)
    BY DEF CallsOf
  <2>3. CASE \E n \in DOMAIN before_ : before_[n].key = k
    <3>1. after = before_
      BY <1>4, <2>3 DEF Stored
    <3>2. KeysOf(more) = { after[n].key : n \in DOMAIN after }
      BY <1>1, <2>0, <2>1, <2>3, <3>1 DEF FirstOnly
    <3>3. ASSUME NEW n \in DOMAIN after
          PROVE  \E c \in CallsOf(more, after[n].key) :
                    /\ after[n].value = more[c].value
                    /\ \A m \in CallsOf(more, after[n].key) : c <= m
      <4>1. PICK c \in CallsOf(rounds, after[n].key) :
                /\ after[n].value = rounds[c].value
                /\ \A m \in CallsOf(rounds, after[n].key) : c <= m
        BY <2>1, <3>1 DEF FirstOnly
      <4>2. c <= last /\ c \in CallsOf(more, after[n].key) /\ more[c] = rounds[c]
        <5>1. c \in Appends(rounds) /\ c \in Nat
          BY <1>0, <2>2 DEF Appends, Rounds
        <5> QED
          BY <1>0, <1>1, <5>1
      <4> QED
        BY <1>1, <4>1, <4>2
    <3> QED
      BY <3>2, <3>3 DEF FirstOnly
  <2>4. CASE ~\E n \in DOMAIN before_ : before_[n].key = k
    <3> DEFINE x == [key |-> k, value |-> v]
    <3>1. after = Append(before_, x)
      BY <1>4, <2>4 DEF Stored, Upsert
    <3>2. /\ DOMAIN after = DOMAIN before_ \cup { Len(before_) + 1 }
          /\ \A n \in DOMAIN before_ : after[n] = before_[n]
          /\ after[Len(before_) + 1] = x
      BY <1>0, <3>1
    <3>3. k \notin KeysOf(rounds) /\ CallsOf(rounds, k) = {}
      BY <2>1, <2>4 DEF FirstOnly, KeysOf, CallsOf
    <3>4. CallsOf(more, k) = { last }
      BY <1>1, <2>0, <3>3
    <3>5. KeysOf(more) = { after[n].key : n \in DOMAIN after }
      BY <1>1, <2>0, <2>1, <3>2 DEF FirstOnly
    <3>6. ASSUME NEW n \in DOMAIN after
          PROVE  \E c \in CallsOf(more, after[n].key) :
                    /\ after[n].value = more[c].value
                    /\ \A m \in CallsOf(more, after[n].key) : c <= m
      <4>1. CASE n \in DOMAIN before_
        <5>1. PICK c \in CallsOf(rounds, after[n].key) :
                  /\ after[n].value = rounds[c].value
                  /\ \A m \in CallsOf(rounds, after[n].key) : c <= m
          BY <2>1, <3>2, <4>1 DEF FirstOnly
        <5>2. after[n].key # k
          BY <2>4, <3>2, <4>1
        <5>3. CallsOf(more, after[n].key) = CallsOf(rounds, after[n].key)
          BY <1>1, <2>0, <5>2
        <5>4. more[c] = rounds[c]
          BY <1>1, <2>2
        <5> QED
          BY <5>1, <5>3, <5>4
      <4>2. CASE n = Len(before_) + 1
        <5>1. after[n].key = k /\ after[n].value = v
          BY <3>2, <4>2
        <5> QED
          BY <1>0, <1>1, <1>4, <3>4, <5>1
      <4> QED
        BY <3>2, <4>1, <4>2
    <3> QED
      BY <3>5, <3>6 DEF FirstOnly
  <2> QED
    BY <2>3, <2>4
<1>8. fault = "batch_append" => KeysOf(more) \subseteq { None }
  BY <1>1, <1>3, <1>4 DEF Shows
<1>9. fault = "batch_finish" => \A n \in DOMAIN more : more[n].act # "finish"
  BY <1>1, <1>2, <1>3, <1>4 DEF Shows
<1>10. fault \notin world.facts
  BY <1>3 DEF Shows
<1>11. \A n \in Appends(more) : more[n].value \in Values
  BY <1>1, <1>3, <1>4 DEF Shows
<1> QED
  <2>1. Shows(engine.envelope.mode, world, more)
    BY <1>3, <1>5, <1>6, <1>7, <1>8, <1>9, <1>10, <1>11 DEF Shows, after
  <2> QED
    BY <2>1 DEF more, rounds

\* A round of a broken program.
LEMMA RoundTells ==
    ASSUME TypeOK, EngineTells,
           NEW envelope, NEW world, NEW round, NEW hits,
           Round(envelope, world, round, hits),
           Shows(envelope.mode, world, Append(engine.rounds, round)),
           fault = "ignores_decisions" =>
               Proposed(engine.world.items) \subseteq Proposed(world.items)
    PROVE  EngineTells'
<1>1. /\ engine' = [envelope |-> envelope, world |-> world, rounds |-> Append(engine.rounds, round)]
      /\ UNCHANGED << fault, ask >>
  BY DEF Round, fixed, loop
<1>2. /\ engine'.envelope.mode = envelope.mode /\ engine'.world = world
      /\ engine'.rounds = Append(engine.rounds, round)
  BY <1>1
<1>3. Shows(engine'.envelope.mode, engine'.world, engine'.rounds)
  BY <1>2
<1>4. Shows(engine.envelope.mode, engine.world, engine.rounds)'
  BY <1>1, <1>3 DEF Shows
<1> QED
  BY <1>1, <1>2, <1>4 DEF EngineTells

LEMMA EngineStepTells ==
    ASSUME TypeOK, EngineTells, EngineStep
    PROVE  EngineTells'
<1>0. /\ engine.world \in Worlds /\ engine.envelope \in Envelopes /\ OtherRound.act = "other"
      /\ Shows(engine.envelope.mode, engine.world, engine.rounds)
  BY DEF TypeOK, Sessions, OtherRound, EngineTells
<1>1. fault \notin engine.world.facts /\ (fault = "stubs" /\ engine.envelope.mode = Final => engine.world.stubs)
  BY <1>0 DEF Shows
<1>2. CASE Work
  <2> DEFINE ran == "delegation" \in scripts
             stubbed == (fault = "stubs")
             f == engine.world.facts \cup Delivered
             w == [engine.world EXCEPT !.facts = f, !.child = IF ran THEN 1 ELSE 0, !.stubs = stubbed]
  <2>1. Round(engine.envelope, w, OtherRound, IF ran THEN 2 ELSE 1)
        /\ engine.envelope.mode = "host"
    BY <1>2 DEF Work
  <2>2. fault \notin f
    BY <1>1 DEF Delivered
  <2> HIDE DEF f, ran, stubbed
  <2>3. /\ w.facts = f /\ w.collection = engine.world.collection
        /\ w.items = engine.world.items
    BY <1>0 DEF Worlds
  <2> HIDE DEF w
  <2>4. Shows(engine.envelope.mode, w, Append(engine.rounds, OtherRound))
    BY <1>0, <2>1, <2>2, <2>3, OtherShows
  <2> QED
    BY <2>1, <2>3, <2>4, RoundTells
<1>3. ASSUME NEW items, NEW hits,
             Round(engine.envelope, [engine.world EXCEPT !.items = items], OtherRound, hits),
             fault = "ignores_decisions" => Proposed(engine.world.items) \subseteq Proposed(items)
      PROVE  EngineTells'
  <2> DEFINE w == [engine.world EXCEPT !.items = items]
  <2>1. /\ w.facts = engine.world.facts /\ w.collection = engine.world.collection
        /\ w.items = items /\ w.stubs = engine.world.stubs
    BY <1>0 DEF Worlds
  <2>2. Round(engine.envelope, w, OtherRound, hits)
    BY <1>3
  <2> HIDE DEF w
  <2>3. Shows(engine.envelope.mode, w, Append(engine.rounds, OtherRound))
    BY <1>0, <1>1, <2>1, OtherShows
  <2> QED
    BY <1>3, <2>1, <2>2, <2>3, RoundTells
<1>4. CASE Propose
  <2>1. PICK i \in DOMAIN engine.world.items :
            Round(engine.envelope, [engine.world EXCEPT !.items[i] = "proposed"], OtherRound, 1)
    BY <1>4 DEF Propose
  <2> DEFINE items == [engine.world.items EXCEPT ![i] = "proposed"]
  <2>2. [engine.world EXCEPT !.items[i] = "proposed"] = [engine.world EXCEPT !.items = items]
    BY <1>0 DEF Worlds
  <2>3. Proposed(engine.world.items) \subseteq Proposed(items)
    BY DEF Proposed
  <2> HIDE DEF items
  <2> QED
    BY <1>3, <2>1, <2>2, <2>3
<1>5. CASE AppendRecord
  <2>1. PICK k \in Keys, v \in Values :
            Round(engine.envelope,
                  [engine.world EXCEPT !.collection = Stored(engine.world.collection, k, v)],
                  [act |-> "append", key |-> IF fault = "batch_append" THEN None ELSE k, value |-> v],
                  1)
    BY <1>5 DEF AppendRecord
  <2> DEFINE c == Stored(engine.world.collection, k, v)
             w == [engine.world EXCEPT !.collection = c]
             r == [act |-> "append", key |-> IF fault = "batch_append" THEN None ELSE k, value |-> v]
  <2>2. Round(engine.envelope, w, r, 1)
    BY <2>1
  <2>3. engine.envelope.mode # Final
    BY <1>5 DEF AppendRecord
  <2> HIDE DEF c
  <2>4. w.collection = c /\ w.facts = engine.world.facts /\ w.items = engine.world.items
    BY <1>0 DEF Worlds
  <2> HIDE DEF w
  <2>5. Shows(engine.envelope.mode, w, Append(engine.rounds, r))
    BY <2>3, <2>4, AppendShows DEF c
  <2> QED
    BY <2>2, <2>4, <2>5, RoundTells
<1>6. CASE Advance
  <2>1. PICK m \in 1 .. 2, terminal \in BOOLEAN :
            Round([mode |-> Modes[m + 1], terminal |-> terminal],
                  [engine.world EXCEPT !.stubs = (fault = "stubs")],
                  [OtherRound EXCEPT !.act =
                      IF m = 2 THEN IF fault = "batch_finish" THEN "finish_batch" ELSE "finish"
                      ELSE "other"], 1)
    BY <1>6 DEF Advance
  <2> DEFINE stubbed == (fault = "stubs")
             w == [engine.world EXCEPT !.stubs = stubbed]
             act == IF m = 2 THEN IF fault = "batch_finish" THEN "finish_batch" ELSE "finish"
                    ELSE "other"
             r == [OtherRound EXCEPT !.act = act]
             e == [mode |-> Modes[m + 1], terminal |-> terminal]
  <2>2. Round(e, w, r, 1)
    BY <2>1
  <2>3. act # "append" /\ (fault = "batch_finish" => act # "finish")
    OBVIOUS
  <2> HIDE DEF act, e
  <2>4. r.act = act
    BY DEF OtherRound
  <2>5. fault = "stubs" => stubbed
    OBVIOUS
  <2> HIDE DEF stubbed, r
  <2>6. /\ w.facts = engine.world.facts /\ w.collection = engine.world.collection
        /\ w.items = engine.world.items /\ w.stubs = stubbed
    BY <1>0 DEF Worlds
  <2> HIDE DEF w
  <2>7. Shows(e.mode, w, Append(engine.rounds, r))
    BY <1>1, <2>3, <2>4, <2>5, <2>6, OtherShows
  <2> QED
    BY <2>2, <2>6, <2>7, RoundTells
<1>7. CASE Ingest
  <2>1. PICK hits \in 0 .. 1 :
            Round(engine.envelope,
                  [engine.world EXCEPT !.items =
                      IF Proposed(engine.world.items) = {} \/ fault = "ignores_decisions"
                      THEN engine.world.items
                      ELSE [engine.world.items EXCEPT ![FirstProposed(engine.world.items)] =
                              DecisionTable[Head(queue).decision]]],
                  OtherRound, hits)
    BY <1>7 DEF Ingest
  <2> DEFINE items == IF Proposed(engine.world.items) = {} \/ fault = "ignores_decisions"
                      THEN engine.world.items
                      ELSE [engine.world.items EXCEPT ![FirstProposed(engine.world.items)] =
                              DecisionTable[Head(queue).decision]]
  <2>2. Round(engine.envelope, [engine.world EXCEPT !.items = items], OtherRound, hits)
    BY <2>1
  <2>3. fault = "ignores_decisions" => items = engine.world.items
    OBVIOUS
  <2> HIDE DEF items
  <2> QED
    BY <1>3, <2>2, <2>3
<1>8. CASE Land
  <2> DEFINE f == engine.world.facts \cup ({ LandedFact(Head(queue).kind) } \ { fault })
             w == [engine.world EXCEPT !.facts = f]
  <2>1. Round(engine.envelope, w, OtherRound, 0)
    BY <1>8 DEF Land
  <2>2. fault \notin f
    BY <1>1
  <2> HIDE DEF f
  <2>3. /\ w.facts = f /\ w.collection = engine.world.collection
        /\ w.items = engine.world.items /\ w.stubs = engine.world.stubs
    BY <1>0 DEF Worlds
  <2> HIDE DEF w
  <2>4. Shows(engine.envelope.mode, w, Append(engine.rounds, OtherRound))
    BY <1>0, <1>1, <2>2, <2>3, OtherShows
  <2> QED
    BY <2>1, <2>3, <2>4, RoundTells
<1>9. CASE AnswerEarly \/ Fail
  BY <1>9 DEF AnswerEarly, Fail, EngineTells, Shows, fixed, loop
<1> QED
  BY <1>2, <1>4, <1>5, <1>6, <1>7, <1>8, <1>9 DEF EngineStep

\* A runner passes on what its engine shows.
LEMMA RecordedIgnored ==
    ASSUME Prompted, EngineTells, RunnerTells, StateRead
    PROVE  Ignored(history')
<1> SUFFICES ASSUME fault = "ignores_decisions", why \notin { "timeout", "error" }
             PROVE  Ignored(history')
  BY DEF StateRead, RunnerTells, Ignored
<1> DEFINE decision == IF why = "round" THEN ask.decision ELSE None
           s == Snapshot(State, ask.index, decision)
<1>1. history' = Recorded(State, ask.index, decision)
  BY DEF StateRead
<1>2. State = engine
  BY DEF StateRead, State, Prompted, Fresh, TypeOK, Sessions, Parts
<1>3. s.decision # None => s.index \in Proposed(s.items)
  BY <1>2 DEF Snapshot, EngineTells
<1>4. Ignored(history) /\ history \in Seq(Snapshots)
  BY DEF RunnerTells, Prompted, TypeOK
<1>5. Ignored(Append(history, s))
  <2> HIDE DEF s
  <2>1. /\ DOMAIN Append(history, s) = DOMAIN history \cup { Len(history) + 1 }
        /\ \A n \in DOMAIN history : Append(history, s)[n] = history[n]
        /\ Append(history, s)[Len(history) + 1] = s
    BY <1>4
  <2> QED
    BY <1>3, <1>4, <2>1 DEF Ignored
<1>6. history' = history \/ history' = Append(history, s)
  BY <1>1 DEF Recorded
<1> QED
  BY <1>4, <1>5, <1>6

LEMMA FinishTells ==
    ASSUME Prompted, EngineTells, RunnerTells, FinishReport
    PROVE  report'.envelope.mode = Final /\ ~report'.error =>
               /\ Shows(report'.envelope.mode, report'.world, report'.rounds)
               /\ Ignored(report'.history)
               /\ fault \notin report'.exported
<1> DEFINE f == seen.world.facts \cup { AcceptedFact(k) : k \in accepted }
           told == [seen EXCEPT !.world.facts = f]
           err == why \in { "timeout", "error" }
<1>1. report' = Report(told, history, exported, why = "timeout", err)
  BY DEF FinishReport
<1>2. CASE err
  BY <1>1, <1>2 DEF Report
<1>3. CASE ~err
  <2>1. seen = engine /\ seen \in Sessions /\ seen.world \in Worlds
    BY <1>3 DEF FinishReport, Prompted, Fresh, TypeOK, Sessions
  <2>2. fault \notin f
    BY <2>1 DEF EngineTells, Shows, RunnerTells
  <2> HIDE DEF f
  <2>3. /\ told.envelope = seen.envelope /\ told.rounds = seen.rounds
        /\ told.world.facts = f /\ told.world.stubs = seen.world.stubs
        /\ told.world.collection = seen.world.collection
    BY <2>1 DEF Sessions, Worlds
  <2> HIDE DEF told
  <2>4. /\ report'.envelope = told.envelope /\ report'.world = told.world
        /\ report'.rounds = told.rounds /\ report'.history = history
        /\ report'.exported = exported
    BY <1>1 DEF Report
  <2>5. Shows(report'.envelope.mode, report'.world, report'.rounds)
    BY <2>1, <2>2, <2>3, <2>4 DEF EngineTells, Shows
  <2> QED
    BY <2>4, <2>5 DEF RunnerTells
<1> QED
  BY <1>2, <1>3

LEMMA NewShows == Shows("draft", NewSession.world, << >>)
<1>1. NewSession.world.facts = {} /\ NewSession.world.collection = << >>
  BY DEF NewSession, BlankWorld
<1>2. Appends(<< >>) = {} /\ KeysOf(<< >>) = {} /\ DOMAIN << >> = {}
  BY DEF Appends, KeysOf
<1>3. Len(<< >>) = 0 /\ Cardinality({}) = 0
  BY EmptySeq, FS_EmptySet
<1> QED
  BY <1>1, <1>2, <1>3 DEF Shows, FirstOnly

\* Asking leaves a decision on an item that is proposed.
LEMMA AskTells ==
    ASSUME Prompted, EngineTells, SendDecision \/ SendEntry \/ \E kind \in Uploads : PostFile(kind)
    PROVE  EngineTells'
<1>1. UNCHANGED << fault, engine >>
  BY DEF SendDecision, SendEntry, PostFile, fixed
<1>2. ask'.decision # None => \/ ask' = ask
                              \/ ask'.index \in Proposed(engine.world.items)
  <2>1. CASE SendDecision
    <3>1. seen = engine
      BY <2>1 DEF SendDecision, Prompted, Fresh
    <3> QED
      BY <2>1, <3>1, DecisionAsked DEF Prompted, Ask
  <2>2. CASE SendEntry
    BY <2>2 DEF SendEntry, Ask, Entry
  <2>3. ASSUME NEW kind \in Uploads, PostFile(kind)
        PROVE  ask' = ask \/ ask'.decision = None
    BY <2>3 DEF PostFile, Ask
  <2> QED
    BY <2>1, <2>2, <2>3
<1> QED
  BY <1>1, <1>2 DEF EngineTells, Shows

LEMMA RunnerStepSound ==
    ASSUME Prompted, Sound, RunnerStep
    PROVE  Sound'
<1>0. /\ UNCHANGED << fault, scripts, drive, verdict >>
      /\ EngineTells /\ RunnerTells /\ ReportTells
  BY DEF RunnerStep, Boot, Deadline, Crash, Get, PollAgain, StateRead, ReadFails, Harvest,
     StartReport, FinishReport, Check, SendDecision, PostFile, SendEntry, Answered, SessionOver,
     TimesOut, Refused, fixed, parent, Sound
<1>1. PassedMeansSound'
  BY <1>0 DEF Sound, PassedMeansSound
<1>2. EngineTells'
  <2>1. CASE Boot
    <3>1. /\ NewSession.envelope.mode = "draft" /\ NewSession.rounds = << >>
      BY DEF NewSession
    <3>2. engine' = NewSession /\ ask' = ask /\ ask.decision = None
      BY <2>1 DEF Boot, loop, Prompted, Handshake
    <3> QED
      BY <1>0, <3>1, <3>2, NewShows DEF EngineTells, Shows
  <2>2. CASE SendDecision \/ SendEntry \/ \E kind \in Uploads : PostFile(kind)
    BY <1>0, <2>2, AskTells
  <2>3. CASE UNCHANGED << engine, ask >>
    BY <1>0, <2>3 DEF EngineTells, Shows
  <2>4. \/ Boot \/ SendDecision \/ SendEntry \/ (\E kind \in Uploads : PostFile(kind))
        \/ UNCHANGED << engine, ask >>
    BY DEF RunnerStep, Deadline, Crash, Get, PollAgain, StateRead, ReadFails, Harvest,
     StartReport, FinishReport, Check, Answered, SessionOver, TimesOut, Refused, loop
  <2> QED
    BY <2>1, <2>2, <2>3, <2>4
<1>3. RunnerTells'
  <2>1. CASE StateRead
    BY <1>0, <2>1, RecordedIgnored DEF StateRead, RunnerTells, Ignored, loop
  <2>2. CASE Harvest
    <3>1. fault \notin exported'
      BY <1>0, <2>2 DEF Harvest, EngineTells, Shows
    <3> QED
      BY <1>0, <2>2, <3>1 DEF Harvest, RunnerTells, Ignored, loop
  <2>3. ASSUME NEW kind \in Uploads, PostFile(kind)
        PROVE  RunnerTells'
    BY <1>0, <2>3 DEF PostFile, RunnerTells, Ignored, reading
  <2>4. CASE UNCHANGED << history, exported, accepted >>
    BY <1>0, <2>4 DEF RunnerTells, Ignored
  <2>5. \/ StateRead \/ Harvest \/ (\E kind \in Uploads : PostFile(kind))
        \/ UNCHANGED << history, exported, accepted >>
    BY DEF RunnerStep, Boot, Deadline, Crash, Get, PollAgain, ReadFails, StartReport,
       FinishReport, Check, SendDecision, SendEntry, Answered, SessionOver, TimesOut, Refused,
       reading, loop
  <2> QED
    BY <2>1, <2>2, <2>3, <2>4, <2>5
<1>4. ReportTells'
  <2>1. CASE FinishReport
    <3>1. report'.envelope.mode = Final /\ ~report'.error =>
               /\ Shows(report'.envelope.mode, report'.world, report'.rounds)
               /\ Ignored(report'.history)
               /\ fault \notin report'.exported
      BY <1>0, <2>1, FinishTells
    <3> QED
      BY <1>0, <3>1 DEF ReportTells, Shows, Ignored
  <2>2. CASE UNCHANGED report
    BY <1>0, <2>2 DEF ReportTells, Shows, Ignored
  <2>3. CASE report' = BareReport \/ report' = NoReport
    BY <2>3, ReportTypes DEF ReportTells
  <2>4. FinishReport \/ UNCHANGED report \/ report' = BareReport \/ report' = NoReport
    BY DEF RunnerStep, Boot, Deadline, Crash, Get, PollAgain, StateRead, ReadFails, Harvest,
       StartReport, Check, SendDecision, PostFile, SendEntry, Answered, SessionOver, TimesOut,
       Refused, Break
  <2> QED
    BY <2>1, <2>2, <2>3, <2>4
<1> QED
  BY <1>1, <1>2, <1>3, <1>4 DEF Sound

\* A set of numbers that is not empty has a least one, and a greatest if it is bounded.
LEMMA LeastAndGreatest ==
    ASSUME NEW S, S \subseteq Nat, S # {}
    PROVE  /\ \E j \in S : \A k \in S : j <= k
           /\ \A b \in Nat : (\A k \in S : k <= b) => \E j \in S : \A k \in S : j >= k
<1> DEFINE less == OpToRel(<, Nat)
<1>1. \A j, k \in Nat : j < k => << j, k >> \in less
  BY DEF OpToRel
<1>2. IsWellFoundedOn(less, Nat)
  BY NatLessThanWellFounded
<1> HIDE DEF less
<1>3. ASSUME NEW T, T \subseteq Nat, T # {}
      PROVE  \E j \in T : \A k \in T : j <= k
  <2>1. PICK j \in T : \A k \in T : ~ (<< k, j >> \in less)
    BY <1>2, <1>3, WFMin
  <2>2. ASSUME NEW k \in T PROVE j <= k
    <3>1. ~ (k < j)
      BY <1>1, <1>3, <2>1
    <3> QED
      BY <1>3, <3>1
  <2> QED
    BY <2>2
<1>4. ASSUME NEW b \in Nat, \A k \in S : k <= b
      PROVE  \E j \in S : \A k \in S : j >= k
  <2> DEFINE T == { c \in Nat : \A k \in S : k <= c }
  <2>1. b \in T
    BY <1>4
  <2>2. PICK c \in T : \A d \in T : c <= d
    BY <1>3, <2>1
  <2>3. c \in S
    <3> SUFFICES ASSUME c \notin S PROVE FALSE
      OBVIOUS
    <3>1. \A k \in S : k <= c - 1
      BY <2>2
    <3>2. c - 1 \in Nat
      <4>1. PICK k \in S : k \in Nat
        OBVIOUS
      <4> QED
        BY <2>2, <3>1, <4>1
    <3> QED
      BY <2>2, <3>1, <3>2
  <2> QED
    BY <2>2, <2>3
<1> QED
  BY <1>3, <1>4

\* What a key's first and last appends are.
LEMMA FirstAndLast ==
    ASSUME NEW rounds \in Rounds, NEW k \in KeysOf(rounds)
    PROVE  /\ \E c \in CallsOf(rounds, k) : /\ FirstCall(rounds, k) = rounds[c]
                                            /\ \A m \in CallsOf(rounds, k) : c <= m
           /\ \E c \in CallsOf(rounds, k) : LastCall(rounds, k) = rounds[c]
<1> DEFINE S == CallsOf(rounds, k)
<1>1. DOMAIN rounds = 1 .. Len(rounds) /\ Len(rounds) \in Nat
  BY DEF Rounds
<1>2. S \subseteq Nat /\ S # {} /\ \A n \in S : n <= Len(rounds)
  BY <1>1 DEF CallsOf, KeysOf, Appends
<1>3. /\ \E j \in S : \A m \in S : j <= m
      /\ \E j \in S : \A m \in S : j >= m
  BY <1>1, <1>2, LeastAndGreatest
<1> QED
  BY <1>3 DEF FirstCall, LastCall

\* Where a key repeats there are fewer keys than appends.
LEMMA RepeatedIsFewer ==
    ASSUME NEW rounds \in Rounds, Repeated(rounds) # {}
    PROVE  Cardinality(KeysOf(rounds)) # Cardinality(Appends(rounds))
<1> SUFFICES ASSUME Cardinality(KeysOf(rounds)) = Cardinality(Appends(rounds))
             PROVE  FALSE
  OBVIOUS
<1> DEFINE f == [n \in Appends(rounds) |-> rounds[n].key]
<1>1. f \in Surjection(Appends(rounds), KeysOf(rounds))
  BY DEF Surjection, KeysOf
<1>2. f \in Injection(Appends(rounds), KeysOf(rounds))
  <2> HIDE DEF f
  <2> QED
    BY <1>1, AppendsFinite, FS_SurjSameCardinalityImpliesInj
<1>3. \A m, n \in Appends(rounds) : rounds[m].key = rounds[n].key => m = n
  BY <1>2 DEF Injection, IsInjective
<1>4. PICK k : k \in KeysOf(rounds) /\ Cardinality(CallsOf(rounds, k)) >= 2
  BY DEF Repeated
<1>5. PICK c : c \in CallsOf(rounds, k)
  BY <1>4 DEF KeysOf, CallsOf
<1>6. CallsOf(rounds, k) = { c }
  BY <1>3, <1>5 DEF CallsOf
<1> QED
  BY <1>4, <1>6, FS_Singleton

\* A report that shows a broken keyed collection is not taken for an engaged one.
LEMMA KeyedShows ==
    ASSUME ValuesApart, NEW mode, NEW world \in Worlds, NEW rounds \in Rounds, NEW hits,
           Shows(mode, world, rounds), KeyedEngaged(mode, world, rounds, hits)
    PROVE  fault \notin { "appends_duplicates", "keeps_first", "drops_appends",
                          "batch_append", "batch_finish" }
<1>1. /\ None \notin KeysOf(rounds) /\ Repeated(rounds) # {}
      /\ Len(world.collection) >= 1
      /\ Len(world.collection) = Cardinality(KeysOf(rounds))
      /\ Telling(rounds) # {}
      /\ \A k \in Telling(rounds) : Replaced(world.collection, rounds, k)
      /\ "finish" \in { rounds[n].act : n \in DOMAIN rounds }
  BY DEF KeyedEngaged
<1>2. fault # "drops_appends"
  BY <1>1, EmptySeq DEF Shows
<1>3. fault # "appends_duplicates"
  BY <1>1, RepeatedIsFewer DEF Shows
<1>4. fault # "batch_append"
  BY <1>1 DEF Shows, Repeated
<1>5. fault # "batch_finish"
  BY <1>1 DEF Shows
<1>6. ASSUME fault = "keeps_first"
      PROVE  FALSE
  <2>1. PICK k \in Telling(rounds) : k \in KeysOf(rounds)
    BY <1>1 DEF Telling, Repeated
  <2>2. PICK n \in DOMAIN world.collection :
            /\ world.collection[n].key = k
            /\ LastCall(rounds, k).value \subseteq world.collection[n].value
    BY <1>1 DEF Replaced
  <2>3. PICK c \in CallsOf(rounds, k) :
            /\ world.collection[n].value = rounds[c].value
            /\ \A m \in CallsOf(rounds, k) : c <= m
    BY <1>6, <2>2 DEF Shows, FirstOnly
  <2>4. PICK d \in CallsOf(rounds, k) : /\ FirstCall(rounds, k) = rounds[d]
                                        /\ \A m \in CallsOf(rounds, k) : d <= m
    BY <2>1, FirstAndLast
  <2>5. PICK e \in CallsOf(rounds, k) : LastCall(rounds, k) = rounds[e]
    BY <2>1, FirstAndLast
  <2>6. CallsOf(rounds, k) \subseteq Appends(rounds) /\ Appends(rounds) \subseteq Nat
    BY DEF CallsOf, Appends, Rounds
  <2>7. c = d
    BY <2>3, <2>4, <2>6
  <2>8. rounds[c].value \in Values /\ rounds[e].value \in Values
    BY <2>6 DEF Shows
  <2>9. rounds[e].value = rounds[c].value
    BY <2>2, <2>3, <2>5, <2>8 DEF ValuesApart
  <2> QED
    BY <2>1, <2>4, <2>5, <2>7, <2>9 DEF Telling
<1> QED
  BY <1>2, <1>3, <1>4, <1>5, <1>6

\* No decision that was ignored counts as applied.
LEMMA IgnoredFails ==
    ASSUME NEW hist \in Seq(Snapshots), Ignored(hist), ChoreographyHolds(hist, Script)
    PROVE  fault # "ignores_decisions"
<1> SUFFICES ASSUME fault = "ignores_decisions"
             PROVE  FALSE
  OBVIOUS
<1>1. PICK n \in DOMAIN hist : hist[n].decision # None /\ Respects(hist[n])
  BY DEF ChoreographyHolds, Applied
<1>2. hist[n].items[hist[n].index] = "proposed"
  BY <1>1 DEF Ignored, Proposed
<1>3. hist[n].decision \in Decisions
  <2>1. hist[n] \in Snapshots
    BY <1>1
  <2>2. hist[n].decision \in Decisions \cup { None }
    BY <2>1 DEF Snapshots
  <2> QED
    BY <1>1, <2>2
<1>4. \A d \in Decisions : DecisionTable[d] # "proposed"
  BY DEF DecisionTable, Decisions
<1>5. hist[n].items[hist[n].index] = DecisionTable[hist[n].decision]
  BY <1>1 DEF Respects
<1> QED
  BY <1>2, <1>3, <1>4, <1>5

\* The gate takes nothing broken for sound.
LEMMA JudgedSound ==
    ASSUME ValuesApart, TypeOK, ReportTells, drive # "idle", NEW noisy,
           GatePasses(scripts, Script, report, proxy.hits, exit, noisy)
    PROVE  fault = None
<1>1. /\ report.envelope.mode = Final /\ ~report.error
      /\ ~report.world.stubs
      /\ "confirmation" \in scripts => ChoreographyHolds(report.history, Script)
      /\ "delegation" \in scripts => DelegationFacts \subseteq report.world.facts
      /\ "upload" \in scripts => UploadFacts \subseteq report.world.facts
      /\ "extraction" \in scripts => ExtractionFacts \subseteq report.world.facts
      /\ "export" \in scripts => ExportFacts \subseteq report.exported
  BY DEF GatePasses, DelegationEngaged, UploadEngaged, ExtractionEngaged, ExportEngaged
<1>2. "keyed" \in scripts =>
          KeyedEngaged(report.envelope.mode, report.world, report.rounds, proxy.hits)
  BY DEF GatePasses
<1>3. /\ Shows(report.envelope.mode, report.world, report.rounds)
      /\ Ignored(report.history)
      /\ fault \notin report.exported
  BY <1>1 DEF ReportTells
<1>4. report.world \in Worlds /\ report.rounds \in Rounds /\ report.history \in Seq(Snapshots)
  BY DEF TypeOK, Reports
<1>5. fault # "stubs"
  BY <1>1, <1>3 DEF Shows
<1>6. /\ "delegation" \in scripts => fault \notin DelegationFacts
      /\ "upload" \in scripts => fault \notin UploadFacts
      /\ "extraction" \in scripts => fault \notin ExtractionFacts
      /\ "export" \in scripts => fault \notin ExportFacts
  BY <1>1, <1>3 DEF Shows
<1>7. "confirmation" \in scripts => fault # "ignores_decisions"
  BY <1>1, <1>3, <1>4, IgnoredFails
<1>8. "keyed" \in scripts => fault \notin { "appends_duplicates", "keeps_first", "drops_appends",
                                            "batch_append", "batch_finish" }
  BY <1>2, <1>3, <1>4, KeyedShows
<1> QED
  BY <1>5, <1>6, <1>7, <1>8, FaultKinds

LEMMA StepSound ==
    ASSUME ~AnswersEarly, ValuesApart, Prompted, Sound, [Next]_vars
    PROVE  Sound'
<1>0. EngineTells /\ RunnerTells /\ ReportTells /\ PassedMeansSound
  BY DEF Sound
<1>1. CASE UNCHANGED vars
  BY <1>0, <1>1 DEF vars, fixed, Sound, EngineTells, RunnerTells, ReportTells, PassedMeansSound,
     Shows, Ignored
<1>2. CASE Caller \/ Kill
  <2>1. UNCHANGED << fault, scripts, engine, ask, history, exported, accepted >>
    BY <1>2 DEF Caller, Setup, Spawn, Kill, Judge, CloseProxy, RemoveDirectory, fixed, reading, loop
  <2>2. EngineTells' /\ RunnerTells'
    BY <1>0, <2>1 DEF EngineTells, RunnerTells, Shows, Ignored
  <2>3. report' = NoReport \/ (report' = report /\ drive # "idle")
    BY <1>2 DEF Caller, Setup, Spawn, Kill, Judge, CloseProxy, RemoveDirectory
  <2>4. ReportTells'
    BY <1>0, <2>1, <2>3, ReportTypes DEF ReportTells, Shows, Ignored
  <2>5. PassedMeansSound'
    <3>1. CASE Judge
      <4>1. PICK noisy \in BOOLEAN :
                verdict' = IF GatePasses(scripts, Script, report, proxy.hits, exit, noisy)
                           THEN "passed" ELSE "failed"
        BY <3>1 DEF Judge
      <4>2. drive # "idle"
        BY <3>1 DEF Judge
      <4>3. verdict' = "passed" => fault = None
        BY <1>0, <4>1, <4>2, JudgedSound DEF Prompted
      <4> QED
        BY <2>1, <4>3 DEF PassedMeansSound
    <3>2. CASE verdict' = verdict \/ verdict' = "threw"
      BY <1>0, <2>1, <3>2 DEF PassedMeansSound
    <3>3. Judge \/ verdict' = verdict \/ verdict' = "threw"
      BY <1>2 DEF Caller, Setup, Spawn, Kill, CloseProxy, RemoveDirectory, parent
    <3> QED
      BY <3>1, <3>2, <3>3
  <2> QED
    BY <2>2, <2>4, <2>5 DEF Sound
<1>3. CASE RunnerStep
  BY <1>3, RunnerStepSound
<1>4. CASE EngineStep
  <2>1. EngineTells'
    BY <1>0, <1>4, EngineStepTells DEF Prompted
  <2>2. UNCHANGED << fault, drive, verdict, report, history, exported, accepted >>
    BY <1>4 DEF EngineStep, Work, Propose, AppendRecord, Advance, Ingest, Land, AnswerEarly, Fail,
       Round, fixed, parent, reading, loop
  <2> QED
    BY <1>0, <2>1, <2>2 DEF Sound, RunnerTells, ReportTells, PassedMeansSound, Shows, Ignored
<1> QED
  BY <1>1, <1>2, <1>3, <1>4 DEF Next

LEMMA InitSound == Init => Sound
<1> SUFFICES ASSUME Init PROVE Sound
  OBVIOUS
<1>1. NoSession.world = BlankWorld /\ NoSession.envelope.mode = None /\ NoSession.rounds = << >>
  BY DEF NoSession
<1>2. BlankWorld.facts = {} /\ BlankWorld.collection = << >>
  BY DEF BlankWorld
<1>3. Appends(<< >>) = {} /\ KeysOf(<< >>) = {} /\ DOMAIN << >> = {}
  BY DEF Appends, KeysOf
<1>4. Len(<< >>) = 0 /\ Cardinality({}) = 0
  BY EmptySeq, FS_EmptySet
<1>5. Shows(None, BlankWorld, << >>)
  BY <1>2, <1>3, <1>4 DEF Shows, FirstOnly
<1>6. EngineTells
  BY <1>1, <1>5 DEF Init, EngineTells, Entry
<1> QED
  BY <1>3, <1>6 DEF Init, Sound, RunnerTells, ReportTells, PassedMeansSound, Ignored

\* PassedMeansSound is an invariant where triggers are answered when their rounds are
\* done and no payload is part of another: a drive whose program withholds a fact,
\* emits stubs, ignores decisions or breaks its keyed collection does not pass, for
\* any script, records, bounds and deadline.
THEOREM PassedAlwaysSound ==
    ASSUME ~AnswersEarly, ValuesApart
    PROVE  Spec => []PassedMeansSound
<1>1. Inv /\ Prompted /\ Sound /\ [Next]_vars => Prompted' /\ Sound'
  BY StepPrompted, StepSound
<1>2. Sound => PassedMeansSound
  BY DEF Sound
<1> QED
  BY <1>1, <1>2, InitPrompted, InitSound, Invariant, PTL DEF Spec
=============================================================================
