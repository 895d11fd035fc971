----------------------------- MODULE LiveDrive -----------------------------
(***************************************************************************)
(* A live drive (generated-live-drive.ts): the caller clears a working      *)
(* directory, opens a counting proxy before the provider, spawns a runner   *)
(* with a kill timer and waits for it.  The runner boots the generated      *)
(* program on an engine, reads its state with three concurrent requests,    *)
(* sends triggers until the completion stage is reached, a deadline passes  *)
(* or something breaks, and writes a report.  The caller reads what report  *)
(* there is, draws the verdict and releases the proxy and the directory.    *)
(*                                                                          *)
(* The engine, the provider and the generated program are not of this       *)
(* repository's code under src/ and are modelled by what the runner sees of *)
(* them.  fault is how this generated program is broken, if it is.          *)
(***************************************************************************)
EXTENDS DriveVerdicts

CONSTANTS
    Drives,         \* the sets of scripts a drive may have
    Script,         \* the decisions a confirmation script gives, in order
    Items,          \* how many items the confirmation loop has
    Keys,           \* keys of keyed records
    Values,         \* the payloads of keyed records: sets of fields with their values
    MaxTriggers,    \* options.maxTriggers
    MaxRounds,      \* bound: rounds the engine runs in one drive
    AnswersEarly    \* may a trigger be answered before its round is done?

ASSUME DrivesAssumption == Drives \subseteq SUBSET ScriptNames
ASSUME ScriptAssumption == Script \in Seq(Decisions)
ASSUME BoundsAssumption ==
    /\ Items \in Nat /\ MaxTriggers \in Nat /\ MaxRounds \in Nat
    /\ AnswersEarly \in BOOLEAN
    /\ None \notin Keys

VARIABLES
    scripts,    \* the scripts of this drive
    fault,      \* how the generated program is broken
    drive,      \* where the caller is
    report,     \* report.json
    proxy,      \* [open, hits]: the counting proxy
    verdict,    \* what the caller concluded
    exit,       \* how the runner ended
    late,       \* has the runner's own deadline passed?
    pc,         \* where the runner is
    why,        \* what the runner reads the state for
    got,        \* the answers to the requests of this reading
    seen,       \* the runner's state variable
    exported,   \* what it harvested of the export
    before,     \* the round count it compares with
    triggers,   \* triggers that were answered
    ask,        \* the trigger in flight or last sent
    used,       \* scripted decisions consumed
    history,    \* the status snapshots
    attempted,  \* the uploads that were tried
    accepted,   \* the uploads the engine took
    queue,      \* triggers the engine has not finished
    reply,      \* the answer to the trigger in flight
    engine      \* the session: [envelope, world, rounds]

parent == << drive, verdict >>
loop == << before, triggers, ask, used, attempted, accepted >>
reading == << why, got, seen, exported, history >>
fixed == << scripts, fault >>
vars == << scripts, fault, drive, report, proxy, verdict, exit, late, pc, why, got, seen,
           exported, before, triggers, ask, used, history, attempted, accepted, queue, reply,
           engine >>

Parts == { "envelope", "world", "rounds" }
Modes == << "draft", "host", Final >>
Uploads == { "upload", "extraction" }
AskKinds == { "entry", "decision" } \cup Uploads

\* What a file's upload and its ingestion show.
AcceptedFact(kind) == IF kind = "upload" THEN "upload_accepted" ELSE "fixture_accepted"
LandedFact(kind) == IF kind = "upload" THEN "refs_landed" ELSE "fixture_landed"
FactsOf(kind) == IF kind = "upload" THEN UploadFacts ELSE ExtractionFacts

Entry == [kind |-> "entry", index |-> 0, decision |-> None]

\* How a program can be broken: a fact it does not deliver, stub markers in its
\* outputs, a confirmation loop that ignores decisions, a keyed collection that
\* appends duplicates, keeps the first element or drops the appends, appends by
\* batch, a completion action that still carries the batch.
FaultsOf(s) ==
      { "stubs" }
 \cup (IF "delegation" \in s THEN DelegationFacts ELSE {})
 \cup (IF "upload" \in s THEN UploadFacts ELSE {})
 \cup (IF "extraction" \in s THEN ExtractionFacts ELSE {})
 \cup (IF "export" \in s THEN ExportFacts ELSE {})
 \cup (IF "confirmation" \in s THEN { "ignores_decisions" } ELSE {})
 \cup (IF "keyed" \in s
       THEN { "appends_duplicates", "keeps_first", "drops_appends", "batch_append", "batch_finish" }
       ELSE {})

BlankWorld == [items |-> << >>, facts |-> {}, child |-> 0, stubs |-> FALSE, collection |-> << >>]
NoSession == [envelope |-> [mode |-> None, terminal |-> FALSE], world |-> BlankWorld, rounds |-> << >>]
NewSession == [envelope |-> [mode |-> "draft", terminal |-> FALSE],
               world |-> [BlankWorld EXCEPT !.items = [i \in 1 .. Items |-> "pending"]],
               rounds |-> << >>]

Report(state, hist, exp, islate, err) ==
    [full |-> TRUE, envelope |-> state.envelope, world |-> state.world, rounds |-> state.rounds,
     history |-> hist, exported |-> exp, late |-> islate, error |-> err]

\* What the caller reads when there is no report, or half of one; and the bare
\* report of a runner that broke.
NoReport == [Report(NoSession, << >>, {}, FALSE, FALSE) EXCEPT !.full = FALSE]
BareReport == [NoReport EXCEPT !.error = TRUE]

\* What an earlier drive of another program may have left in the directory.
Leftover ==
    Report([envelope |-> [mode |-> Final, terminal |-> TRUE],
            world |-> [BlankWorld EXCEPT !.facts = DelegationFacts \cup ExtractionFacts, !.child = 1],
            rounds |-> << >>],
           << >>, ExportFacts, FALSE, FALSE)

Init ==
    /\ scripts \in Drives
    /\ fault \in { None } \cup FaultsOf(scripts)
    /\ drive = "idle" /\ verdict = None
    /\ report \in { NoReport, Leftover }
    /\ proxy = [open |-> FALSE, hits |-> 0]
    /\ exit = None /\ late = FALSE
    /\ pc = "absent" /\ why = "loop" /\ got = << >> /\ seen = NoSession
    /\ exported = {} /\ before = 0 /\ triggers = 0 /\ ask = Entry /\ used = 0
    /\ history = << >> /\ attempted = {} /\ accepted = {}
    /\ queue = << >> /\ reply = None /\ engine = NoSession

---------------------------------------------------------------------------
(* The caller.                                                              *)

Runs == pc \notin { "absent", "dead" }

\* Mutant of Setup: the directory of an earlier drive is used as it is.
SetupWithoutClearing ==
    /\ drive = "idle"
    /\ \/ drive' = "ready" /\ proxy' = [proxy EXCEPT !.open = TRUE] /\ verdict' = verdict
       \/ drive' = "settled" /\ proxy' = proxy /\ verdict' = "threw"
    /\ UNCHANGED << fixed, report, exit, late, pc, reading, loop, queue, reply, engine >>

\* The directory is cleared first; then the proxy binds, or the call fails.
Setup ==
    /\ drive = "idle"
    /\ report' = NoReport
    /\ \/ drive' = "ready" /\ proxy' = [proxy EXCEPT !.open = TRUE] /\ verdict' = verdict
       \/ drive' = "settled" /\ proxy' = proxy /\ verdict' = "threw"
    /\ UNCHANGED << fixed, exit, late, pc, reading, loop, queue, reply, engine >>

\* Writing the runner may be refused and spawning it may fail: the error leaves
\* through the finally block.
Spawn ==
    /\ drive = "ready"
    /\ \/ RunnerFor(scripts) # "refused"
          /\ drive' = "waiting" /\ pc' = "booting" /\ verdict' = verdict
       \/ drive' = "closing" /\ pc' = pc /\ verdict' = "threw"
    /\ UNCHANGED << fixed, report, proxy, exit, late, reading, loop, queue, reply, engine >>

\* Mutant of Kill: the timer is armed once the runner has booted, if it does.
KillBooted ==
    /\ drive = "waiting" /\ Runs /\ pc # "booting"
    /\ pc' = "dead" /\ exit' = "killed"
    /\ UNCHANGED << fixed, parent, report, proxy, late, reading, loop, queue, reply, engine >>

\* The timer of driveTimeoutMs, or anything else that ends the process without a
\* word: the runner, and the engine inside it, are gone.
Kill ==
    /\ drive = "waiting" /\ Runs
    /\ pc' = "dead" /\ exit' = "killed"
    /\ UNCHANGED << fixed, parent, report, proxy, late, reading, loop, queue, reply, engine >>

\* The runner has closed: its report and the hits are read and judged at once.
Judge ==
    /\ drive = "waiting" /\ pc = "dead"
    /\ \E noisy \in BOOLEAN :
          verdict' = IF GatePasses(scripts, Script, report, proxy.hits, exit, noisy)
                     THEN "passed" ELSE "failed"
    /\ drive' = "closing"
    /\ UNCHANGED << fixed, report, proxy, exit, late, pc, reading, loop, queue, reply, engine >>

CloseProxy ==
    /\ drive = "closing"
    /\ drive' = "clearing"
    /\ proxy' = [proxy EXCEPT !.open = FALSE]
    /\ UNCHANGED << fixed, verdict, report, exit, late, pc, reading, loop, queue, reply, engine >>

RemoveDirectory ==
    /\ drive = "clearing"
    /\ drive' = "settled"
    /\ report' = NoReport
    /\ UNCHANGED << fixed, verdict, proxy, exit, late, pc, reading, loop, queue, reply, engine >>

---------------------------------------------------------------------------
(* The runner: boot, deadline, and the ways it ends.                        *)

Boot ==
    /\ pc = "booting"
    /\ engine' = NewSession
    /\ pc' = "reading" /\ why' = "loop" /\ got' = << >>
    /\ UNCHANGED << fixed, parent, report, proxy, exit, late, seen, exported, history, loop, queue,
                    reply >>

\* Date.now() has reached DEADLINE.
Deadline ==
    /\ Runs /\ ~late
    /\ late' = TRUE
    /\ UNCHANGED << fixed, parent, report, proxy, exit, pc, reading, loop, queue, reply, engine >>

\* An error nobody handles: main().catch and unhandledRejection write it and exit.
Break ==
    /\ report' = BareReport
    /\ pc' = "dead" /\ exit' = "failed"

Crash ==
    /\ Runs /\ pc # "flushing"
    /\ Break
    /\ UNCHANGED << fixed, parent, proxy, late, reading, loop, queue, reply, engine >>

---------------------------------------------------------------------------
(* The runner: reading the state.                                           *)

\* One of the three requests is answered; the others may see a later state.
Get(part) ==
    /\ pc = "reading" /\ part \notin DOMAIN got
    /\ got' = [p \in DOMAIN got \cup { part } |-> IF p = part THEN engine[part] ELSE got[p]]
    /\ UNCHANGED << fixed, parent, report, proxy, exit, late, pc, why, seen, exported, history,
                    loop, queue, reply, engine >>

Snapshot(state, index, decision) ==
    [round |-> Len(state.rounds), items |-> state.world.items, index |-> index, decision |-> decision]

\* recordStatusSnapshot: a snapshot of the round that was recorded last is dropped,
\* unless it carries a decision.
Recorded(state, index, decision) ==
    IF "confirmation" \notin scripts THEN history
    ELSE IF decision = None /\ history # << >> /\ history[Len(history)].round = Len(state.rounds)
         THEN history
         ELSE Append(history, Snapshot(state, index, decision))

\* waitForRound and waitForRoundOrUploadLanding poll again while this holds.
KeepsWaiting ==
    /\ why \in { "round", "landing" }
    /\ Len(got.rounds) <= before
    /\ ~got.envelope.terminal
    /\ ~(why = "landing" /\ LandedFact(ask.kind) \in got.world.facts)
    /\ ~late

PollAgain ==
    /\ pc = "reading" /\ DOMAIN got = Parts
    /\ KeepsWaiting
    /\ got' = << >>
    /\ UNCHANGED << fixed, parent, report, proxy, exit, late, pc, why, seen, exported, history,
                    loop, queue, reply, engine >>

\* readState: what the three requests brought.
State == [envelope |-> got.envelope, world |-> got.world, rounds |-> got.rounds]

\* Mutant of StateRead: after a decision the runner goes on with the world it has.
StaleStateRead ==
    /\ pc = "reading" /\ DOMAIN got = Parts
    /\ ~KeepsWaiting
    /\ seen' = IF why = "round" /\ ask.kind = "decision"
             THEN [State EXCEPT !.world = seen.world] ELSE State
    /\ history' = IF why \in { "timeout", "error" } THEN history
                  ELSE Recorded(State, ask.index, IF why = "round" THEN ask.decision ELSE None)
    /\ pc' = CASE why \in { "loop", "round", "landing" } -> "checking"
               [] "export" \in scripts -> "harvesting"
               [] OTHER -> "writing"
    /\ got' = << >>
    /\ UNCHANGED << fixed, parent, report, proxy, exit, late, why, exported, loop, queue, reply,
                    engine >>

StateRead ==
    /\ pc = "reading" /\ DOMAIN got = Parts
    /\ ~KeepsWaiting
    /\ seen' = State
    /\ history' = IF why \in { "timeout", "error" } THEN history
                  ELSE Recorded(State, ask.index, IF why = "round" THEN ask.decision ELSE None)
    /\ pc' = CASE why \in { "loop", "round", "landing" } -> "checking"
               [] "export" \in scripts -> "harvesting"
               [] OTHER -> "writing"
    /\ got' = << >>
    /\ UNCHANGED << fixed, parent, report, proxy, exit, late, why, exported, loop, queue, reply,
                    engine >>

\* safeReadState: the report of a broken trigger falls back on the last state.
ReadFails ==
    /\ pc = "reading" /\ why \in { "timeout", "error" }
    /\ pc' = IF "export" \in scripts THEN "harvesting" ELSE "writing"
    /\ UNCHANGED << fixed, parent, report, proxy, exit, late, reading, loop, queue, reply, engine >>

\* exportReportFromArtifacts reads the world once more; on the way out of a timeout
\* a failure of it is part of the report.
Harvest ==
    /\ pc = "harvesting"
    /\ \/ exported' = engine.world.facts \cap ExportFacts
       \/ why \in { "timeout", "error" } /\ exported' = {}
    /\ pc' = "writing"
    /\ UNCHANGED << fixed, parent, report, proxy, exit, late, why, got, seen, history, loop, queue,
                    reply, engine >>

\* writeFileSync: until it is done the file holds no JSON value.
StartReport ==
    /\ pc = "writing"
    /\ report' = NoReport
    /\ pc' = "flushing"
    /\ UNCHANGED << fixed, parent, proxy, exit, late, reading, loop, queue, reply, engine >>

FinishReport ==
    /\ pc = "flushing"
    /\ LET told == [seen EXCEPT !.world.facts = @ \cup { AcceptedFact(k) : k \in accepted }] IN
          report' = Report(told, history, exported, why = "timeout", why \in { "timeout", "error" })
    /\ pc' = "dead"
    /\ exit' = IF why \in { "timeout", "error" } THEN "failed" ELSE "ok"
    /\ UNCHANGED << fixed, parent, proxy, late, reading, loop, queue, reply, engine >>

---------------------------------------------------------------------------
(* The runner: its loop.                                                    *)

Continues ==
    /\ seen.envelope.mode # Final /\ ~seen.envelope.terminal
    /\ triggers < MaxTriggers
    /\ ~late

\* The head of the loop: another turn, or the final reading.
Check ==
    /\ pc = "checking"
    /\ IF Continues THEN pc' = "deciding" /\ why' = why
                    ELSE pc' = "reading" /\ why' = "final"
    /\ UNCHANGED << fixed, parent, report, proxy, exit, late, got, seen, exported, history, loop,
                    queue, reply, engine >>

\* What a turn of the loop asks: the decision on a proposed item first, then an
\* upload its stage waits for, then the entry channel.
Decides == "confirmation" \in scripts /\ Proposed(seen.world.items) # {}
UploadDue(kind) ==
    /\ kind \in scripts /\ kind \notin attempted
    /\ seen.envelope.mode = "host"
    /\ kind = "extraction" => "upload" \notin scripts \ attempted

Ask(a) ==
    /\ ask' = a /\ before' = Len(seen.rounds)
    /\ IF late /\ Runner(scripts).races
       THEN queue' = queue /\ reply' = "late"
       ELSE queue' = Append(queue, a) /\ reply' = None
    /\ pc' = "asking"

SendDecision ==
    /\ pc = "deciding" /\ Decides
    /\ \E i \in Proposed(seen.world.items) :
          /\ i = FirstProposed(seen.world.items)
          /\ Ask([kind |-> "decision", index |-> i,
                  decision |-> IF used < Len(Script) THEN Script[used + 1] ELSE "approve"])
    /\ used' = IF used < Len(Script) THEN used + 1 ELSE used
    /\ UNCHANGED << fixed, parent, report, proxy, exit, late, reading, triggers, attempted,
                    accepted, engine >>

\* The file is posted; without a file reference the turn goes on to the next ask.
PostFile(kind) ==
    /\ pc = "deciding" /\ ~Decides /\ UploadDue(kind)
    /\ attempted' = attempted \cup { kind }
    /\ IF fault = AcceptedFact(kind)
       THEN UNCHANGED << pc, accepted, ask, before, queue, reply >>
       ELSE accepted' = accepted \cup { kind }
            /\ Ask([kind |-> kind, index |-> 0, decision |-> None])
    /\ UNCHANGED << fixed, parent, report, proxy, exit, late, reading, triggers, used, engine >>

SendEntry ==
    /\ pc = "deciding" /\ ~Decides /\ \A kind \in Uploads : ~UploadDue(kind)
    /\ Ask(Entry)
    /\ UNCHANGED << fixed, parent, report, proxy, exit, late, reading, triggers, used, attempted,
                    accepted, engine >>

\* The trigger was answered: count it and wait for its round.
Answered ==
    /\ pc = "asking" /\ reply = "ok"
    /\ triggers' = triggers + 1
    /\ pc' = "reading" /\ got' = << >>
    /\ why' = IF ask.kind \in Uploads THEN "landing" ELSE "round"
    /\ reply' = None
    /\ UNCHANGED << fixed, parent, report, proxy, exit, late, seen, exported, history, before, ask,
                    used, attempted, accepted, queue, engine >>

\* An error that speaks of a terminal session only leaves the loop.
SessionOver ==
    /\ pc = "asking" /\ reply = "terminal"
    /\ pc' = "reading" /\ got' = << >> /\ why' = "final"
    /\ UNCHANGED << fixed, parent, report, proxy, exit, late, seen, exported, history, loop, queue,
                    reply, engine >>

\* The deadline won the race against the trigger, or had passed before it.
TimesOut ==
    /\ pc = "asking" /\ late /\ Runner(scripts).races
    /\ IF ask.kind \in Runner(scripts).tells
       THEN pc' = "reading" /\ why' = "timeout" /\ UNCHANGED << report, exit >>
       ELSE Break /\ why' = why
    /\ got' = << >>
    /\ UNCHANGED << fixed, parent, proxy, late, seen, exported, history, loop, queue, reply, engine >>

Refused ==
    /\ pc = "asking" /\ reply = "error"
    /\ IF Runner(scripts).tellsAll
       THEN pc' = "reading" /\ why' = "error" /\ UNCHANGED << report, exit >>
       ELSE Break /\ why' = why
    /\ got' = << >>
    /\ UNCHANGED << fixed, parent, proxy, late, seen, exported, history, loop, queue, reply, engine >>

---------------------------------------------------------------------------
(* The engine, the provider and the program (external).                     *)

\* The engine runs in the runner's process, when the runner awaits something.
Busy == pc \in { "reading", "asking", "harvesting" } /\ queue # << >>

ReplyWith(r) == reply' = IF reply = None /\ pc = "asking" THEN r ELSE reply

\* The trigger at the head of the queue is done with, or the author goes on with
\* more rounds for it.
Dequeue ==
    \/ queue' = [queue EXCEPT ![1] = Entry] /\ reply' = reply
    \/ queue' = Tail(queue) /\ ReplyWith("ok")

Upsert(collection, k, v) ==
    IF \E n \in DOMAIN collection : collection[n].key = k
    THEN [n \in DOMAIN collection |->
            IF collection[n].key = k THEN [key |-> k, value |-> v] ELSE collection[n]]
    ELSE Append(collection, [key |-> k, value |-> v])

Stored(collection, k, v) ==
    CASE fault = "drops_appends" -> collection
      [] fault = "batch_append" -> collection
      [] fault = "appends_duplicates" -> Append(collection, [key |-> k, value |-> v])
      [] fault = "keeps_first" /\ (\E n \in DOMAIN collection : collection[n].key = k) -> collection
      [] OTHER -> Upsert(collection, k, v)

\* One round: the provider answers hits calls and the program takes an action.
Round(envelope, world, round, hits) ==
    /\ Busy /\ Len(engine.rounds) < MaxRounds /\ ~engine.envelope.terminal
    /\ engine' = [envelope |-> envelope, world |-> world, rounds |-> Append(engine.rounds, round)]
    /\ proxy' = [proxy EXCEPT !.hits = @ + hits]
    /\ Dequeue
    /\ UNCHANGED << fixed, parent, report, exit, late, pc, reading, loop >>

OtherRound == [act |-> "other", key |-> None, value |-> {}]
Here(kind) == Busy /\ Head(queue).kind = kind

\* What the host stage delivers: the facts of the scripts it serves, in full unless
\* the program withholds one; those of a file only if the file landed.
Delivered ==
    ((IF "delegation" \in scripts THEN DelegationFacts ELSE {})
        \cup (IF "export" \in scripts THEN ExportFacts ELSE {})
        \cup UNION { FactsOf(kind) \ { AcceptedFact(kind) } :
                       kind \in { k \in accepted : LandedFact(k) \in engine.world.facts } })
    \ { fault }

Work ==
    /\ Here("entry") /\ engine.envelope.mode = "host" /\ "keyed" \notin scripts
    /\ LET ran == "delegation" \in scripts IN
       Round(engine.envelope,
             [engine.world EXCEPT !.facts = @ \cup Delivered, !.child = IF ran THEN 1 ELSE 0,
                                  !.stubs = (fault = "stubs")],
             OtherRound, IF ran THEN 2 ELSE 1)

Propose ==
    /\ Here("entry") /\ "confirmation" \in scripts
    /\ Proposed(engine.world.items) = {}
    /\ \E i \in DOMAIN engine.world.items :
          /\ engine.world.items[i] \in { "pending", "revision_requested" }
          /\ Round(engine.envelope, [engine.world EXCEPT !.items[i] = "proposed"], OtherRound, 1)

AppendRecord ==
    /\ Here("entry") /\ "keyed" \in scripts /\ engine.envelope.mode = "host"
    /\ \E k \in Keys, v \in Values :
          Round(engine.envelope,
                [engine.world EXCEPT !.collection = Stored(@, k, v)],
                [act |-> "append", key |-> IF fault = "batch_append" THEN None ELSE k, value |-> v], 1)

\* The program leaves its stage; from the host stage by the completion action.
Advance ==
    /\ Here("entry")
    /\ \E m \in 1 .. 2, terminal \in BOOLEAN :
          /\ engine.envelope.mode = Modes[m]
          /\ Round([mode |-> Modes[m + 1], terminal |-> terminal],
                   [engine.world EXCEPT !.stubs = (fault = "stubs")],
                   [OtherRound EXCEPT !.act =
                       IF m = 2 THEN IF fault = "batch_finish" THEN "finish_batch" ELSE "finish"
                       ELSE "other"], 1)

\* A decision is ingested for the proposed item, if there is one; the author may or
\* may not be asked.
Ingest ==
    /\ Here("decision")
    /\ \E hits \in 0 .. 1 :
          Round(engine.envelope,
                [engine.world EXCEPT !.items =
                    IF Proposed(@) = {} \/ fault = "ignores_decisions" THEN @
                    ELSE [@ EXCEPT ![FirstProposed(@)] = DecisionTable[Head(queue).decision]]],
                OtherRound, hits)

Land ==
    /\ Busy /\ Head(queue).kind \in Uploads
    /\ Round(engine.envelope,
             [engine.world EXCEPT !.facts = @ \cup ({ LandedFact(Head(queue).kind) } \ { fault })],
             OtherRound, 0)

\* An answer before the work is done.
AnswerEarly ==
    /\ AnswersEarly /\ Busy /\ pc = "asking" /\ reply = None
    /\ reply' = "ok"
    /\ UNCHANGED << fixed, parent, report, proxy, exit, late, pc, reading, loop, queue, engine >>

\* The session is over, or the provider or the program broke.
Fail ==
    /\ Busy
    /\ queue' = Tail(queue)
    /\ ReplyWith(IF engine.envelope.terminal THEN "terminal" ELSE "error")
    /\ UNCHANGED << fixed, parent, report, proxy, exit, late, pc, reading, loop, engine >>

---------------------------------------------------------------------------
Caller == Setup \/ Spawn \/ Judge \/ CloseProxy \/ RemoveDirectory

RunnerStep ==
    \/ Boot \/ Deadline \/ Crash
    \/ (\E part \in Parts : Get(part)) \/ PollAgain \/ StateRead \/ ReadFails \/ Harvest
    \/ StartReport \/ FinishReport
    \/ Check \/ SendDecision \/ (\E kind \in Uploads : PostFile(kind)) \/ SendEntry
    \/ Answered \/ SessionOver \/ TimesOut \/ Refused

EngineStep ==
    \/ Work \/ Propose \/ AppendRecord \/ Advance \/ Ingest \/ Land \/ AnswerEarly \/ Fail

Next == Caller \/ Kill \/ RunnerStep \/ EngineStep

\* The caller's own steps are taken, and a timer that is armed fires.  Nothing is
\* assumed of the runner, the engine and the provider.
Fairness == WF_vars(Caller) /\ WF_vars(Kill)

Spec == Init /\ [][Next]_vars /\ Fairness

---------------------------------------------------------------------------
(* Properties.                                                              *)

Facts == DelegationFacts \cup UploadFacts \cup ExtractionFacts \cup ExportFacts
Envelopes == [mode : { None, "draft", "host", Final }, terminal : BOOLEAN]
Worlds == [items : Seq(Statuses), facts : SUBSET Facts, child : Nat, stubs : BOOLEAN,
           collection : Seq([key : Keys, value : Values])]
Rounds == Seq([act : { "append", "finish", "finish_batch", "other" }, key : Keys \cup { None },
               value : Values \cup { {} }])
Sessions == [envelope : Envelopes, world : Worlds, rounds : Rounds]
Asks == [kind : AskKinds \ { "decision" }, index : { 0 }, decision : { None }]
            \cup [kind : { "decision" }, index : Nat, decision : Decisions]
Snapshots == [round : Nat, items : Seq(Statuses), index : Nat, decision : Decisions \cup { None }]
Reports == [full : BOOLEAN, envelope : Envelopes, world : Worlds, rounds : Rounds,
            history : Seq(Snapshots), exported : SUBSET Facts, late : BOOLEAN, error : BOOLEAN]

\* Types.
TypeOK ==
    /\ scripts \in Drives /\ fault \in { None } \cup FaultsOf(scripts)
    /\ drive \in { "idle", "ready", "waiting", "closing", "clearing", "settled" }
    /\ verdict \in { None, "passed", "failed", "threw" }
    /\ report \in Reports
    /\ proxy \in [open : BOOLEAN, hits : Nat]
    /\ exit \in { None, "ok", "failed", "killed" }
    /\ late \in BOOLEAN
    /\ pc \in { "absent", "booting", "reading", "checking", "deciding", "asking", "harvesting",
               "writing", "flushing", "dead" }
    /\ why \in { "loop", "round", "landing", "final", "timeout", "error" }
    /\ DOMAIN got \subseteq Parts
    /\ "envelope" \in DOMAIN got => got.envelope \in Envelopes
    /\ "world" \in DOMAIN got => got.world \in Worlds
    /\ "rounds" \in DOMAIN got => got.rounds \in Rounds
    /\ seen \in Sessions /\ engine \in Sessions
    /\ exported \in SUBSET Facts
    /\ before \in Nat /\ triggers \in Nat /\ used \in 0 .. Len(Script)
    /\ ask \in Asks /\ queue \in Seq(Asks)
    /\ history \in Seq(Snapshots)
    /\ attempted \in SUBSET Uploads /\ accepted \in SUBSET Uploads
    /\ reply \in { None, "ok", "terminal", "error", "late" }

\* A drive passes only for a program that reached its completion stage in this very
\* drive, on at least one answer of the provider, by a runner that did not break:
\* no report of an earlier drive, torn report or late answer stands in for it.
PassedMeansDriven ==
    verdict = "passed" =>
        /\ engine.envelope.mode = Final
        /\ proxy.hits >= 1
        /\ exit # "failed"

\* If triggers are answered when their rounds are done, only a program passes that
\* is not broken in anything its scripts probe.
PassedMeansSound == verdict = "passed" => fault = None

\* If triggers are answered when their rounds are done, a decision that the engine
\* has not taken yet is for an item that is still proposed: none is spent on an item
\* that was decided before.
DecisionFindsItsItem ==
    \A n \in DOMAIN queue :
        queue[n].kind = "decision" => queue[n].index \in Proposed(engine.world.items)

\* The call gives exactly one outcome, releases the proxy after it and returns,
\* whatever the runner, the engine and the provider do: the drive implements
\* OneVerdict, its liveness included.
Verification == INSTANCE OneVerdict
    WITH outcome <- verdict, held <- proxy.open, returned <- (drive = "settled")

ImplementsOneVerdict == Verification!Spec
=============================================================================
