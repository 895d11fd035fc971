-------------------------------- MODULE Repl --------------------------------
(***************************************************************************)
(* The streaming REPL (src/repl/runner.ts): one user at a terminal, one     *)
(* JavaScript thread, and a session on a PGAS server it talks to.           *)
(*                                                                         *)
(* Every line that is not queued is dispatched to a handler of its own, an  *)
(* async function.  A handler runs without interruption up to its next      *)
(* await; between awaits other handlers, the user and the server get their  *)
(* turn.  pc says at which await each line's handler stands.  A handler that *)
(* is in its synchronous part (Sync) goes on before anything else happens.   *)
(* The finally clause of dispatchInput is a microtask: it runs before any   *)
(* reply is looked at, but a chunk of input may bring another line first.   *)
(*                                                                         *)
(* The server is external: a session has a mode, which moves on its own.    *)
(***************************************************************************)
EXTENDS Naturals, Sequences

CONSTANTS
    MaxLines,       \* bound: how many lines the user types
    MaxSessions,    \* bound: how many sessions the server ever holds
    Inputs,         \* the kinds of line the user types
    RetryLimit      \* TRANSIENT_ROUND_RETRY_LIMIT

\* /help, an unknown command and an empty answer change nothing: they are
\* dispatched and settle like a /status without a session.  A bracketed paste
\* is one "text"; /quit is "exit".
Kinds == { "text", "new", "resume", "abort", "status", "history",
           "approve", "reject", "exit" }

ASSUME BoundsAssumption ==
    /\ MaxLines \in Nat /\ MaxSessions \in Nat /\ RetryLimit \in Nat
    /\ Inputs \subseteq Kinds

Lines == 1 .. MaxLines
Sessions == 1 .. MaxSessions
NoSession == 0

\* "other" is each mode without a user_text channel and without a gate.
Modes == { "intake_intelligence", "scaffold_plan", "other" }

AlwaysAvailable == { "abort", "approve", "exit", "history", "reject", "status" }
Confirmations == { "approve", "reject" }
Controls == { "confirm_design", "approve_artifact_plan",
              "revise_artifact_plan", "reject_design_and_revise" }

\* Where the handler of a line stands.
Idle == { "untyped", "queued", "dropped", "done" }
Sync == { "starting", "routing" }
Prompt == Sync \cup { "settling" }
InRound == { "streaming", "closing", "dropping", "backoff", "expired" }
Elsewhere == { "creating", "refreshing", "polling", "pausing", "reading",
               "resuming", "aborting", "quitting" }
Places == Idle \cup Prompt \cup InRound \cup Elsewhere \cup Controls

VARIABLES
    sessionId, mode, running, abortRequested,   \* the ReplState
    inputBusy, textBusy, pendingInputs,
    exit,       \* "open"; "aborting" while finish() awaits its abort; "resolved"
    typed,      \* how many lines were typed so far
    input,      \* what kind of line each was
    pc,
    at,         \* the session a handler's outstanding call is about
    count,      \* retries of a round; or has a poll seen a round count before?
    live        \* the mode of each session on the server, "none" if not created

state == << sessionId, mode, running, abortRequested >>
gates == << inputBusy, textBusy, pendingInputs >>
vars == << state, gates, exit, typed, input, pc, at, count, live >>

TypeOK ==
    /\ sessionId \in Sessions \cup { NoSession }
    /\ mode \in Modes \cup { "none" }
    /\ running \in BOOLEAN /\ abortRequested \in BOOLEAN
    /\ inputBusy \in BOOLEAN /\ textBusy \in BOOLEAN
    /\ pendingInputs \in Seq(Lines)
    /\ exit \in { "open", "aborting", "resolved" }
    /\ typed \in 0 .. MaxLines
    /\ input \in [ Lines -> Inputs \cup { "none" } ]
    /\ pc \in [ Lines -> Places ]
    /\ at \in [ Lines -> Sessions \cup { NoSession } ]
    /\ count \in [ Lines -> (0 .. RetryLimit) \cup { 1 } ]
    /\ live \in [ Sessions -> Modes \cup { "none" } ]

\* The server may hold a session of an earlier run, which /resume can find.
Init ==
    /\ sessionId = NoSession /\ mode = "none"
    /\ running = FALSE /\ abortRequested = FALSE
    /\ inputBusy = FALSE /\ textBusy = FALSE /\ pendingInputs = << >>
    /\ exit = "open"
    /\ typed = 0
    /\ input = [ l \in Lines |-> "none" ]
    /\ pc = [ l \in Lines |-> "untyped" ]
    /\ at = [ l \in Lines |-> NoSession ]
    /\ count = [ l \in Lines |-> 0 ]
    /\ live \in { m \in [ Sessions -> Modes \cup { "none" } ] :
                    \A s \in Sessions : m[s] # "none" => s = 1 }

Exists(s) == s \in Sessions /\ live[s] # "none"
InFlight(l) == pc[l] \notin Idle
Awaiting == \A l \in Lines : pc[l] \notin Sync
Quiet == \A l \in Lines : pc[l] \notin Prompt
\* Mutant of Busy: only a round keeps lines waiting.
BusyInRound == running
Busy == running \/ textBusy \/ inputBusy
Exiting == exit # "open"

Goto(l, place) == pc' = [ pc EXCEPT ![l] = place ]

\* The handler awaits a call about session s.
Calls(l, place, s) == Goto(l, place) /\ at' = [ at EXCEPT ![l] = s ]

\* The handler is through; the finally clause of dispatchInput is next.
Returns(l) == Goto(l, "settling") /\ UNCHANGED at

\* pendingInputs.length = 0
Emptied(places) ==
    [ k \in Lines |-> IF places[k] = "queued" THEN "dropped" ELSE places[k] ]

-----------------------------------------------------------------------------
(* Lines come in.                                                          *)

\* submitInput: queue the line, or dispatch it.
Type(kind) ==
    LET l == typed + 1 IN
    /\ Awaiting
    /\ exit # "resolved"
    /\ l \in Lines
    /\ typed' = l
    /\ input' = [ input EXCEPT ![l] = kind ]
    /\ \/ /\ Busy /\ kind \notin AlwaysAvailable
          /\ Goto(l, "queued")
          /\ pendingInputs' = Append(pendingInputs, l)
          /\ UNCHANGED << inputBusy, textBusy >>
       \/ /\ ~Busy \/ kind \in AlwaysAvailable
          /\ Goto(l, "starting")
          /\ textBusy' = (textBusy \/ kind = "text")
          /\ inputBusy' = (inputBusy \/ kind \notin Confirmations)
          /\ UNCHANGED pendingInputs
    /\ UNCHANGED << state, exit, at, count, live >>

\* The gates as the finally clause of dispatchInput leaves them for line l.
TextGate(l) == textBusy /\ input[l] # "text"
\* Mutant of InputGate: only a text line releases the gate.
InputGateOfText(l) == inputBusy /\ (TextGate(l) \/ input[l] # "text")
InputGate(l) == inputBusy /\ (TextGate(l) \/ input[l] \in Confirmations)

\* Mutant of MayServe: it forgets the goodbye.
MayServeAfterGoodbye(l) == ~running /\ ~TextGate(l)
\* May the finally clause of line l serve the next line?
MayServe(l) == ~running /\ ~TextGate(l) /\ ~Exiting

\* The finally clause of dispatchInput: release the gates, forget the queue if
\* an abort was asked for, and serve the next line if nothing is in its way.
Settle(l) ==
    LET waiting == IF abortRequested THEN << >> ELSE pendingInputs
        settled == [ IF abortRequested THEN Emptied(pc) ELSE pc EXCEPT ![l] = "done" ]
    IN
    /\ Awaiting /\ pc[l] = "settling"
    /\ \/ /\ MayServe(l) /\ waiting # << >>
          /\ pendingInputs' = Tail(waiting)
          /\ pc' = [ settled EXCEPT ![Head(waiting)] = "starting" ]
          /\ textBusy' = (TextGate(l) \/ input[Head(waiting)] = "text")
          /\ inputBusy' = TRUE
       \/ /\ ~MayServe(l) \/ waiting = << >>
          /\ pendingInputs' = waiting
          /\ pc' = settled
          /\ textBusy' = TextGate(l)
          /\ inputBusy' = InputGate(l)
    /\ at' = [ at EXCEPT ![l] = NoSession ]
    /\ count' = [ count EXCEPT ![l] = 0 ]
    /\ UNCHANGED << state, exit, typed, input, live >>

-----------------------------------------------------------------------------
(* Leaving.                                                                *)

\* finish(): abort the round that is running, and only then say goodbye.
Finish ==
    IF Exiting THEN UNCHANGED << exit, abortRequested >>
    ELSE IF sessionId # NoSession /\ running
         THEN exit' = "aborting" /\ abortRequested' = TRUE
         ELSE exit' = "resolved" /\ UNCHANGED abortRequested

\* SIGINT, the end of the input, or the caller's abort signal.
Interrupt ==
    /\ Quiet /\ ~Exiting
    /\ Finish
    /\ UNCHANGED << sessionId, mode, running, gates, typed, input, pc, at, count, live >>

\* The abort that finish() awaits is answered, or fails.
GoodbyeSaid ==
    /\ Quiet /\ exit = "aborting"
    /\ exit' = "resolved"
    /\ UNCHANGED << state, gates, typed, input, pc, at, count, live >>

\* A handler leaves and waits for finish(), which returns at once to anyone
\* but the first.
Leaves(l, meanwhile, back) ==
    /\ Finish
    /\ Goto(l, IF ~Exiting /\ exit' = "aborting" THEN meanwhile ELSE back)
    /\ UNCHANGED << sessionId, mode, running, gates, typed, input, at, count, live >>

StartExit(l) ==
    /\ pc[l] = "starting" /\ input[l] = "exit"
    /\ Leaves(l, "quitting", "settling")

\* finish() returns, to a round whose token has expired or to another handler.
QuittingEnds(l) ==
    /\ Quiet /\ exit = "resolved"
    /\ \/ pc[l] = "quitting" /\ Goto(l, "settling")
       \/ pc[l] = "expired" /\ Goto(l, "closing")
    /\ UNCHANGED << state, gates, exit, typed, input, at, count, live >>

-----------------------------------------------------------------------------
(* Text: create a session if there is none, then run a round on it.        *)

StartText(l) ==
    /\ pc[l] = "starting" /\ input[l] = "text"
    /\ Goto(l, IF sessionId = NoSession THEN "creating" ELSE "routing")
    /\ UNCHANGED << state, gates, exit, typed, input, at, count, live >>

\* sessions.create: the server opens a session on the interview.
Created(l) ==
    /\ Quiet /\ pc[l] = "creating"
    /\ \E s \in Sessions :
          /\ live[s] = "none" /\ (\A r \in Sessions : r < s => live[r] # "none")
          /\ live' = [ live EXCEPT ![s] = "intake_intelligence" ]
          /\ sessionId' = s
    /\ Goto(l, "routing")
    /\ UNCHANGED << mode, running, abortRequested, gates, exit, typed, input, at, count >>

\* The rest of handleText: at the plan gate the text is a rejection; in another
\* mode that takes no text it is refused; else it is a round of its own.
Route(l) ==
    /\ pc[l] = "routing"
    /\ \/ /\ mode = "scaffold_plan"
          /\ Calls(l, "refreshing", sessionId)
          /\ UNCHANGED << running, abortRequested >>
       \/ /\ mode = "other"
          /\ Returns(l)
          /\ UNCHANGED << running, abortRequested >>
       \/ /\ mode \in { "none", "intake_intelligence" }
          /\ Calls(l, "streaming", sessionId)
          /\ running' = TRUE /\ abortRequested' = FALSE
    /\ UNCHANGED << sessionId, mode, gates, exit, typed, input, count, live >>

\* streamRoundOnce looks at abortRequested whenever an event arrives, the
\* stream ends or the call throws.
SeesAbort(l) ==
    /\ Quiet /\ pc[l] = "streaming" /\ abortRequested
    /\ Goto(l, "closing")
    /\ UNCHANGED << state, gates, exit, typed, input, at, count, live >>

\* The result is shown.  Leaving the for-await closes the stream, an await.
RoundCompletes(l) ==
    /\ Quiet /\ pc[l] = "streaming" /\ ~abortRequested
    /\ running' = FALSE
    /\ Goto(l, "closing")
    /\ UNCHANGED << sessionId, mode, abortRequested, gates, exit, typed, input, at, count, live >>

\* An error that is not recoverable, or one that is.
RoundFails(l) ==
    /\ Quiet /\ pc[l] = "streaming" /\ ~abortRequested
    /\ Goto(l, "closing") \/ Goto(l, "dropping")
    /\ UNCHANGED << state, gates, exit, typed, input, at, count, live >>

\* 401
RoundUnauthorized(l) ==
    /\ Quiet /\ pc[l] = "streaming" /\ ~abortRequested
    /\ Leaves(l, "expired", "closing")

\* A recoverable round is tried again after a pause, RetryLimit times.
Retry(l) ==
    /\ Quiet /\ pc[l] = "dropping"
    /\ Goto(l, IF ~abortRequested /\ count[l] < RetryLimit THEN "backoff" ELSE "closing")
    /\ UNCHANGED << state, gates, exit, typed, input, at, count, live >>

\* Mutant of BackoffEnds: the attempt is not counted.
BackoffUncounted(l) ==
    /\ Quiet /\ pc[l] = "backoff"
    /\ Goto(l, "streaming")
    /\ UNCHANGED << state, gates, exit, typed, input, at, count, live >>

BackoffEnds(l) ==
    /\ Quiet /\ pc[l] = "backoff"
    /\ Goto(l, "streaming")
    /\ count' = [ count EXCEPT ![l] = @ + 1 ]
    /\ UNCHANGED << state, gates, exit, typed, input, at, live >>

\* The finally clause of runTrigger.  drainPendingAfterRound serves nobody: the
\* handler it runs in still holds textBusy.
RoundEnds(l) ==
    /\ Quiet /\ pc[l] = "closing"
    /\ running' = FALSE
    /\ pc' = [ IF abortRequested THEN Emptied(pc) ELSE pc EXCEPT ![l] = "settling" ]
    /\ pendingInputs' = IF abortRequested THEN << >> ELSE pendingInputs
    /\ UNCHANGED << sessionId, mode, abortRequested, inputBusy, textBusy,
                    exit, typed, input, at, count, live >>

-----------------------------------------------------------------------------
(* /approve and /reject: a control, and polls until the session settles.   *)

\* resolveApproveControlForMode
ApproveControl(m) ==
    IF m = "intake_intelligence" THEN "confirm_design" ELSE "approve_artifact_plan"

StartApprove(l) ==
    /\ pc[l] = "starting" /\ input[l] = "approve"
    /\ IF sessionId = NoSession THEN Returns(l)
       ELSE Calls(l, ApproveControl(mode), sessionId)
    /\ UNCHANGED << state, gates, exit, typed, input, count, live >>

StartReject(l) ==
    /\ pc[l] = "starting" /\ input[l] = "reject"
    /\ IF sessionId = NoSession THEN Returns(l)
       ELSE Calls(l, "refreshing", sessionId)
    /\ UNCHANGED << state, gates, exit, typed, input, count, live >>

\* refreshLiveState: the mode the server answered with, or the mode as it is
\* when the call fails.  The session may have been left in the meantime.
Refreshes(l) == mode' \in { mode, live[at[l]] }

\* invokeSessionControl
Invokes(l, control) ==
    IF sessionId = NoSession THEN Returns(l) ELSE Calls(l, control, sessionId)

Refreshed(l) ==
    /\ Quiet /\ pc[l] = "refreshing"
    /\ Refreshes(l)
    /\ \/ mode' = "scaffold_plan" /\ Invokes(l, "revise_artifact_plan")
       \/ mode' # "scaffold_plan" /\ Invokes(l, "reject_design_and_revise")
       \/ mode' # "scaffold_plan" /\ Returns(l)    \* it names no question
    /\ UNCHANGED << sessionId, running, abortRequested, gates, exit, typed, input, count, live >>

\* A turn of waitForSessionRoundSettleAfterControl: ask for the session the
\* REPL is in now.
Poll(l) ==
    IF sessionId # NoSession THEN Calls(l, "polling", sessionId)
    ELSE IF Exiting THEN Returns(l)
    ELSE Calls(l, "pausing", NoSession)

ControlAnswered(l) ==
    /\ Quiet /\ pc[l] \in Controls
    /\ Poll(l)
    /\ UNCHANGED << state, gates, exit, typed, input, count, live >>

\* Two polls that see the same round count end the wait, as leaving does.
Polled(l) ==
    /\ Quiet /\ pc[l] = "polling"
    /\ \/ /\ mode' = live[at[l]]
          /\ count' = [ count EXCEPT ![l] = 1 ]
          /\ Goto(l, IF Exiting THEN "settling" ELSE "pausing")
       \/ /\ mode' = live[at[l]] /\ count[l] = 1
          /\ Goto(l, "settling") /\ UNCHANGED count
       \/ /\ Goto(l, IF Exiting THEN "settling" ELSE "pausing")
          /\ UNCHANGED << mode, count >>       \* the call fails
    /\ UNCHANGED << sessionId, running, abortRequested, gates, exit, typed, input, at, live >>

PollAgain(l) ==
    /\ Quiet /\ pc[l] = "pausing"
    /\ Poll(l)
    /\ UNCHANGED << state, gates, exit, typed, input, count, live >>

DeadlinePasses(l) ==
    /\ Quiet /\ pc[l] = "pausing"
    /\ Returns(l)
    /\ UNCHANGED << state, gates, exit, typed, input, count, live >>

-----------------------------------------------------------------------------
(* The other commands.                                                     *)

StartNew(l) ==
    /\ pc[l] = "starting" /\ input[l] = "new"
    /\ sessionId' = NoSession /\ mode' = "none"
    /\ Returns(l)
    /\ UNCHANGED << running, abortRequested, gates, exit, typed, input, count, live >>

\* abortSession: the queue is forgotten now and when the abort is answered.
StartAbort(l) ==
    /\ pc[l] = "starting" /\ input[l] = "abort"
    /\ IF sessionId = NoSession
       THEN Returns(l) /\ UNCHANGED << abortRequested, pendingInputs >>
       ELSE /\ abortRequested' = TRUE
            /\ pendingInputs' = << >>
            /\ pc' = [ Emptied(pc) EXCEPT ![l] = "aborting" ]
            /\ at' = [ at EXCEPT ![l] = sessionId ]
    /\ UNCHANGED << sessionId, mode, running, inputBusy, textBusy,
                    exit, typed, input, count, live >>

AbortAnswered(l) ==
    /\ Quiet /\ pc[l] = "aborting"
    /\ sessionId' = NoSession /\ mode' = "none" /\ running' = FALSE
    /\ pendingInputs' = << >>
    /\ pc' = [ Emptied(pc) EXCEPT ![l] = "settling" ]
    /\ UNCHANGED << abortRequested, inputBusy, textBusy,
                    exit, typed, input, at, count, live >>

StartResume(l) ==
    /\ pc[l] = "starting" /\ input[l] = "resume"
    /\ Calls(l, "resuming", NoSession)
    /\ UNCHANGED << state, gates, exit, typed, input, count, live >>

\* The server names a session, or none, or a call fails.
Resumed(l) ==
    /\ Quiet /\ pc[l] = "resuming"
    /\ \/ \E s \in Sessions :
             /\ Exists(s)
             /\ sessionId' = s /\ mode' = live[s] /\ running' = FALSE
       \/ UNCHANGED << sessionId, mode, running >>
    /\ Returns(l)
    /\ UNCHANGED << abortRequested, gates, exit, typed, input, count, live >>

\* /status and /history
StartReading(l) ==
    /\ pc[l] = "starting" /\ input[l] \in { "status", "history" }
    /\ IF sessionId = NoSession /\ input[l] = "status" THEN Returns(l)
       ELSE Calls(l, "reading", sessionId)
    /\ UNCHANGED << state, gates, exit, typed, input, count, live >>

Read(l) ==
    /\ Quiet /\ pc[l] = "reading"
    /\ IF input[l] = "status" THEN Refreshes(l) ELSE UNCHANGED mode
    /\ Returns(l)
    /\ UNCHANGED << sessionId, running, abortRequested, gates, exit, typed, input, count, live >>

-----------------------------------------------------------------------------
\* A call whose failure its handler does not catch: an error, or a 401.
Throws(l) ==
    /\ Quiet /\ pc[l] \in Controls \cup { "creating" }
    /\ \/ Returns(l) /\ UNCHANGED << state, gates, exit, typed, input, count, live >>
       \/ Leaves(l, "quitting", "settling")

\* The engine moves a session through its modes.
EngineMoves ==
    /\ Quiet
    /\ \E s \in Sessions, m \in Modes :
          /\ Exists(s) /\ live[s] # m
          /\ live' = [ live EXCEPT ![s] = m ]
    /\ UNCHANGED << state, gates, exit, typed, input, pc, at, count >>

Start(l) ==
    \/ StartText(l) \/ StartApprove(l) \/ StartReject(l) \/ StartNew(l)
    \/ StartAbort(l) \/ StartResume(l) \/ StartReading(l) \/ StartExit(l)

InTheRound(l) ==
    \/ SeesAbort(l) \/ RoundCompletes(l) \/ RoundFails(l) \/ RoundUnauthorized(l)
    \/ Retry(l) \/ BackoffEnds(l) \/ RoundEnds(l)

OfAControl(l) ==
    \/ Refreshed(l) \/ ControlAnswered(l) \/ Polled(l) \/ PollAgain(l)
    \/ DeadlinePasses(l)

\* What the handler of line l does next.
Step(l) ==
    \/ Start(l) \/ Route(l) \/ Settle(l)
    \/ Created(l) \/ InTheRound(l) \/ OfAControl(l)
    \/ AbortAnswered(l) \/ Resumed(l) \/ Read(l)
    \/ QuittingEnds(l) \/ Throws(l)

Next ==
    \/ \E kind \in Inputs : Type(kind)
    \/ \E l \in Lines : Step(l)
    \/ Interrupt \/ GoodbyeSaid \/ EngineMoves

Spec == Init /\ [][Next]_vars

-----------------------------------------------------------------------------
(* What a reader of the code relies on.                                    *)

Serving(l) == InFlight(l) /\ input[l] = "text"

\* Text is served one line at a time: however the answers, the retries, the
\* controls and the aborts interleave, no second text line is dispatched while
\* the handler of one is in flight.
OneTextAtATime ==
    \A k, l \in Lines : Serving(k) /\ Serving(l) => k = l

\* Lines that wait for their turn get it in the order they were typed: until the
\* user leaves, no line that may wait is dispatched while one typed before it is
\* still queued.
ServedInOrder ==
    ~Exiting => \A k, l \in Lines :
        k < l /\ pc[k] = "queued" /\ input[l] \notin AlwaysAvailable
            => pc[l] \in { "untyped", "queued" }

\* The prompt is never locked by a gate nobody will open: while a gate is shut
\* the handler that opens it is in flight, and lines wait only behind a gate.
NeverLockedOut ==
    /\ Busy => \E l \in Lines : InFlight(l) /\ input[l] \notin Confirmations
    /\ ~Exiting /\ pendingInputs # << >> => Busy

\* An abort is not forgotten while the round it was meant for is in flight: only
\* a new round withdraws the request, and none starts before the old one ends.
AbortIsRemembered ==
    [][ abortRequested /\ ~abortRequested' => \A l \in Lines : pc[l] \notin InRound ]_vars

\* After the goodbye no queued line is served any more.
NothingServedAfterGoodbye ==
    [][ \A l \in Lines : Exiting /\ pc[l] = "queued" => pc'[l] \in { "queued", "dropped" } ]_vars

\* The gates, the queue and the finally clauses implement a turnstile for text.
Turn == INSTANCE Turnstile WITH
    arrived <- typed,
    waiting <- { l \in Lines : pc[l] = "queued" /\ input[l] = "text" },
    serving <- { l \in Lines : Serving(l) },
    open <- ~Exiting
ImplementsTurnstile == Turn!Spec

-----------------------------------------------------------------------------
(* Liveness.  A handler that is due runs; calls are answered, fail or time   *)
(* out (fetch has timeouts of its own), and a round ends; the deadline of a  *)
(* wait is wall-clock time, so a wait that goes on sees it pass.             *)
LiveSpec ==
    /\ Spec
    /\ \A l \in Lines : WF_vars(Step(l)) /\ SF_vars(DeadlinePasses(l))
    /\ WF_vars(GoodbyeSaid)

\* Every line that waits is served or dropped, unless the user leaves.
QueueMoves == \A l \in Lines : pc[l] = "queued" ~> pc[l] # "queued" \/ Exiting

\* Every handler comes to an end: no retry, poll or goodbye goes on for ever.
HandlersEnd == \A l \in Lines : InFlight(l) ~> pc[l] = "done"

=============================================================================
