---------------------------- MODULE Repl_proofs ----------------------------
(***************************************************************************)
(* Theorems about the REPL, for any number of lines, sessions and retries.  *)
(*                                                                         *)
(* All of them rest on one inductive invariant, Inv: the gate for text is   *)
(* shut exactly while one text line is in flight, the gate for input only   *)
(* while a line that opens it is, and pendingInputs holds the queued lines  *)
(* in the order they were typed.  Almost every action only moves one        *)
(* handler on; Moves states what these have in common, and MovesKeepInv     *)
(* covers them at once.                                                    *)
(***************************************************************************)
EXTENDS Repl, TLAPS

(* Type correctness.                                                       *)

\* The sets of places, spelled out once.
LEMMA PlacesFacts ==
    /\ Places = Idle \cup Prompt \cup InRound \cup Elsewhere \cup Controls
    /\ Idle = { "untyped", "queued", "dropped", "done" }
    /\ Sync = { "starting", "routing" }
    /\ Prompt = { "starting", "routing", "settling" }
    /\ InRound = { "streaming", "closing", "dropping", "backoff", "expired" }
    /\ Elsewhere = { "creating", "refreshing", "polling", "pausing", "reading",
                     "resuming", "aborting", "quitting" }
    /\ Controls = { "confirm_design", "approve_artifact_plan",
                    "revise_artifact_plan", "reject_design_and_revise" }
BY DEF Places, Idle, Sync, Prompt, InRound, Elsewhere, Controls

LEMMA ListedPlaces ==
    /\ { "untyped", "queued", "dropped", "done" } \subseteq Places
    /\ { "starting", "routing", "settling" } \subseteq Places
    /\ { "streaming", "closing", "dropping", "backoff", "expired" } \subseteq Places
    /\ { "creating", "refreshing", "polling", "pausing", "reading",
         "resuming", "aborting", "quitting" } \subseteq Places
    /\ { "confirm_design", "approve_artifact_plan",
         "revise_artifact_plan", "reject_design_and_revise" } \subseteq Places
BY PlacesFacts

\* The parts of TypeOK, so that a step cites what it needs.
StateOK ==
    /\ sessionId \in Sessions \cup { NoSession }
    /\ mode \in Modes \cup { "none" }
    /\ running \in BOOLEAN /\ abortRequested \in BOOLEAN
    /\ exit \in { "open", "aborting", "resolved" }
GatesOK ==
    /\ inputBusy \in BOOLEAN /\ textBusy \in BOOLEAN
    /\ pendingInputs \in Seq(Lines)
LinesOK ==
    /\ typed \in 0 .. MaxLines
    /\ input \in [ Lines -> Inputs \cup { "none" } ]
    /\ pc \in [ Lines -> Places ]
CallsOK ==
    /\ at \in [ Lines -> Sessions \cup { NoSession } ]
    /\ count \in [ Lines -> (0 .. RetryLimit) \cup { 1 } ]
    /\ live \in [ Sessions -> Modes \cup { "none" } ]

LEMMA TypeParts == TypeOK <=> StateOK /\ GatesOK /\ LinesOK /\ CallsOK
BY DEF TypeOK, StateOK, GatesOK, LinesOK, CallsOK

LEMMA InitType == Init => TypeOK
<1> SUFFICES ASSUME Init PROVE TypeOK
  OBVIOUS
<1> USE DEF Init
<1>1. StateOK
  BY DEF StateOK
<1>2. GatesOK
  <2>1. << >> \in Seq(Lines)
    OBVIOUS
  <2> QED
    BY <2>1 DEF GatesOK
<1>3. LinesOK
  BY ListedPlaces, BoundsAssumption DEF LinesOK
<1>4. CallsOK
  BY BoundsAssumption DEF CallsOK
<1> QED
  BY <1>1, <1>2, <1>3, <1>4, TypeParts

LEMMA EmptiedType ==
    ASSUME NEW f \in [ Lines -> Places ]
    PROVE  Emptied(f) \in [ Lines -> Places ]
BY ListedPlaces DEF Emptied

-----------------------------------------------------------------------------
(* The inductive invariant.                                                *)

\* Lines are numbered in the order they are typed.
Numbered ==
    \A l \in Lines : /\ pc[l] = "untyped" <=> l > typed
                     /\ l <= typed => input[l] \in Kinds

\* One handler at a time is in its synchronous part, and one that routes a text
\* has its session.
OneInSync == \A k, l \in Lines : pc[k] \in Sync /\ pc[l] \in Sync => k = l
RoutedInASession == \A l \in Lines : pc[l] = "routing" => sessionId # NoSession

\* A handler that awaits the mode of a session asks about one.
Asking(l) == pc[l] \in { "refreshing", "polling" } \/ (pc[l] = "reading" /\ input[l] = "status")
Asked == \A l \in Lines : Asking(l) => at[l] \in Sessions

Counted == \A l \in Lines : pc[l] = "backoff" => count[l] < RetryLimit

\* Only text is in a round, and only a text line's round sets running.
RoundPlaces == InRound \cup { "creating", "routing" }
RoundsAreText == \A l \in Lines : pc[l] \in RoundPlaces => input[l] = "text"

\* The gates are shut by handlers in flight, which open them when they settle.
TextGateHeld ==
    /\ textBusy <=> \E l \in Lines : Serving(l)
    /\ running => \E l \in Lines : pc[l] \in InRound
InputGateHeld ==
    inputBusy => \E l \in Lines : InFlight(l) /\ input[l] \notin Confirmations

\* pendingInputs is the queued lines, oldest first, and stands behind a gate.
QueueIsOrdered ==
    \A i, j \in DOMAIN pendingInputs : i < j => pendingInputs[i] < pendingInputs[j]
QueueIsQueued ==
    /\ \A i \in DOMAIN pendingInputs : pc[pendingInputs[i]] = "queued"
    /\ \A l \in Lines : pc[l] = "queued" =>
           input[l] \notin AlwaysAvailable /\ \E i \in DOMAIN pendingInputs : pendingInputs[i] = l
QueueIsBehindAGate == ~Exiting /\ pendingInputs # << >> => textBusy \/ inputBusy

Inv ==
    /\ TypeOK
    /\ Numbered /\ OneInSync /\ RoutedInASession /\ Asked /\ Counted
    /\ RoundsAreText /\ OneTextAtATime /\ TextGateHeld /\ InputGateHeld
    /\ QueueIsOrdered /\ QueueIsQueued /\ QueueIsBehindAGate /\ ServedInOrder

LEMMA TypeStep ==
    ASSUME TypeOK, Asked, Counted, [Next]_vars
    PROVE  TypeOK'
<1> USE DEF TypeOK, state, gates
<1>a. << >> \in Seq(Lines)
  OBVIOUS
<1>b. Emptied(pc) \in [ Lines -> Places ]
  BY EmptiedType
<1>1. ASSUME NEW kind \in Inputs, Type(kind)
      PROVE  TypeOK'
  <2> DEFINE l == typed + 1
  <2>1. l \in Lines /\ typed' = l /\ l \in 0 .. MaxLines
    BY <1>1, BoundsAssumption DEF Type, Lines
  <2>2. input' \in [ Lines -> Inputs \cup { "none" } ]
    BY <1>1 DEF Type
  <2>3. pc' \in [ Lines -> Places ]
    BY <1>1, ListedPlaces DEF Type, Goto
  <2>4. Append(pendingInputs, l) \in Seq(Lines)
    BY <2>1
  <2>5. pendingInputs' \in Seq(Lines) /\ inputBusy' \in BOOLEAN /\ textBusy' \in BOOLEAN
    BY <1>1, <2>4 DEF Type
  <2> QED
    BY <1>1, <2>1, <2>2, <2>3, <2>5 DEF Type
<1>2. ASSUME NEW l \in Lines, Step(l)
      PROVE  TypeOK'
  <2>1. CASE StartText(l)
    BY <2>1, ListedPlaces DEF StartText, Goto
  <2>2. CASE StartApprove(l)
    BY <2>2, ListedPlaces DEF StartApprove, ApproveControl, Returns, Calls, Goto
  <2>3. CASE StartReject(l)
    BY <2>3, ListedPlaces DEF StartReject, Returns, Calls, Goto
  <2>4. CASE StartNew(l)
    BY <2>4, ListedPlaces DEF StartNew, Returns, Goto
  <2>5. CASE StartAbort(l)
    BY <2>5, <1>a, <1>b, ListedPlaces DEF StartAbort, Returns, Goto
  <2>6. CASE StartResume(l)
    BY <2>6, ListedPlaces DEF StartResume, Calls, Goto
  <2>7. CASE StartReading(l)
    BY <2>7, ListedPlaces DEF StartReading, Returns, Calls, Goto
  <2>8. CASE StartExit(l)
    BY <2>8, ListedPlaces DEF StartExit, Leaves, Finish, Goto, Exiting
  <2>9. CASE Route(l)
    BY <2>9, ListedPlaces DEF Route, Returns, Calls, Goto
  <2>10. CASE Settle(l)
    <3>1. pendingInputs # << >> =>
            Head(pendingInputs) \in Lines /\ Tail(pendingInputs) \in Seq(Lines)
      OBVIOUS
    <3> DEFINE waiting == IF abortRequested THEN << >> ELSE pendingInputs
               settled == [ IF abortRequested THEN Emptied(pc) ELSE pc EXCEPT ![l] = "done" ]
    <3>2. settled \in [ Lines -> Places ]
      BY <1>b, ListedPlaces
    <3>3. waiting \in Seq(Lines)
      BY <1>a
    <3>4. waiting # << >> => Head(waiting) \in Lines /\ Tail(waiting) \in Seq(Lines)
      BY <3>1
    <3>5. [ settled EXCEPT ![Head(waiting)] = "starting" ] \in [ Lines -> Places ]
      BY <3>2, ListedPlaces
    <3>6. pc' \in [ Lines -> Places ] /\ pendingInputs' \in Seq(Lines)
      <4> HIDE DEF waiting, settled
      <4>1. \/ waiting # << >> /\ pendingInputs' = Tail(waiting)
               /\ pc' = [ settled EXCEPT ![Head(waiting)] = "starting" ]
            \/ pendingInputs' = waiting /\ pc' = settled
        BY <2>10 DEF Settle, waiting, settled
      <4> QED
        BY <4>1, <3>2, <3>3, <3>4, <3>5
    <3>7. inputBusy' \in BOOLEAN /\ textBusy' \in BOOLEAN
      BY <2>10 DEF Settle, TextGate, InputGate
    <3>8. /\ at' \in [ Lines -> Sessions \cup { NoSession } ]
          /\ count' \in [ Lines -> (0 .. RetryLimit) \cup { 1 } ]
          /\ UNCHANGED << sessionId, mode, running, abortRequested, exit, typed, input, live >>
      BY <2>10, BoundsAssumption DEF Settle
    <3> QED
      BY <3>6, <3>7, <3>8
  <2>11. CASE Created(l)
    BY <2>11, ListedPlaces DEF Created, Goto, Modes
  <2>12. CASE SeesAbort(l) \/ RoundCompletes(l) \/ RoundFails(l) \/ Retry(l)
    BY <2>12, ListedPlaces DEF SeesAbort, RoundCompletes, RoundFails, Retry, Goto
  <2>13. CASE RoundUnauthorized(l)
    BY <2>13, ListedPlaces DEF RoundUnauthorized, Leaves, Finish, Goto, Exiting
  <2>14. CASE BackoffEnds(l)
    <3>1. count' \in [ Lines -> (0 .. RetryLimit) \cup { 1 } ]
      BY <2>14, BoundsAssumption DEF BackoffEnds, Counted
    <3> QED
      BY <2>14, <3>1, ListedPlaces DEF BackoffEnds, Goto
  <2>15. CASE RoundEnds(l)
    BY <2>15, <1>a, <1>b, ListedPlaces DEF RoundEnds
  <2>16. CASE Refreshed(l)
    BY <2>16, ListedPlaces DEF Asked, Asking, Refreshed, Refreshes, Invokes, Returns, Calls, Goto
  <2>17. CASE ControlAnswered(l) \/ PollAgain(l) \/ DeadlinePasses(l)
    BY <2>17, ListedPlaces DEF ControlAnswered, PollAgain, DeadlinePasses, Poll, Returns, Calls, Goto
  <2>18. CASE Polled(l)
    BY <2>18, ListedPlaces DEF Asked, Asking, Polled, Goto
  <2>19. CASE AbortAnswered(l)
    BY <2>19, <1>a, <1>b, ListedPlaces DEF AbortAnswered
  <2>20. CASE Resumed(l)
    BY <2>20, ListedPlaces DEF Resumed, Exists, Returns, Goto
  <2>21. CASE Read(l)
    BY <2>21, ListedPlaces DEF Asked, Asking, Read, Refreshes, Returns, Goto
  <2>22. CASE QuittingEnds(l)
    BY <2>22, ListedPlaces DEF QuittingEnds, Goto
  <2>23. CASE Throws(l)
    BY <2>23, ListedPlaces DEF Throws, Leaves, Finish, Returns, Goto, Exiting
  <2> QED
    BY <1>2, <2>1, <2>2, <2>3, <2>4, <2>5, <2>6, <2>7, <2>8, <2>9, <2>10, <2>11,
       <2>12, <2>13, <2>14, <2>15, <2>16, <2>17, <2>18, <2>19, <2>20, <2>21,
       <2>22, <2>23 DEF Step, Start, InTheRound, OfAControl
<1>3. CASE Interrupt
  BY <1>3 DEF Interrupt, Finish, Exiting
<1>4. CASE GoodbyeSaid
  BY <1>4 DEF GoodbyeSaid
<1>5. CASE EngineMoves
  BY <1>5 DEF EngineMoves
<1>6. CASE UNCHANGED vars
  BY <1>6 DEF vars
<1> QED
  BY <1>1, <1>2, <1>3, <1>4, <1>5, <1>6 DEF Next

-----------------------------------------------------------------------------
(* The steps that only move one handler on.                                *)

\* The handler of line l moves on, and forgets the queue if it empties it.
Moves(l, empties) ==
    /\ InFlight(l) /\ InFlight(l)'
    /\ pc[l] \in Sync \/ Quiet
    /\ \A k \in Lines \ { l } :
          /\ pc'[k] = IF empties /\ pc[k] = "queued" THEN "dropped" ELSE pc[k]
          /\ at'[k] = at[k] /\ count'[k] = count[k]
    /\ pendingInputs' = IF empties THEN << >> ELSE pendingInputs
    /\ typed' = typed /\ input' = input /\ inputBusy' = inputBusy /\ textBusy' = textBusy
    /\ running' => pc'[l] \in InRound \/ (running /\ pc[l] \notin InRound)
    /\ Exiting => Exiting'
    /\ empties => exit' = exit
    /\ pc'[l] \in RoundPlaces => input[l] = "text"
    /\ pc'[l] = "routing" => sessionId' # NoSession
    /\ Asking(l)' => at'[l] \in Sessions
    /\ pc'[l] = "backoff" => count'[l] < RetryLimit

LEMMA MovesKeepInv ==
    ASSUME Inv, TypeOK', NEW l \in Lines, NEW empties \in BOOLEAN, Moves(l, empties)
    PROVE  Inv'
<1> USE DEF Inv
<1>1. \A k \in Lines : /\ InFlight(k)' <=> InFlight(k)
                       /\ pc'[k] = "untyped" <=> pc[k] = "untyped"
                       /\ pc'[k] = "queued" => pc[k] = "queued" /\ ~empties
                       /\ pc[k] = "queued" /\ ~empties => pc'[k] = "queued"
                       /\ pc'[k] = "queued" \/ pc'[k] = "dropped" \/ pc'[k] = pc[k] \/ k = l
  BY PlacesFacts DEF Moves, InFlight
<1>2. input' = input /\ typed' = typed /\ inputBusy' = inputBusy /\ textBusy' = textBusy
  BY DEF Moves
<1>3. Numbered'
  BY <1>1, <1>2 DEF Numbered
<1>4. \A k \in Lines \ { l } : pc[k] \notin Sync /\ pc'[k] \notin Sync
  BY PlacesFacts DEF Moves, OneInSync, Quiet
<1>5. OneInSync'
  BY <1>4 DEF OneInSync
<1>6. RoutedInASession'
  BY <1>4, PlacesFacts DEF Moves, RoutedInASession
<1>7. Asked' /\ Counted'
  BY <1>2 DEF Moves, Asked, Asking, Counted
<1>8. RoundsAreText'
  BY <1>2, PlacesFacts DEF Moves, RoundsAreText, RoundPlaces
<1>9. \A k \in Lines : Serving(k)' <=> Serving(k)
  BY <1>1, <1>2 DEF Serving
<1>10. OneTextAtATime'
  BY <1>9 DEF OneTextAtATime
<1>11. TextGateHeld'
  <2>1. textBusy' <=> \E k \in Lines : Serving(k)'
    BY <1>2, <1>9 DEF TextGateHeld
  <2>2. ASSUME running' PROVE \E k \in Lines : pc'[k] \in InRound
    <3>1. CASE pc'[l] \in InRound
      BY <3>1
    <3>2. CASE running /\ pc[l] \notin InRound
      <4>1. PICK k \in Lines : pc[k] \in InRound
        BY <3>2 DEF TextGateHeld
      <4> QED
        BY <4>1, <3>2, PlacesFacts DEF Moves
    <3> QED
      BY <2>2, <3>1, <3>2 DEF Moves
  <2> QED
    BY <2>1, <2>2 DEF TextGateHeld
<1>12. InputGateHeld'
  BY <1>1, <1>2 DEF InputGateHeld
<1>13. QueueIsOrdered' /\ QueueIsQueued'
  <2>1. CASE empties
    BY <2>1, <1>1 DEF Moves, QueueIsOrdered, QueueIsQueued
  <2>2. CASE ~empties
    <3>1. pendingInputs' = pendingInputs
      BY <2>2 DEF Moves
    <3>2. \A i \in DOMAIN pendingInputs : pendingInputs[i] \in Lines
      BY DEF TypeOK
    <3> QED
      BY <3>1, <3>2, <2>2, <1>1, <1>2 DEF QueueIsOrdered, QueueIsQueued
  <2> QED
    BY <2>1, <2>2
<1>14. QueueIsBehindAGate'
  BY <1>2 DEF QueueIsBehindAGate, Moves
<1>15. ServedInOrder'
  BY <1>1, <1>2, PlacesFacts DEF ServedInOrder, Moves, InFlight
<1> QED
  BY <1>3, <1>5, <1>6, <1>7, <1>8, <1>10, <1>11, <1>12, <1>13, <1>14, <1>15

\* Every step of a handler but its last is such a move.
LEMMA StepMoves ==
    ASSUME Inv, NEW l \in Lines, Step(l), ~Settle(l)
    PROVE  \E empties \in BOOLEAN : Moves(l, empties)
<1> USE PlacesFacts DEF Inv, TypeOK, Moves, InFlight, RoundPlaces, Asking, Exiting, state, gates
<1>1. CASE StartText(l)
  BY <1>1 DEF StartText, Goto
<1>2. CASE StartApprove(l)
  BY <1>2 DEF StartApprove, ApproveControl, Returns, Calls, Goto
<1>3. CASE StartReject(l)
  BY <1>3 DEF StartReject, Returns, Calls, Goto
<1>4. CASE StartNew(l)
  BY <1>4 DEF StartNew, Returns, Goto
<1>5. CASE StartAbort(l)
  <2>1. CASE sessionId = NoSession
    <3>1. Moves(l, FALSE)
      BY <1>5, <2>1 DEF StartAbort, Returns, Goto
    <3> QED
      BY <3>1
  <2>2. CASE sessionId # NoSession
    <3>1. Moves(l, TRUE)
      BY <1>5, <2>2 DEF StartAbort, Emptied
    <3> QED
      BY <3>1
  <2> QED
    BY <2>1, <2>2
<1>6. CASE StartResume(l)
  BY <1>6 DEF StartResume, Calls, Goto
<1>7. CASE StartReading(l)
  BY <1>7 DEF StartReading, Returns, Calls, Goto
<1>8. CASE StartExit(l)
  BY <1>8 DEF StartExit, Leaves, Finish, Goto
<1>9. CASE Route(l)
  <2>1. sessionId # NoSession /\ input[l] = "text"
    BY <1>9 DEF Route, RoutedInASession, RoundsAreText
  <2>2. Moves(l, FALSE)
    BY <1>9, <2>1 DEF Route, Returns, Calls, Goto
  <2> QED
    BY <2>2
<1>11. CASE Created(l)
  <2>1. Moves(l, FALSE)
    BY <1>11, BoundsAssumption DEF Created, Goto, RoundsAreText, Sessions, NoSession
  <2> QED
    BY <2>1
<1>12. CASE SeesAbort(l) \/ RoundCompletes(l) \/ RoundFails(l) \/ Retry(l)
  BY <1>12 DEF SeesAbort, RoundCompletes, RoundFails, Retry, Goto, RoundsAreText
<1>13. CASE RoundUnauthorized(l)
  BY <1>13 DEF RoundUnauthorized, Leaves, Finish, Goto, RoundsAreText
<1>14. CASE BackoffEnds(l)
  BY <1>14 DEF BackoffEnds, Goto, RoundsAreText
<1>15. CASE RoundEnds(l)
  <2>1. Moves(l, abortRequested)
    BY <1>15 DEF RoundEnds, Emptied, RoundsAreText
  <2> QED
    BY <2>1
<1>16. CASE Refreshed(l)
  BY <1>16 DEF Refreshed, Refreshes, Invokes, Returns, Calls, Goto
<1>17. CASE ControlAnswered(l) \/ PollAgain(l)
  <2>1. Moves(l, FALSE)
    BY <1>17 DEF ControlAnswered, PollAgain, Poll, Returns, Calls, Goto
  <2> QED
    BY <2>1
<1>24. CASE DeadlinePasses(l)
  <2>1. Moves(l, FALSE)
    BY <1>24 DEF DeadlinePasses, Returns, Goto
  <2> QED
    BY <2>1
<1>18. CASE Polled(l)
  BY <1>18 DEF Polled, Goto
<1>19. CASE AbortAnswered(l)
  <2>1. Moves(l, TRUE)
    BY <1>19 DEF AbortAnswered, Emptied
  <2> QED
    BY <2>1
<1>20. CASE Resumed(l)
  <2>1. Moves(l, FALSE)
    BY <1>20 DEF Resumed, Returns, Goto
  <2> QED
    BY <2>1
<1>21. CASE Read(l)
  BY <1>21 DEF Read, Refreshes, Returns, Goto
<1>22. CASE QuittingEnds(l)
  BY <1>22 DEF QuittingEnds, Goto, RoundsAreText
<1>23. CASE Throws(l)
  <2>1. CASE Returns(l) /\ UNCHANGED << state, gates, exit, typed, input, count, live >>
    <3>1. Moves(l, FALSE)
      BY <1>23, <2>1 DEF Throws, Returns, Goto
    <3> QED
      BY <3>1
  <2>2. CASE Leaves(l, "quitting", "settling")
    <3>1. Moves(l, FALSE)
      BY <1>23, <2>2 DEF Throws, Leaves, Finish, Goto
    <3> QED
      BY <3>1
  <2> QED
    BY <1>23, <2>1, <2>2 DEF Throws
<1> QED
  BY <1>1, <1>2, <1>3, <1>4, <1>5, <1>6, <1>7, <1>8, <1>9, <1>11, <1>12, <1>13,
     <1>14, <1>15, <1>16, <1>17, <1>18, <1>19, <1>20, <1>21, <1>22, <1>23, <1>24
     DEF Step, Start, InTheRound, OfAControl

-----------------------------------------------------------------------------
(* A line is typed, and a handler settles.                                 *)

LEMMA TypeKeepsInv ==
    ASSUME Inv, TypeOK', NEW kind \in Inputs, Type(kind)
    PROVE  Inv'
<1> USE DEF Inv
<1>0. PICK l \in Lines : l = typed + 1
  BY DEF Type
<1>1. /\ pc[l] = "untyped"
      /\ typed' = l /\ input' = [ input EXCEPT ![l] = kind ] /\ input'[l] = kind
      /\ kind \in Kinds /\ Awaiting
  BY <1>0, BoundsAssumption DEF Type, Lines, TypeOK, Numbered
<1>2. /\ pc'[l] \in { "queued", "starting" }
      /\ \A k \in Lines \ { l } : pc'[k] = pc[k] /\ input'[k] = input[k]
  BY <1>0, <1>1 DEF Type, Goto, TypeOK
<1>3. UNCHANGED << sessionId, running, abortRequested, exit, at, count >>
  BY DEF Type, state
<1>4. Numbered'
  BY <1>0, <1>1, <1>2 DEF Numbered, Lines, TypeOK
<1>5. OneInSync' /\ RoutedInASession' /\ Asked' /\ Counted' /\ RoundsAreText'
  BY <1>1, <1>2, <1>3, PlacesFacts DEF OneInSync, Awaiting, RoutedInASession,
     Asked, Asking, Counted, RoundsAreText, RoundPlaces
<1>6. \A k \in Lines \ { l } : /\ InFlight(k)' <=> InFlight(k)
                               /\ Serving(k)' <=> Serving(k)
  BY <1>2 DEF InFlight, Serving
<1>7. ~InFlight(l) /\ pc[l] \notin InRound
  BY <1>1, PlacesFacts DEF InFlight
<1>8. running' => \E k \in Lines : pc'[k] \in InRound
  BY <1>2, <1>3, <1>7 DEF TextGateHeld
<1>9. running => textBusy
  BY PlacesFacts DEF TextGateHeld, RoundsAreText, RoundPlaces, Serving, InFlight
<1>10. \A i \in DOMAIN pendingInputs : pendingInputs[i] \in Lines /\ pendingInputs[i] < l
  <2>1. \A i \in DOMAIN pendingInputs : pendingInputs[i] \in Lines
    BY DEF TypeOK
  <2>2. \A k \in Lines : pc[k] = "queued" => ~(k > typed)
    BY DEF Numbered
  <2>3. \A k \in Lines : ~(k > typed) => k < l
    BY <1>0 DEF Lines, TypeOK
  <2> QED
    BY <2>1, <2>2, <2>3 DEF QueueIsQueued
<1>11. CASE Busy /\ kind \notin AlwaysAvailable
  <2>1. /\ pc'[l] = "queued" /\ pendingInputs' = Append(pendingInputs, l)
        /\ inputBusy' = inputBusy /\ textBusy' = textBusy
    BY <1>1, <1>0, <1>11 DEF Type, Goto, TypeOK
  <2>2. ~InFlight(l)' /\ ~Serving(l)' /\ ~Serving(l)
    BY <2>1, <1>7, PlacesFacts DEF InFlight, Serving
  <2>3. OneTextAtATime' /\ TextGateHeld' /\ InputGateHeld'
    BY <1>2, <1>6, <1>7, <1>8, <2>1, <2>2 DEF OneTextAtATime, TextGateHeld, InputGateHeld
  <2>4. /\ DOMAIN pendingInputs' = DOMAIN pendingInputs \cup { Len(pendingInputs) + 1 }
        /\ \A i \in DOMAIN pendingInputs : pendingInputs'[i] = pendingInputs[i]
        /\ pendingInputs'[Len(pendingInputs) + 1] = l
        /\ DOMAIN pendingInputs = 1 .. Len(pendingInputs) /\ Len(pendingInputs) \in Nat
    BY <1>1, <2>1 DEF TypeOK
  <2>5. QueueIsOrdered'
    BY <2>4, <1>10 DEF QueueIsOrdered
  <2>6. QueueIsQueued'
    BY <2>1, <2>4, <1>1, <1>2, <1>10, <1>11 DEF QueueIsQueued
  <2>7. QueueIsBehindAGate'
    BY <2>1, <1>9, <1>11 DEF QueueIsBehindAGate, Busy
  <2>8. ServedInOrder'
    BY <2>1, <1>1, <1>2, <1>3, <1>4 DEF ServedInOrder, Exiting, Numbered, Lines, TypeOK
  <2> QED
    BY <1>4, <1>5, <2>3, <2>5, <2>6, <2>7, <2>8
<1>12. CASE ~Busy \/ kind \in AlwaysAvailable
  <2>1. /\ pc'[l] = "starting" /\ pendingInputs' = pendingInputs
        /\ textBusy' = (textBusy \/ kind = "text")
        /\ inputBusy' = (inputBusy \/ kind \notin Confirmations)
    BY <1>1, <1>0, <1>12 DEF Type, Goto, TypeOK
  <2>2. InFlight(l)' /\ (Serving(l)' <=> kind = "text")
    BY <1>1, <2>1, PlacesFacts DEF InFlight, Serving
  <2>3. kind = "text" => ~textBusy
    BY <1>12 DEF Busy, AlwaysAvailable
  <2>4. OneTextAtATime'
    BY <1>6, <2>2, <2>3 DEF OneTextAtATime, TextGateHeld
  <2>5. TextGateHeld'
    BY <1>1, <1>6, <1>7, <1>8, <2>1, <2>2 DEF TextGateHeld, Serving
  <2>6. InputGateHeld'
    BY <1>1, <1>2, <1>6, <1>7, <2>1, <2>2 DEF InputGateHeld
  <2>7. QueueIsOrdered' /\ QueueIsQueued'
    BY <1>1, <1>2, <1>10, <2>1 DEF QueueIsOrdered, QueueIsQueued
  <2>8. QueueIsBehindAGate'
    BY <1>3, <2>1 DEF QueueIsBehindAGate, Exiting
  <2>9. ServedInOrder'
    <3>1. ASSUME ~Exiting, kind \notin AlwaysAvailable, NEW k \in Lines, pc'[k] = "queued"
          PROVE  FALSE
      <4>1. pendingInputs = << >>
        BY <3>1, <1>12 DEF QueueIsBehindAGate, Busy
      <4> QED
        BY <3>1, <4>1, <1>2, <2>1 DEF QueueIsQueued
    <3> QED
      BY <3>1, <1>1, <1>2, <1>3, <2>1 DEF ServedInOrder, Exiting
  <2> QED
    BY <1>4, <1>5, <2>4, <2>5, <2>6, <2>7, <2>8, <2>9
<1> QED
  BY <1>11, <1>12

LEMMA SettleKeepsInv ==
    ASSUME Inv, TypeOK', NEW l \in Lines, Settle(l)
    PROVE  Inv'
<1> USE DEF Inv
<1>1. /\ pc[l] = "settling" /\ InFlight(l) /\ pc[l] \notin InRound
      /\ \A k \in Lines : pc[k] \notin Sync
  BY PlacesFacts DEF Settle, InFlight, Awaiting
<1>2. /\ UNCHANGED << sessionId, running, abortRequested, exit, typed, input >>
      /\ \A k \in Lines \ { l } : at'[k] = at[k] /\ count'[k] = count[k]
  BY DEF Settle, state, TypeOK
<1>3. \A i \in DOMAIN pendingInputs :
          /\ pendingInputs[i] \in Lines \ { l } /\ pc[pendingInputs[i]] = "queued"
          /\ input[pendingInputs[i]] \notin AlwaysAvailable
  <2>1. \A i \in DOMAIN pendingInputs : pendingInputs[i] \in Lines
    BY DEF TypeOK
  <2> QED
    BY <1>1, <2>1 DEF QueueIsQueued
<1>4. running => \E k \in Lines \ { l } : pc[k] \in InRound
  BY <1>1 DEF TextGateHeld
<1>5. running => TextGate(l)
  <2>1. ASSUME running PROVE TextGate(l)
    <3>1. PICK k \in Lines \ { l } : pc[k] \in InRound
      BY <1>4, <2>1
    <3>2. Serving(k)
      BY <3>1, PlacesFacts DEF Serving, InFlight, RoundsAreText, RoundPlaces
    <3>3. textBusy
      BY <3>2 DEF TextGateHeld
    <3>4. ~Serving(l)
      BY <3>2, <3>1 DEF OneTextAtATime
    <3> QED
      BY <3>3, <3>4, <1>1 DEF TextGate, Serving
  <2> QED
    BY <2>1
<1>6. TextGate(l) <=> \E k \in Lines \ { l } : Serving(k)
  BY <1>1 DEF TextGate, TextGateHeld, OneTextAtATime, Serving
<1>7. CASE MayServe(l) /\ ~abortRequested /\ pendingInputs # << >>
  <2>0. PICK n \in Lines \ { l } : n = Head(pendingInputs) /\ n = pendingInputs[1]
    BY <1>3, <1>7 DEF TypeOK
  <2>1. pc[n] = "queued" /\ input[n] \notin AlwaysAvailable /\ 1 \in DOMAIN pendingInputs
    BY <1>3, <1>7, <2>0 DEF TypeOK
  <2>2. /\ pc'[l] = "done" /\ pc'[n] = "starting"
        /\ \A k \in Lines \ { l, n } : pc'[k] = pc[k]
    BY <1>7, <2>0 DEF Settle, TypeOK
  <2>3. /\ pendingInputs' = Tail(pendingInputs)
        /\ textBusy' = (input[n] = "text") /\ inputBusy' = TRUE
        /\ ~TextGate(l) /\ ~running /\ ~Exiting
    BY <1>7, <2>0 DEF Settle, MayServe
  <2>4. Numbered' /\ OneInSync' /\ RoutedInASession' /\ Asked' /\ Counted' /\ RoundsAreText'
    BY <1>1, <1>2, <2>1, <2>2, PlacesFacts DEF Numbered, OneInSync, RoutedInASession,
       Asked, Asking, Counted, RoundsAreText, RoundPlaces
  <2>5. \A k \in Lines : Serving(k)' <=> k = n /\ input[n] = "text"
    BY <1>2, <1>6, <2>2, <2>3, PlacesFacts DEF Serving, InFlight
  <2>6. OneTextAtATime' /\ TextGateHeld'
    BY <1>2, <2>3, <2>5 DEF OneTextAtATime, TextGateHeld
  <2>7. InputGateHeld'
    BY <1>2, <2>1, <2>2, PlacesFacts DEF InputGateHeld, InFlight, AlwaysAvailable, Confirmations
  <2>8. /\ DOMAIN pendingInputs = 1 .. Len(pendingInputs) /\ Len(pendingInputs) \in Nat
        /\ DOMAIN pendingInputs' = 1 .. Len(pendingInputs) - 1
        /\ \A i \in DOMAIN pendingInputs' : pendingInputs'[i] = pendingInputs[i + 1]
    BY <1>7, <2>3 DEF TypeOK
  <2>9. \A i \in DOMAIN pendingInputs : i # 1 => n < pendingInputs[i]
    BY <2>0, <2>1, <2>8 DEF QueueIsOrdered
  <2>10. QueueIsOrdered'
    <3>1. \A i \in DOMAIN pendingInputs' : i + 1 \in DOMAIN pendingInputs /\ i \in Nat
      BY <2>8
    <3>2. \A i, j \in Nat : i < j => i + 1 < j + 1
      OBVIOUS
    <3> QED
      BY <2>8, <3>1, <3>2 DEF QueueIsOrdered
  <2>11. QueueIsQueued'
    <3>1. ASSUME NEW i \in DOMAIN pendingInputs'
          PROVE  pc'[pendingInputs'[i]] = "queued"
      <4>1. i + 1 \in DOMAIN pendingInputs /\ i + 1 # 1
        BY <2>8
      <4>2. pendingInputs[i + 1] \in Lines \ { l, n }
        BY <1>3, <2>9, <4>1 DEF Lines
      <4> QED
        BY <1>3, <2>2, <2>8, <4>1, <4>2
    <3>2. ASSUME NEW k \in Lines, pc'[k] = "queued"
          PROVE  input'[k] \notin AlwaysAvailable
                 /\ \E i \in DOMAIN pendingInputs' : pendingInputs'[i] = k
      <4>1. k # l /\ k # n /\ pc[k] = "queued"
        BY <3>2, <2>2
      <4>2. PICK i \in DOMAIN pendingInputs : pendingInputs[i] = k
        BY <4>1 DEF QueueIsQueued
      <4>3. i - 1 \in DOMAIN pendingInputs' /\ (i - 1) + 1 = i
        BY <2>0, <2>8, <4>1, <4>2
      <4> QED
        BY <1>2, <2>8, <4>1, <4>2, <4>3 DEF QueueIsQueued
    <3> QED
      BY <3>1, <3>2 DEF QueueIsQueued
  <2>12. QueueIsBehindAGate'
    BY <2>3 DEF QueueIsBehindAGate
  <2>13. ServedInOrder'
    <3>1. ASSUME NEW k \in Lines, pc'[k] = "queued" PROVE n < k
      <4>1. k # l /\ k # n /\ pc[k] = "queued"
        BY <3>1, <2>2
      <4>2. PICK i \in DOMAIN pendingInputs : pendingInputs[i] = k
        BY <4>1 DEF QueueIsQueued
      <4> QED
        BY <2>0, <2>9, <4>1, <4>2
    <3>2. \A k, m \in Lines : m = n /\ k < m => ~(n < k)
      BY DEF Lines
    <3>3. \A k \in Lines : pc'[k] = "queued" => k # l /\ pc[k] = "queued"
      BY <2>2
    <3> QED
      BY <1>1, <1>2, <2>2, <2>3, <3>1, <3>2, <3>3 DEF ServedInOrder, Exiting
  <2> QED
    BY <2>4, <2>6, <2>7, <2>10, <2>11, <2>12, <2>13
<1>8. CASE ~(MayServe(l) /\ ~abortRequested /\ pendingInputs # << >>)
  <2>1. /\ pc'[l] = "done"
        /\ \A k \in Lines \ { l } :
              pc'[k] = IF abortRequested /\ pc[k] = "queued" THEN "dropped" ELSE pc[k]
    BY <1>8 DEF Settle, Emptied, TypeOK
  <2>2. /\ pendingInputs' = IF abortRequested THEN << >> ELSE pendingInputs
        /\ textBusy' = TextGate(l) /\ inputBusy' = InputGate(l)
    BY <1>8 DEF Settle
  <2>3. \A k \in Lines : /\ pc'[k] = "untyped" <=> pc[k] = "untyped"
                         /\ InFlight(k)' <=> InFlight(k) /\ k # l
                         /\ pc'[k] = "queued" => pc[k] = "queued" /\ k # l /\ ~abortRequested
    BY <1>1, <2>1, PlacesFacts DEF InFlight
  <2>4. Numbered' /\ OneInSync' /\ RoutedInASession' /\ Asked' /\ Counted' /\ RoundsAreText'
    BY <1>1, <1>2, <2>1, <2>3, PlacesFacts DEF Numbered, OneInSync, RoutedInASession,
       Asked, Asking, Counted, RoundsAreText, RoundPlaces
  <2>5. \A k \in Lines : Serving(k)' <=> Serving(k) /\ k # l
    BY <1>2, <2>3 DEF Serving
  <2>6. OneTextAtATime'
    BY <2>5 DEF OneTextAtATime
  <2>7. TextGateHeld'
    <3>1. textBusy' <=> \E k \in Lines : Serving(k)'
      BY <1>6, <2>2, <2>5
    <3>2. running' => \E k \in Lines : pc'[k] \in InRound
      BY <1>2, <1>4, <2>1, PlacesFacts
    <3> QED
      BY <3>1, <3>2 DEF TextGateHeld
  <2>8. InputGateHeld'
    <3>1. CASE TextGate(l)
      BY <1>2, <1>6, <2>3, <3>1 DEF InputGateHeld, Serving, Confirmations
    <3>2. CASE ~TextGate(l)
      BY <1>2, <2>2, <2>3, <3>2 DEF InputGateHeld, InputGate
    <3> QED
      BY <3>1, <3>2
  <2>9. QueueIsOrdered'
    BY <2>2 DEF QueueIsOrdered
  <2>10. QueueIsQueued'
    <3>1. CASE abortRequested
      BY <2>2, <2>3, <3>1 DEF QueueIsQueued
    <3>2. CASE ~abortRequested
      <4>1. pendingInputs' = pendingInputs
        BY <2>2, <3>2
      <4>2. \A k \in Lines \ { l } : pc'[k] = pc[k]
        BY <2>1, <3>2
      <4> QED
        BY <1>2, <1>3, <2>3, <4>1, <4>2 DEF QueueIsQueued
    <3> QED
      BY <3>1, <3>2
  <2>11. QueueIsBehindAGate'
    <3>1. ASSUME ~Exiting, ~abortRequested, pendingInputs # << >>
          PROVE  TextGate(l)
      BY <3>1, <1>5, <1>8 DEF MayServe
    <3> QED
      BY <3>1, <1>2, <2>2 DEF QueueIsBehindAGate, Exiting
  <2>12. ServedInOrder'
    <3>1. \A k, m \in Lines :
              pc'[k] = "queued" /\ pc[m] \in { "untyped", "queued" } => pc'[m] \in { "untyped", "queued" }
      BY <1>1, <2>1, <2>3
    <3> QED
      BY <1>2, <2>3, <3>1 DEF ServedInOrder, Exiting
  <2> QED
    BY <2>4, <2>6, <2>7, <2>8, <2>9, <2>10, <2>11, <2>12
<1> QED
  BY <1>7, <1>8

-----------------------------------------------------------------------------
(* The invariant holds, and what follows from it.                          *)

LEMMA InitInv == Init => Inv
<1> SUFFICES ASSUME Init PROVE Inv
  OBVIOUS
<1>1. TypeOK
  BY InitType
<1>2. /\ \A l \in Lines : pc[l] = "untyped" /\ input[l] = "none" /\ ~InFlight(l)
      /\ typed = 0 /\ pendingInputs = << >>
      /\ ~running /\ ~inputBusy /\ ~textBusy
  BY PlacesFacts DEF Init, InFlight
<1>3. \A l \in Lines : l > 0 /\ ~(l <= 0)
  BY BoundsAssumption DEF Lines
<1>4. Numbered
  BY <1>2, <1>3 DEF Numbered
<1>5. OneInSync /\ RoutedInASession /\ Asked /\ Counted /\ RoundsAreText
  BY <1>2, PlacesFacts DEF OneInSync, RoutedInASession, Asked, Asking, Counted,
     RoundsAreText, RoundPlaces
<1>6. OneTextAtATime /\ TextGateHeld /\ InputGateHeld
  BY <1>2 DEF OneTextAtATime, TextGateHeld, InputGateHeld, Serving
<1>7. QueueIsOrdered /\ QueueIsQueued /\ QueueIsBehindAGate /\ ServedInOrder
  BY <1>2 DEF QueueIsOrdered, QueueIsQueued, QueueIsBehindAGate, ServedInOrder
<1> QED
  BY <1>1, <1>4, <1>5, <1>6, <1>7 DEF Inv

\* The user, the goodbye and the engine disturb no handler.
LEMMA AsideKeepsInv ==
    ASSUME Inv, TypeOK', Interrupt \/ GoodbyeSaid \/ EngineMoves \/ UNCHANGED vars
    PROVE  Inv'
<1>1. /\ UNCHANGED << sessionId, running, gates, typed, input, pc, at, count >>
      /\ Exiting => Exiting'
  BY DEF Interrupt, GoodbyeSaid, EngineMoves, Finish, Exiting, vars, state, gates
<1> QED
  BY <1>1 DEF Inv, gates, Numbered, OneInSync, RoutedInASession, Asked, Asking, Counted,
     RoundsAreText, OneTextAtATime, TextGateHeld, InputGateHeld, Serving, InFlight,
     QueueIsOrdered, QueueIsQueued, QueueIsBehindAGate, ServedInOrder

LEMMA StepInv == Inv /\ [Next]_vars => Inv'
<1> SUFFICES ASSUME Inv, [Next]_vars PROVE Inv'
  OBVIOUS
<1>1. TypeOK'
  BY TypeStep DEF Inv
<1>2. ASSUME NEW kind \in Inputs, Type(kind) PROVE Inv'
  BY <1>1, <1>2, TypeKeepsInv
<1>3. ASSUME NEW l \in Lines, Step(l) PROVE Inv'
  <2>1. CASE Settle(l)
    BY <1>1, <2>1, SettleKeepsInv
  <2>2. CASE ~Settle(l)
    BY <1>1, <1>3, <2>2, StepMoves, MovesKeepInv
  <2> QED
    BY <2>1, <2>2
<1>4. CASE Interrupt \/ GoodbyeSaid \/ EngineMoves \/ UNCHANGED vars
  BY <1>1, <1>4, AsideKeepsInv
<1> QED
  BY <1>2, <1>3, <1>4 DEF Next

LEMMA Invariant == Spec => []Inv
BY InitInv, StepInv, PTL DEF Spec

\* Every variable keeps its type, and no call reads the mode of a session that
\* does not exist.
THEOREM ReplTypeCorrect == Spec => []TypeOK
<1>1. Inv => TypeOK
  BY DEF Inv
<1> QED
  BY <1>1, Invariant, PTL

\* Whatever the interleaving of answers, retries, controls and aborts, two text
\* lines are never in the hands of their handlers at once.
THEOREM OneTextAlways == Spec => []OneTextAtATime
<1>1. Inv => OneTextAtATime
  BY DEF Inv
<1> QED
  BY <1>1, Invariant, PTL

\* No line overtakes one that waits.
THEOREM InOrderAlways == Spec => []ServedInOrder
<1>1. Inv => ServedInOrder
  BY DEF Inv
<1> QED
  BY <1>1, Invariant, PTL

\* A gate is shut only while the handler that opens it is in flight, and nothing
\* waits in front of open gates.
THEOREM PromptNeverLocked == Spec => []NeverLockedOut
<1>1. Inv => NeverLockedOut
  <2> SUFFICES ASSUME Inv PROVE NeverLockedOut
    OBVIOUS
  <2>1. ASSUME running PROVE \E l \in Lines : Serving(l)
    BY <2>1, PlacesFacts DEF Inv, TextGateHeld, RoundsAreText, RoundPlaces, Serving, InFlight
  <2>2. textBusy => \E l \in Lines : Serving(l)
    BY DEF Inv, TextGateHeld
  <2>3. \A l \in Lines : Serving(l) => InFlight(l) /\ input[l] \notin Confirmations
    BY DEF Serving, Confirmations
  <2> QED
    BY <2>1, <2>2, <2>3 DEF Inv, NeverLockedOut, Busy, InputGateHeld, QueueIsBehindAGate
<1> QED
  BY <1>1, Invariant, PTL

\* An abort that was asked for stays asked for until its round has ended.
THEOREM AbortAlwaysRemembered == Spec => AbortIsRemembered
<1>1. Inv /\ [Next]_vars =>
          [ abortRequested /\ ~abortRequested' => \A l \in Lines : pc[l] \notin InRound ]_vars
  <2> SUFFICES ASSUME Inv, Next, abortRequested, ~abortRequested', NEW l \in Lines
               PROVE  pc[l] \notin InRound
    BY DEF vars
  <2>1. PICK k \in Lines : Route(k) /\ pc[k] = "routing"
    BY PlacesFacts DEF Next, Type, Interrupt, GoodbyeSaid, EngineMoves, Finish, Leaves, state,
       Step, Start, InTheRound, OfAControl, StartText, StartApprove, StartReject, StartNew,
       StartAbort, StartResume, StartReading, StartExit, Route, Settle, Created, SeesAbort,
       RoundCompletes, RoundFails, RoundUnauthorized, Retry, BackoffEnds, RoundEnds, Refreshed,
       ControlAnswered, Polled, PollAgain, DeadlinePasses, AbortAnswered, Resumed, Read,
       QuittingEnds, Throws
  <2>2. Serving(k) /\ pc[k] \notin InRound
    BY <2>1, PlacesFacts DEF Inv, RoundsAreText, RoundPlaces, Serving, InFlight
  <2>3. pc[l] \in InRound => Serving(l)
    BY PlacesFacts DEF Inv, RoundsAreText, RoundPlaces, Serving, InFlight
  <2> QED
    BY <2>2, <2>3 DEF Inv, OneTextAtATime
<1> QED
  BY <1>1, Invariant, PTL DEF Spec, AbortIsRemembered

\* After the goodbye no line that waits is served.
THEOREM GoodbyeIsFinal == Spec => NothingServedAfterGoodbye
<1>1. Inv /\ [Next]_vars =>
          [ \A l \in Lines : Exiting /\ pc[l] = "queued" => pc'[l] \in { "queued", "dropped" } ]_vars
  <2> SUFFICES ASSUME Inv, Next, NEW l \in Lines, Exiting, pc[l] = "queued"
               PROVE  pc'[l] \in { "queued", "dropped" }
    BY DEF vars
  <2>1. ASSUME NEW kind \in Inputs, Type(kind) PROVE pc'[l] = "queued"
    <3>1. ~(l > typed) /\ typed \in Nat /\ l \in Nat
      BY BoundsAssumption DEF Inv, TypeOK, Numbered, Lines
    <3>2. l # typed + 1
      BY <3>1
    <3> QED
      BY <2>1, <3>2 DEF Type, Goto, Inv, TypeOK
  <2>2. ASSUME NEW k \in Lines, Step(k) PROVE pc'[l] \in { "queued", "dropped" }
    <3>1. CASE Settle(k)
      BY <3>1, PlacesFacts DEF Settle, MayServe, Emptied, Inv, TypeOK
    <3>2. CASE ~Settle(k)
      <4>1. PICK empties \in BOOLEAN : Moves(k, empties)
        BY <2>2, <3>2, StepMoves
      <4> QED
        BY <4>1, PlacesFacts DEF Moves, InFlight
    <3> QED
      BY <3>1, <3>2
  <2>3. CASE Interrupt \/ GoodbyeSaid \/ EngineMoves
    BY <2>3 DEF Interrupt, GoodbyeSaid, EngineMoves
  <2> QED
    BY <2>1, <2>2, <2>3 DEF Next
<1> QED
  BY <1>1, Invariant, PTL DEF Spec, NothingServedAfterGoodbye

-----------------------------------------------------------------------------
(* The refinement.                                                         *)

Waiting == { l \in Lines : pc[l] = "queued" /\ input[l] = "text" }
Served == { l \in Lines : Serving(l) }

LEMMA TurnInit == Init => Turn!Init
BY PlacesFacts DEF Init, Turn!Init, Serving, InFlight, Exiting

\* A line that is typed passes, waits, or enters where nobody is before it.
LEMMA TypeTurns ==
    ASSUME Inv, NEW kind \in Inputs, Type(kind)
    PROVE  Turn!Next
<1> USE DEF Inv
<1>0. PICK l \in Lines : l = typed + 1
  BY DEF Type
<1>1. /\ pc[l] = "untyped" /\ ~InFlight(l)
      /\ typed' = l /\ input' = [ input EXCEPT ![l] = kind ] /\ input'[l] = kind
      /\ Exiting' = Exiting
  BY <1>0, BoundsAssumption, PlacesFacts DEF Type, Lines, TypeOK, Numbered, InFlight, Exiting
<1>2. \A k \in Lines \ { l } : pc'[k] = pc[k] /\ input'[k] = input[k]
  BY <1>0, <1>1 DEF Type, Goto, TypeOK
<1>3. l \notin Waiting /\ l \notin Served
  BY <1>1 DEF Waiting, Served, Serving
<1>4. \A k \in Lines \ { l } : Serving(k)' <=> Serving(k)
  BY <1>2 DEF Serving, InFlight
<1>5. pc'[l] \in { "queued", "starting" }
  BY <1>0 DEF Type, Goto, TypeOK
<1>6. CASE kind # "text"
  <2>1. Waiting' = Waiting /\ Served' = Served
    BY <1>1, <1>2, <1>3, <1>4, <1>6 DEF Waiting, Served, Serving
  <2> QED
    BY <1>0, <1>1, <2>1 DEF Turn!Next, Turn!Pass, Waiting, Served
<1>7. CASE kind = "text" /\ pc'[l] = "queued"
  <2>1. Waiting' = Waiting \cup { l } /\ Served' = Served
    BY <1>1, <1>2, <1>3, <1>4, <1>7, PlacesFacts DEF Waiting, Served, Serving, InFlight
  <2> QED
    BY <1>0, <1>1, <2>1 DEF Turn!Next, Turn!Wait, Waiting, Served
<1>8. CASE kind = "text" /\ pc'[l] = "starting"
  <2>1. ~Busy
    BY <1>0, <1>8 DEF Type, Goto, TypeOK, AlwaysAvailable
  <2>2. Served = {}
    BY <2>1 DEF Served, Busy, TextGateHeld
  <2>3. ~Exiting => Waiting = {}
    BY <2>1 DEF Waiting, Busy, QueueIsBehindAGate, QueueIsQueued
  <2>4. Waiting' = Waiting /\ Served' = { l }
    BY <1>1, <1>2, <1>3, <1>4, <1>8, <2>2, PlacesFacts DEF Waiting, Served, Serving, InFlight
  <2> QED
    BY <1>0, <1>1, <2>2, <2>3, <2>4 DEF Turn!Next, Turn!Enter, Waiting, Served
<1> QED
  BY <1>5, <1>6, <1>7, <1>8

\* A handler that moves on keeps its turn.
LEMMA MovesTurn ==
    ASSUME Inv, NEW l \in Lines, NEW empties \in BOOLEAN, Moves(l, empties)
    PROVE  [Turn!Next]_Turn!vars
<1>1. Served' = Served
  BY PlacesFacts DEF Moves, Served, Serving, InFlight
<1>2. Waiting' = IF empties THEN {} ELSE Waiting
  BY PlacesFacts DEF Moves, Waiting, InFlight
<1>3. typed' = typed /\ (Exiting => Exiting') /\ (empties => Exiting' = Exiting)
  BY DEF Moves, Exiting
<1>4. CASE Exiting' = Exiting
  BY <1>1, <1>2, <1>3, <1>4 DEF Turn!Next, Turn!Leave, Waiting, Served
<1>5. CASE Exiting' # Exiting
  BY <1>1, <1>2, <1>3, <1>5 DEF Turn!Next, Turn!Close, Waiting, Served, Exiting
<1> QED
  BY <1>4, <1>5

\* A handler that settles gives its turn to the oldest text line that waits, or
\* leaves it free.
LEMMA SettleTurns ==
    ASSUME Inv, NEW l \in Lines, Settle(l)
    PROVE  [Turn!Next]_Turn!vars
<1> USE DEF Inv
<1>1. pc[l] = "settling" /\ InFlight(l)
  BY PlacesFacts DEF Settle, InFlight
<1>2. typed' = typed /\ input' = input /\ Exiting' = Exiting
  BY DEF Settle, Exiting
<1>3. CASE MayServe(l) /\ ~abortRequested /\ pendingInputs # << >>
  <2>1. PICK n \in Lines : n = Head(pendingInputs) /\ n = pendingInputs[1]
    BY <1>3 DEF TypeOK
  <2>2. 1 \in DOMAIN pendingInputs /\ pc[n] = "queued"
    BY <1>3, <2>1 DEF TypeOK, QueueIsQueued
  <2>3. /\ pc'[l] = "done" /\ pc'[n] = "starting" /\ n # l
        /\ \A k \in Lines \ { l, n } : pc'[k] = pc[k]
    BY <1>1, <1>3, <2>1, <2>2 DEF Settle, TypeOK
  <2>4. Served \subseteq { l }
    <3>1. CASE Serving(l)
      BY <3>1 DEF Served, OneTextAtATime
    <3>2. CASE ~Serving(l)
      BY <3>2, <1>1, <1>3 DEF MayServe, TextGate, Served, TextGateHeld, Serving
    <3> QED
      BY <3>1, <3>2
  <2>5. CASE input[n] = "text"
    <3>1. Served' = { n } /\ Waiting' = Waiting \ { n } /\ n \in Waiting
      BY <1>1, <1>2, <2>2, <2>3, <2>4, <2>5, PlacesFacts DEF Served, Waiting, Serving, InFlight
    <3>2. \A k \in Waiting : n <= k
      <4>1. ASSUME NEW k \in Waiting PROVE n <= k
        <5>1. PICK i \in DOMAIN pendingInputs : pendingInputs[i] = k
          BY DEF Waiting, QueueIsQueued
        <5>2. i = 1 \/ 1 < i
          BY DEF TypeOK
        <5>3. k \in Nat /\ n \in Nat
          BY DEF Waiting, Lines
        <5> QED
          BY <2>1, <2>2, <5>1, <5>2, <5>3 DEF QueueIsOrdered
      <4> QED
        BY <4>1
    <3> QED
      BY <1>2, <1>3, <3>1, <3>2 DEF MayServe, Turn!Next, Turn!Follow, Waiting, Served
  <2>6. CASE input[n] # "text"
    <3>1. Served' = {} /\ Waiting' = Waiting
      BY <1>1, <1>2, <2>2, <2>3, <2>4, <2>6, PlacesFacts DEF Served, Waiting, Serving, InFlight
    <3> QED
      BY <1>2, <3>1 DEF Turn!Next, Turn!Leave, Waiting, Served
  <2> QED
    BY <2>5, <2>6
<1>4. CASE ~(MayServe(l) /\ ~abortRequested /\ pendingInputs # << >>)
  <2>1. /\ pc'[l] = "done"
        /\ \A k \in Lines \ { l } :
              pc'[k] = IF abortRequested /\ pc[k] = "queued" THEN "dropped" ELSE pc[k]
    BY <1>4 DEF Settle, Emptied, TypeOK
  <2>2. Served' \in { Served, {} }
    <3>1. \A k \in Lines : Serving(k)' <=> Serving(k) /\ k # l
      BY <1>2, <2>1, PlacesFacts DEF Serving, InFlight
    <3>2. CASE Serving(l)
      BY <3>1, <3>2 DEF Served, OneTextAtATime
    <3>3. CASE ~Serving(l)
      BY <3>1, <3>3 DEF Served
    <3> QED
      BY <3>2, <3>3
  <2>3. Waiting' \in { Waiting, {} }
    BY <1>1, <1>2, <2>1 DEF Waiting
  <2> QED
    BY <1>2, <2>2, <2>3 DEF Turn!Next, Turn!Leave, Waiting, Served
<1> QED
  BY <1>3, <1>4

\* The gates, the queue and the finally clauses of the REPL implement a
\* turnstile: text is served one line at a time, the oldest first, and after
\* the goodbye not at all.
THEOREM ServesLikeATurnstile == Spec => ImplementsTurnstile
<1>1. Inv /\ [Next]_vars => [Turn!Next]_Turn!vars
  <2> SUFFICES ASSUME Inv, [Next]_vars PROVE [Turn!Next]_Turn!vars
    OBVIOUS
  <2>1. ASSUME NEW kind \in Inputs, Type(kind) PROVE Turn!Next
    BY <2>1, TypeTurns
  <2>2. ASSUME NEW l \in Lines, Step(l) PROVE [Turn!Next]_Turn!vars
    <3>1. CASE Settle(l)
      BY <3>1, SettleTurns
    <3>2. CASE ~Settle(l)
      BY <2>2, <3>2, StepMoves, MovesTurn
    <3> QED
      BY <3>1, <3>2
  <2>3. CASE Interrupt \/ GoodbyeSaid \/ EngineMoves \/ UNCHANGED vars
    <3>1. UNCHANGED << pc, input, typed >> /\ (Exiting => Exiting')
      BY <2>3 DEF Interrupt, GoodbyeSaid, EngineMoves, Finish, Exiting, vars, state
    <3>2. Waiting' = Waiting /\ Served' = Served
      BY <3>1 DEF Waiting, Served, Serving, InFlight
    <3> QED
      BY <3>1, <3>2 DEF Turn!Next, Turn!Close, Turn!vars, Waiting, Served, Exiting
  <2> QED
    BY <2>1, <2>2, <2>3 DEF Next
<1> QED
  BY <1>1, TurnInit, Invariant, PTL DEF Spec, ImplementsTurnstile, Turn!Spec
=============================================================================
