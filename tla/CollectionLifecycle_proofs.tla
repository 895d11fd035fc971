--------------------- MODULE CollectionLifecycle_proofs ---------------------
(***************************************************************************)
(* For any life cycles, items and guards: the statuses, the flags in the    *)
(* items, the mirror of the flags and the gate, which are written by        *)
(* different hands, agree well enough for the collection to be the board    *)
(* StatusBoard describes.                                                   *)
(***************************************************************************)
EXTENDS CollectionLifecycle, TLAPS

\* A flag is up only on an item of an array whose status is terminal.
FlagsAreTrue == items # None => \A i \in DOMAIN items : items[i].flag => Indexed /\ items[i].status \in Terminal

\* The mirror is not there yet, or it says nothing that the statuses do not say.
MirrorIsTrue ==
    /\ Indexed => items # None
    /\ mirror # << >> =>
        /\ Indexed /\ items # None /\ DOMAIN mirror = DOMAIN items /\ items # << >>
        /\ \A i \in DOMAIN items : mirror[i] => items[i].status \in Terminal

\* An open gate means that all is terminal, where there is something that computes it.
GateIsTrue == guard /\ ~Ungated => AllTerminal(items)

\* An action is open in the review only; nothing is planned yet in the plan.
Staged ==
    /\ act # None => mode = "review"
    /\ mode = "plan" => items = << >> /\ mirror = << >> /\ ~guard

Inv == TypeOK /\ FlagsAreTrue /\ MirrorIsTrue /\ GateIsTrue /\ Staged

---------------------------------------------------------------------------

\* What a planning stage leaves is a list of items without flags.
LEMMA PlannedItems ==
    ASSUME NEW its \in Planned, descriptor.least \in Nat
    PROVE  /\ its \in Seq(Item)
           /\ \A i \in DOMAIN its : its[i].flag = FALSE
<1>1. PICK n \in 0 .. MaxItems :
        its \in [1 .. n -> [id : Ids \cup { None }, status : Words, flag : { FALSE }, size : 0 .. descriptor.least]]
  BY DEF Planned
<1>2. n \in Nat
  BY <1>1, LifecycleBounds
<1>3. ASSUME NEW i \in 1 .. n
      PROVE  its[i] \in Item /\ its[i].flag = FALSE
  <2> DEFINE F == [id : Ids \cup { None }, status : Words, flag : { FALSE }, size : 0 .. descriptor.least]
  <2>1. its[i] \in F
    BY <1>1
  <2>2. 0 .. descriptor.least \subseteq Nat
    OBVIOUS
  <2>3. F \subseteq Item
    BY <2>2 DEF Item
  <2>4. \A f \in F : f.flag = FALSE
    OBVIOUS
  <2> QED BY <2>1, <2>3, <2>4
<1>4. DOMAIN its = 1 .. n /\ its \in [1 .. n -> Item]
  BY <1>1, <1>3
<1>5. its \in Seq(Item)
  BY <1>2, <1>4
<1> QED BY <1>3, <1>4, <1>5

\* A life cycle that was not refused has moves between its statuses.
LEMMA LlmMoves ==
    ASSUME TypeOK, NEW m \in LlmTransitions(descriptor)
    PROVE  m \in Move /\ m.to \in Words
BY LifecyclesAreTyped DEF TypeOK, LlmTransitions, Move

\* The item of an intent that is not refused is there, and a declared move takes
\* it from its status to the one that was asked for.
LEMMA Grantable ==
    ASSUME TypeOK, act # None, Refusal(act) = "none"
    PROVE  /\ items # None
           /\ ItemIndex(act.item) \in DOMAIN items
           /\ \E m \in LlmTransitions(descriptor) :
                m.from = items[ItemIndex(act.item)].status /\ m.to = act.move.to
<1> DEFINE i == ItemIndex(act.item)
           moves == DeclaredMoves(act.move, items[i].status)
<1>1. i # 0 /\ moves # {}
  BY DEF Refusal
<1>2. i \in FirstCalled(act.item)
  BY <1>1 DEF ItemIndex
<1>3. i \in Index
  BY <1>2 DEF FirstCalled
<1>4. items # None /\ i \in DOMAIN items
  BY <1>3 DEF Index
<1>5. PICK m \in moves : TRUE
  BY <1>1
<1>6. m \in LlmTransitions(descriptor) /\ m.from = items[i].status /\ m.to = act.move.to
  BY <1>5 DEF DeclaredMoves
<1> QED BY <1>4, <1>6

\* A list with one item written anew.
LEMMA Rewritten ==
    ASSUME NEW its \in Seq(Item), NEW i \in DOMAIN its, NEW r \in Item,
           NEW new, new = [its EXCEPT ![i] = r]
    PROVE  /\ new \in Seq(Item) /\ DOMAIN new = DOMAIN its
           /\ \A j \in DOMAIN its : new[j] = IF j = i THEN r ELSE its[j]
           /\ [j \in DOMAIN new |-> new[j].status] =
                [[j \in DOMAIN its |-> its[j].status] EXCEPT ![i] = r.status]
<1>1. DOMAIN new = DOMAIN its /\ \A j \in DOMAIN its : new[j] = IF j = i THEN r ELSE its[j]
  OBVIOUS
<1>2. new \in Seq(Item)
  OBVIOUS
<1> QED BY <1>1, <1>2

\* Two paths of one item are one item written anew.
LEMMA PathsOfExcept ==
    ASSUME NEW its \in Seq(Item), NEW i \in DOMAIN its, NEW to, NEW b
    PROVE  /\ [its EXCEPT ![i].status = to] = [its EXCEPT ![i] = [its[i] EXCEPT !.status = to]]
           /\ [its EXCEPT ![i].status = to, ![i].flag = b] =
                [its EXCEPT ![i] = [its[i] EXCEPT !.status = to, !.flag = b]]
OBVIOUS

---------------------------------------------------------------------------

\* What a round does to the collection: nothing, or one declared move of one item,
\* with its flag and the mirror where there are any.
Moved(i, m) ==
    /\ items # None /\ i \in DOMAIN items /\ m \in LlmTransitions(descriptor)
    /\ items[i].status = m.from
    /\ items' # None /\ items' \in Seq(Item) /\ DOMAIN items' = DOMAIN items
    /\ items'[i].status = m.to
    /\ items'[i].flag = IF Indexed THEN m.to \in Terminal ELSE items[i].flag
    /\ \A j \in DOMAIN items : j # i => items'[j] = items[j]
    /\ [j \in DOMAIN items' |-> items'[j].status] =
         [[j \in DOMAIN items |-> items[j].status] EXCEPT ![i] = m.to]
    /\ mirror' = IF Indexed THEN [j \in DOMAIN items |-> items'[j].flag] ELSE mirror

LEMMA RoundMoves ==
    ASSUME TypeOK, RoundEnds
    PROVE  UNCHANGED collection \/ \E i \in DOMAIN items, m \in LlmTransitions(descriptor) : Moved(i, m)
<1>1. CASE UNCHANGED collection
  BY <1>1
<1>2. CASE ~UNCHANGED collection
  <2> DEFINE i == ItemIndex(act.item)
  <2>1. act # None /\ Refusal(act) = "none"
        /\ IF Indexed THEN ApplyInPlace(i, act.move.to) ELSE ApplyToText(i, act.move.to)
    BY <1>2 DEF RoundEnds, ApplyEvent
  <2>2. items # None /\ i \in DOMAIN items /\ items \in Seq(Item)
    BY <2>1, Grantable DEF TypeOK
  <2>3. PICK m \in LlmTransitions(descriptor) : m.from = items[i].status /\ m.to = act.move.to
    BY <2>1, Grantable
  <2>4. m.to \in Words
    BY LlmMoves
  <2>5. items[i] \in Item
    BY <2>2
  <2> HIDE DEF i
  <2>6. CASE Indexed
    <3> DEFINE r == [items[i] EXCEPT !.status = m.to, !.flag = m.to \in Terminal]
    <3>1. items' = [items EXCEPT ![i].status = m.to, ![i].flag = m.to \in Terminal]
          /\ mirror' = [j \in DOMAIN items |-> items'[j].flag]
      BY <2>1, <2>3, <2>6 DEF ApplyInPlace
    <3>2. items' = [items EXCEPT ![i] = r]
      BY <3>1, <2>2, PathsOfExcept
    <3> DEFINE b == m.to \in Terminal
    <3>0. b \in BOOLEAN
      OBVIOUS
    <3> HIDE DEF b
    <3>3. r \in Item /\ r.status = m.to /\ r.flag = b
      <4> DEFINE it == items[i]
      <4>1. it \in Item
        BY <2>5
      <4> HIDE DEF it
      <4>2. LET new == [it EXCEPT !.status = m.to, !.flag = b]
            IN  new \in Item /\ new.status = m.to /\ new.flag = b
        BY <3>0, <4>1, <2>4 DEF Item
      <4> QED BY <4>2 DEF it, b
    <3> USE DEF b
    <3> HIDE DEF r
    <3>4. /\ items' \in Seq(Item) /\ DOMAIN items' = DOMAIN items
          /\ \A j \in DOMAIN items : items'[j] = IF j = i THEN r ELSE items[j]
          /\ [j \in DOMAIN items' |-> items'[j].status] =
               [[j \in DOMAIN items |-> items[j].status] EXCEPT ![i] = m.to]
      BY <3>2, <3>3, <2>2, Rewritten
    <3>5. items' # None
      BY <3>4, NoListIsNone
    <3>6. Moved(i, m)
      BY <2>2, <2>3, <2>6, <3>1, <3>3, <3>4, <3>5 DEF Moved
    <3> QED BY <2>2, <3>6
  <2>7. CASE ~Indexed
    <3> DEFINE r == [items[i] EXCEPT !.status = m.to]
    <3>1. items' = [items EXCEPT ![i].status = m.to] /\ mirror' = mirror
      BY <2>1, <2>3, <2>7 DEF ApplyToText
    <3>2. items' = [items EXCEPT ![i] = r]
      BY <3>1, <2>2, PathsOfExcept
    <3>3. r \in Item /\ r.status = m.to /\ r.flag = items[i].flag
      <4> DEFINE it == items[i]
      <4>1. it \in Item
        BY <2>5
      <4> HIDE DEF it
      <4>2. LET new == [it EXCEPT !.status = m.to]
            IN  new \in Item /\ new.status = m.to /\ new.flag = it.flag
        BY <4>1, <2>4 DEF Item
      <4> QED BY <4>2 DEF it
    <3> HIDE DEF r
    <3>4. /\ items' \in Seq(Item) /\ DOMAIN items' = DOMAIN items
          /\ \A j \in DOMAIN items : items'[j] = IF j = i THEN r ELSE items[j]
          /\ [j \in DOMAIN items' |-> items'[j].status] =
               [[j \in DOMAIN items |-> items[j].status] EXCEPT ![i] = m.to]
      BY <3>2, <3>3, <2>2, Rewritten
    <3>5. items' # None
      BY <3>4, NoListIsNone
    <3>6. Moved(i, m)
      BY <2>2, <2>3, <2>7, <3>1, <3>3, <3>4, <3>5 DEF Moved
    <3> QED BY <2>2, <3>6
  <2> QED BY <2>6, <2>7
<1> QED BY <1>1, <1>2

\* The gate a round leaves tells the truth, if mirror and flags do.
LEMMA GateTells ==
    ASSUME TypeOK', Gate, FlagsAreTrue', MirrorIsTrue', UNCHANGED descriptor,
           ComputesAfterRound \/ Indexed \/ Written \/ Ungated
    PROVE  GateIsTrue'
<1>1. CASE Indexed
  <2> SUFFICES ASSUME guard' PROVE AllTerminal(items)'
    BY DEF GateIsTrue
  <2>1. mirror' # << >> /\ \A i \in DOMAIN mirror' : mirror'[i]
    BY <1>1 DEF Gate, AllFlagged
  <2> QED BY <2>1 DEF MirrorIsTrue, AllTerminal
<1>2. CASE ~Indexed /\ (ComputesAfterRound \/ Written)
  BY <1>2 DEF Gate, GateIsTrue, AllTerminal, Terminal
<1>3. CASE Ungated
  BY <1>3 DEF Ungated, GateIsTrue, Indexed, LlmTransitions
<1> QED BY <1>1, <1>2, <1>3

\* After every round the invariant holds again.
LEMMA RoundKeepsInv ==
    ASSUME Inv, RoundEnds
    PROVE  Inv'
<1> USE DEF Inv
<1>1. UNCHANGED descriptor /\ Gate /\ Transits /\ act' = None /\ mode = "review" /\ granted' \subseteq Guards
  BY DEF RoundEnds, Staged, TypeOK
<1>2. mode' \in { "review", "done" }
  BY <1>1 DEF Transits
<1>3. guard' \in BOOLEAN
  BY <1>1 DEF Gate, AllFlagged, AllTerminal, Asked, TypeOK
<1>4. (items' = None \/ items' \in Seq(Item)) /\ mirror' \in Seq(BOOLEAN) /\ FlagsAreTrue' /\ MirrorIsTrue'
  <2>1. CASE UNCHANGED collection
    BY <2>1, <1>1 DEF collection, TypeOK, FlagsAreTrue, MirrorIsTrue, Indexed, Terminal
  <2>2. ASSUME NEW i \in DOMAIN items, NEW m \in LlmTransitions(descriptor), Moved(i, m)
        PROVE  (items' = None \/ items' \in Seq(Item)) /\ mirror' \in Seq(BOOLEAN) /\ FlagsAreTrue' /\ MirrorIsTrue'
    <3>1. Indexed' = Indexed /\ Terminal' = Terminal
      BY <1>1 DEF Indexed, Terminal
    <3>2. items' \in Seq(Item) /\ DOMAIN items' = DOMAIN items /\ items # None /\ items' # None
          /\ items \in Seq(Item)
      BY <2>2 DEF Moved, TypeOK
    <3>3. \A j \in DOMAIN items' : items'[j].flag => Indexed /\ items'[j].status \in Terminal
      BY <2>2, <3>2 DEF Moved, FlagsAreTrue
    <3>4. FlagsAreTrue'
      BY <3>1, <3>3 DEF FlagsAreTrue
    <3>5. CASE Indexed
      <4>1. mirror' = [j \in DOMAIN items |-> items'[j].flag]
        BY <2>2, <3>5 DEF Moved
      <4>2. DOMAIN items = 1 .. Len(items) /\ Len(items) \in Nat
        BY <3>2
      <4>3. \A j \in DOMAIN items : items'[j].flag \in BOOLEAN
        <5> SUFFICES ASSUME NEW j \in DOMAIN items PROVE items'[j].flag \in BOOLEAN
          OBVIOUS
        <5>1. items'[j] \in Item
          BY <3>2
        <5> QED BY <5>1 DEF Item
      <4>4. mirror' \in Seq(BOOLEAN)
        BY <4>1, <4>2, <4>3
      <4>5. items' # << >>
        BY <2>2, <3>2 DEF Moved
      <4>6. DOMAIN mirror' = DOMAIN items' /\ \A j \in DOMAIN items' : mirror'[j] => items'[j].status \in Terminal
        BY <4>1, <3>2, <3>3
      <4>7. MirrorIsTrue'
        BY <3>1, <3>2, <3>5, <4>5, <4>6 DEF MirrorIsTrue
      <4> QED BY <3>2, <3>4, <4>4, <4>7
    <3>6. CASE ~Indexed
      <4>1. mirror' = mirror
        BY <2>2, <3>6 DEF Moved
      <4>2. mirror = << >> /\ mirror \in Seq(BOOLEAN)
        BY <3>6 DEF MirrorIsTrue, TypeOK
      <4> QED BY <3>1, <3>2, <3>4, <4>1, <4>2, <3>6 DEF MirrorIsTrue
    <3> QED BY <3>5, <3>6
  <2> QED BY <2>1, <2>2, RoundMoves
<1>5. TypeOK'
  BY <1>1, <1>2, <1>3, <1>4 DEF TypeOK, Accepted
<1>6. ComputesAfterRound \/ Indexed \/ Ungated
  BY DEF ComputesAfterRound, Ungated
<1>7. GateIsTrue'
  BY <1>1, <1>4, <1>5, <1>6, GateTells
<1>8. Staged'
  BY <1>1, <1>2 DEF Staged
<1> QED BY <1>4, <1>5, <1>7, <1>8

\* The invariant is inductive.
LEMMA InitInv == Init => Inv
<1> SUFFICES ASSUME Init PROVE Inv
  OBVIOUS
<1>0. << >> \in Seq(Item) /\ << >> \in Seq(BOOLEAN)
  OBVIOUS
<1>1. << >> \in Seq(Item) /\ << >> \in Seq(BOOLEAN) /\ << >> # None
  BY <1>0, NoListIsNone, Zenon
<1>2. TypeOK
  BY <1>1 DEF Init, TypeOK
<1>3. FlagsAreTrue /\ MirrorIsTrue /\ GateIsTrue /\ Staged
  BY <1>1 DEF Init, FlagsAreTrue, MirrorIsTrue, GateIsTrue, Staged
<1> QED BY <1>2, <1>3 DEF Inv

LEMMA PlanKeepsInv ==
    ASSUME Inv, PlanCompletes
    PROVE  Inv'
<1> USE DEF Inv
<1>1. /\ UNCHANGED << descriptor, act, violation, granted >> /\ mode' = "review" /\ mode = "plan"
      /\ mirror' = << >> /\ Gate /\ items = << >> /\ act = None
  BY DEF PlanCompletes, Staged
<1>2. descriptor \in Descriptors /\ descriptor.least \in Nat
  BY LifecyclesAreTyped DEF TypeOK
<1>3. << >> # None /\ None \notin Planned
  <2>1. << >> \in Seq(Item)
    OBVIOUS
  <2>2. None \notin Planned
    <3> SUFFICES ASSUME None \in Planned PROVE FALSE
      OBVIOUS
    <3> QED BY <1>2, NoListIsNone, PlannedItems
  <2> QED BY <2>1, <2>2, NoListIsNone, Zenon
<1>4. items' = None => ~Indexed
  BY <1>3 DEF PlanCompletes
<1>5. items' # None => items' \in Seq(Item) /\ \A i \in DOMAIN items' : items'[i].flag = FALSE
  BY <1>2, PlannedItems DEF PlanCompletes
<1>6. guard' \in BOOLEAN
  BY <1>1 DEF Gate, AllFlagged, AllTerminal, Asked, TypeOK
<1>7. TypeOK'
  BY <1>1, <1>5, <1>6 DEF TypeOK, Accepted
<1>8. FlagsAreTrue' /\ MirrorIsTrue' /\ Staged'
  BY <1>1, <1>4, <1>5 DEF FlagsAreTrue, MirrorIsTrue, Staged, Indexed, Terminal
<1>9. GateIsTrue'
  BY <1>1, <1>7, <1>8, GateTells DEF ComputesAfterRound, Ungated
<1> QED BY <1>7, <1>8, <1>9

LEMMA StepKeepsInv == Inv /\ [Next]_vars => Inv'
<1> SUFFICES ASSUME Inv, [Next]_vars PROVE Inv'
  OBVIOUS
<1>1. CASE PlanCompletes
  BY <1>1, PlanKeepsInv
<1>2. CASE Intents \/ CompletesReview \/ ActsOtherwise
  <2>1. PICK a : Opens(a)
    BY <1>2 DEF Intents, Intends, CompletesReview, ActsOtherwise
  <2> QED BY <2>1 DEF Opens, Inv, TypeOK, Accepted, FlagsAreTrue, MirrorIsTrue, GateIsTrue, Staged, collection,
                      Indexed, Terminal, Ungated, LlmTransitions, AllTerminal
<1>3. CASE RoundEnds
  BY <1>3, RoundKeepsInv
<1>4. CASE RoundFails
  BY <1>4 DEF RoundFails, Inv, TypeOK, Accepted, FlagsAreTrue, MirrorIsTrue, GateIsTrue, Staged, collection,
              Indexed, Terminal, Ungated, LlmTransitions, AllTerminal
<1>5. CASE UNCHANGED vars
  BY <1>5 DEF vars, Inv, TypeOK, Accepted, FlagsAreTrue, MirrorIsTrue, GateIsTrue, Staged, collection,
              Indexed, Terminal, Ungated, LlmTransitions, AllTerminal
<1> QED BY <1>1, <1>2, <1>3, <1>4, <1>5 DEF Next

THEOREM CollectionInvariant == Spec => []Inv
<1> QED BY InitInv, StepKeepsInv, PTL DEF Spec

\* Every reachable state of a collection is well typed, for any life cycles and
\* any number of items.
THEOREM CollectionTypeCorrect == Spec => []TypeOK
<1>1. Inv => TypeOK
  BY DEF Inv
<1> QED BY <1>1, CollectionInvariant, PTL

---------------------------------------------------------------------------
(* The refinement.                                                          *)

\* A collection whose items are all terminal is a board that is settled.
LEMMA SettledIfTerminal ==
    ASSUME TypeOK', AllTerminal(items)'
    PROVE  Board!Settled'
<1>1. items' # None /\ items' \in Seq(Item) /\ Statuses' = [i \in DOMAIN items' |-> items'[i].status]
  BY DEF AllTerminal, TypeOK, Statuses
<1>2. \A i \in DOMAIN Statuses' : Statuses'[i] \in Terminal'
  BY <1>1 DEF AllTerminal
<1>3. items' # << >> => Statuses' # << >>
  <2> SUFFICES ASSUME items' # << >> PROVE 1 \in DOMAIN Statuses'
    OBVIOUS
  <2> QED BY <1>1
<1> QED BY <1>1, <1>2, <1>3 DEF Board!Settled, AllTerminal

\* The review is left with a settled board, if anything computes its gate.
LEMMA LeavesSettled ==
    ASSUME Inv, Inv', RoundEnds
    PROVE  /\ Phase = "open"
           /\ Phase' = "open" \/ (Phase' = "closed" /\ Board!Settled')
<1>1. UNCHANGED descriptor /\ mode = "review" /\ mode' \in { "review", "done" }
      /\ (mode' = "done" => guard')
  BY DEF RoundEnds, Transits, Completes, Inv, Staged
<1>2. Ungated' = Ungated
  BY <1>1 DEF Ungated, Indexed, LlmTransitions
<1>3. CASE mode' = "done" /\ ~Ungated
  <2>1. AllTerminal(items)'
    BY <1>1, <1>2, <1>3 DEF Inv, GateIsTrue
  <2>2. Board!Settled'
    BY <2>1, SettledIfTerminal DEF Inv
  <2> QED BY <1>1, <1>2, <1>3, <2>2 DEF Phase
<1>4. CASE ~(mode' = "done" /\ ~Ungated)
  BY <1>1, <1>2, <1>4 DEF Phase
<1> QED BY <1>3, <1>4

\* A round moves one item along a declared edge, or none.
LEMMA RoundOnBoard ==
    ASSUME Inv, Inv', RoundEnds
    PROVE  Board!Next \/ UNCHANGED Board!all
<1>1. UNCHANGED descriptor
  BY DEF RoundEnds
<1>2. UNCHANGED Board!rules
  BY <1>1 DEF Board!rules, Edges, Terminal, LlmTransitions
<1>3. Phase = "open" /\ (Phase' = "open" \/ (Phase' = "closed" /\ Board!Settled'))
  BY LeavesSettled
<1>4. CASE UNCHANGED collection
  <2>1. Statuses' = Statuses
    BY <1>4 DEF collection, Statuses
  <2>2. CASE Phase' = "open"
    BY <1>2, <1>3, <2>1, <2>2 DEF Board!all
  <2>3. CASE Phase' = "closed" /\ Board!Settled'
    <3>1. Board!Settled
      BY <1>1, <2>1, <2>3 DEF Board!Settled, Terminal
    <3>2. Board!Close
      BY <1>2, <1>3, <2>1, <2>3, <3>1 DEF Board!Close, Board!rules
    <3> QED BY <3>2 DEF Board!Next
  <2> QED BY <1>3, <2>2, <2>3
<1>5. ASSUME NEW i \in DOMAIN items, NEW m \in LlmTransitions(descriptor), Moved(i, m)
      PROVE  Board!Move
  <2>1. i \in DOMAIN Statuses /\ Statuses[i] = m.from /\ Statuses' = [Statuses EXCEPT ![i] = m.to]
    BY <1>5 DEF Moved, Statuses
  <2> DEFINE e == [from |-> m.from, to |-> m.to]
  <2>2. e \in Edges /\ e.from = m.from /\ e.to = m.to
    BY DEF Edges
  <2> HIDE DEF e
  <2>3. \E j \in DOMAIN Statuses, f \in Edges : Statuses[j] = f.from /\ Statuses' = [Statuses EXCEPT ![j] = f.to]
    BY <2>1, <2>2
  <2> QED BY <1>2, <1>3, <2>3 DEF Board!Move
<1>6. TypeOK
  BY DEF Inv
<1> QED BY <1>4, <1>5, <1>6, RoundMoves DEF Board!Next

\* Planning fills the board, rounds move it, and opening or failing rounds leave it.
THEOREM LifecycleIsABoard == Spec => ImplementsBoard
<1>1. Init => Board!Init
  <2> SUFFICES ASSUME Init PROVE Phase = "empty" /\ Statuses = << >>
    BY DEF Board!Init
  <2> QED BY DEF Init, Phase, Statuses
<1>2. Inv /\ Inv' /\ [Next]_vars => [Board!Next]_Board!all
  <2> SUFFICES ASSUME Inv, Inv', [Next]_vars PROVE Board!Next \/ UNCHANGED Board!all
    OBVIOUS
  <2>1. CASE PlanCompletes
    <3>1. UNCHANGED descriptor /\ mode = "plan" /\ mode' = "review"
      BY <2>1 DEF PlanCompletes
    <3>2. Phase = "empty" /\ Phase' = "open"
      BY <3>1 DEF Phase
    <3>3. UNCHANGED Board!rules
      BY <3>1 DEF Board!rules, Edges, Terminal, LlmTransitions
    <3>4. Board!Fill
      BY <3>2, <3>3 DEF Board!Fill
    <3> QED BY <3>4 DEF Board!Next
  <2>2. CASE Intents \/ CompletesReview \/ ActsOtherwise \/ RoundFails \/ UNCHANGED vars
    <3>1. UNCHANGED << descriptor, mode, items >>
      BY <2>2 DEF Intents, Intends, CompletesReview, ActsOtherwise, Opens, RoundFails, vars, collection
    <3> QED BY <3>1 DEF Board!all, Board!rules, Edges, Terminal, LlmTransitions, Statuses, Phase, Ungated, Indexed
  <2>3. CASE RoundEnds
    BY <2>3, RoundOnBoard
  <2> QED BY <2>1, <2>2, <2>3 DEF Next
<1> QED BY <1>1, <1>2, CollectionInvariant, PTL DEF ImplementsBoard, Board!Spec, Spec
=============================================================================
