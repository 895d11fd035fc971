----------------------- MODULE ConfirmationLoop_proofs -----------------------
(***************************************************************************)
(* Proofs about ConfirmationLoop, for any decisions without dead ends, any  *)
(* number of items and any bounds.  The argument is one of shape: there is  *)
(* always a k such that the first k items are terminal, the next may be     *)
(* proposed, and the rest wait; the mirror is exactly "i <= k".  What is    *)
(* remembered of decisions is settled: a repeated call, or a pending        *)
(* decision that is looked at again, is the one that was applied last.      *)
(***************************************************************************)
EXTENDS ConfirmationLoop, TLAPS

Shape(its, n, k) ==
    /\ its \in [1 .. n -> Item]
    /\ \A i \in 1 .. n :
        /\ i <= k => its[i].status \in TerminalStatuses
        /\ i > k => its[i].status \notin TerminalStatuses
        /\ i > k + 1 => its[i].status = Initial
        /\ its[i].flag = (i <= k)

Below(n, k) == [i \in 1 .. n |-> i <= k]

\* The item whose turn it is, 0 for none.
After(n, k) == IF k < n THEN k + 1 ELSE 0

Scalars ==
    /\ mode \in { "plan", "review", "done", "blocked" } /\ round \in { "none", "text", "confirm" }
    /\ draft \in Drafts /\ unapplied \in BOOLEAN
    /\ guard \in BOOLEAN /\ idle \in 0 .. Cap /\ arm \in BOOLEAN

Settled ==
    /\ pending \in { None } \cup Pendings
    /\ asked \in { None } \cup Calls
    /\ pending # None => pending.target = 0 \/ Fingerprint(pending) = applied
    /\ asked # None => /\ asked.stamp # 0
                       /\ asked.word \in Decisions => applied = [stamp |-> asked.stamp]

Ruled(k) ==
    /\ ruling \in [1 .. MaxItems -> { None } \cup [status : Statuses, text : Drafts]]
    /\ \A i \in 1 .. k : ruling[i] = [status |-> items[i].status, text |-> items[i].text]

Loop(n, k) ==
    /\ Shape(items, n, k)
    /\ mirror = Below(n, k)
    /\ Ruled(k)
    /\ shown \in { 0, After(n, k) } /\ cursor \in 0 .. n
    /\ mode = "plan" => n = 0 /\ round = "none" /\ ~unapplied
    /\ unapplied => k = n

Inv == Scalars /\ Settled /\ \E n \in 0 .. MaxItems : \E k \in 0 .. n : Loop(n, k)

---------------------------------------------------------------------------
(* What the helpers say of a collection of this shape.                      *)

\* In such a collection the proposed item, if there is one, is the next.
LEMMA Next1 ==
    ASSUME NEW n \in Nat, NEW k \in 0 .. n, NEW its, Shape(its, n, k)
    PROVE  FirstProposed(its) = IF k < n /\ its[k + 1].status = ProposedStatus THEN k + 1 ELSE 0
<1>1. DOMAIN its = 1 .. n
  BY DEF Shape
<1>2. ASSUME NEW i \in 1 .. n, its[i].status = ProposedStatus PROVE i = k + 1
  BY <1>2, NoDeadEnds DEF Shape
<1>3. CASE k < n /\ its[k + 1].status = ProposedStatus
  <2>1. With(its, ProposedStatus) = { k + 1 }
    BY <1>1, <1>2, <1>3 DEF With
  <2>2. First({ k + 1 }) = k + 1
    BY DEF First
  <2> QED BY <2>1, <2>2, <1>3 DEF FirstProposed
<1>4. CASE ~(k < n /\ its[k + 1].status = ProposedStatus)
  <2>1. With(its, ProposedStatus) = {}
    BY <1>1, <1>2, <1>4 DEF With
  <2> QED BY <2>1, <1>4 DEF FirstProposed
<1> QED BY <1>3, <1>4

\* A proposal goes to the next item, and that is the item the author is shown.
LEMMA NextItem ==
    ASSUME NEW n \in Nat, NEW k \in 0 .. n, NEW its, Shape(its, n, k)
    PROVE  /\ ProposalTargetIndex(its) = After(n, k)
           /\ ActiveItemIndex(its) = After(n, k)
<1> USE DEF After
<1>1. DOMAIN its = 1 .. n
  BY DEF Shape
<1>2. FirstProposed(its) = IF k < n /\ its[k + 1].status = ProposedStatus THEN k + 1 ELSE 0
  BY Next1
<1>3. CASE k < n /\ its[k + 1].status = ProposedStatus
  BY <1>2, <1>3 DEF ProposalTargetIndex, ActiveItemIndex
<1>4. CASE k < n /\ its[k + 1].status # ProposedStatus
  <2>1. its[k + 1].status = Initial
    <3>1. its[k + 1] \in Item /\ its[k + 1].status \notin TerminalStatuses
      BY <1>4 DEF Shape
    <3> QED BY <3>1, <1>4 DEF Item, Statuses
  <2>2. k + 1 \in With(its, Initial)
    BY <1>1, <1>4, <2>1 DEF With
  <2>3. \A j \in With(its, Initial) : k + 1 <= j /\ j \in Nat
    BY <1>1, NoDeadEnds DEF With, Shape
  <2>4. First(With(its, Initial)) = k + 1
    <3> DEFINE S == With(its, Initial)
    <3>1. k + 1 \in S /\ \A j \in S : k + 1 <= j /\ j \in Nat
      BY <2>2, <2>3
    <3> HIDE DEF S
    <3>2. First(S) \in S /\ \A j \in S : First(S) <= j
      BY <3>1 DEF First
    <3>3. First(S) <= k + 1 /\ k + 1 <= First(S) /\ First(S) \in Nat
      BY <3>1, <3>2
    <3>4. First(S) = k + 1
      BY <3>3
    <3> QED BY <3>4 DEF S
  <2>5. FirstProposed(its) = 0
    BY <1>2, <1>4
  <2>6. ProposalTargetIndex(its) = k + 1
    BY <2>2, <2>4, <2>5 DEF ProposalTargetIndex
  <2> QED BY <2>6, <1>4 DEF ActiveItemIndex
<1>5. CASE k = n
  <2>1. With(its, Initial) = {} /\ Open(its) = {}
    BY <1>1, <1>5, NoDeadEnds DEF With, Open, Shape
  <2> QED BY <2>1, <1>2, <1>5 DEF ProposalTargetIndex, ActiveItemIndex
<1> QED BY <1>3, <1>4, <1>5

\* Nothing is ever demoted.
LEMMA NoneDemoted ==
    ASSUME NEW n \in Nat, NEW k \in 0 .. n, NEW its, Shape(its, n, k)
    PROVE  Demoted(its) = {} /\ EnforceOneProposedAtATime(its) = its
<1>1. DOMAIN its = 1 .. n
  BY DEF Shape
<1>2. ASSUME NEW i \in 1 .. n, its[i].status = ProposedStatus PROVE i = k + 1
  BY <1>2, NoDeadEnds DEF Shape
<1>3. Demoted(its) = {}
  BY <1>1, <1>2 DEF Demoted, With
<1>4. its = [i \in DOMAIN its |-> its[i]]
  BY DEF Shape
<1>5. [i \in DOMAIN its |-> IF i \in {} THEN [status |-> Initial, flag |-> FALSE, text |-> its[i].text]
                          ELSE its[i]] = [i \in DOMAIN its |-> its[i]]
  OBVIOUS
<1>6. EnforceOneProposedAtATime(its) =
        [i \in DOMAIN its |-> IF i \in {} THEN [status |-> Initial, flag |-> FALSE, text |-> its[i].text]
                              ELSE its[i]]
  BY <1>3, Zenon DEF EnforceOneProposedAtATime
<1> QED BY <1>3, <1>4, <1>5, <1>6, Zenon

\* The mirror says that all is terminal exactly if k has come to the end.
LEMMA AllBelow ==
    ASSUME NEW n \in Nat, NEW k \in 0 .. n
    PROVE  AllTerminal(Below(n, k)) <=> (n # 0 /\ k = n)
<1>1. DOMAIN Below(n, k) = 1 .. n /\ \A i \in 1 .. n : Below(n, k)[i] <=> i <= k
  BY DEF Below
<1>2. (1 .. n = {}) <=> n = 0
  OBVIOUS
<1>3. CASE k = n
  <2>1. \A i \in 1 .. n : i <= k
    BY <1>3
  <2>2. \A i \in DOMAIN Below(n, k) : Below(n, k)[i]
    BY <1>1, <2>1
  <2>3. AllTerminal(Below(n, k)) <=> DOMAIN Below(n, k) # {}
    BY <2>2, Zenon DEF AllTerminal
  <2> QED BY <1>1, <1>2, <1>3, <2>3
<1>4. CASE k < n
  <2>1. n \in 1 .. n /\ ~Below(n, k)[n]
    BY <1>1, <1>4
  <2> QED BY <1>1, <2>1, <1>4 DEF AllTerminal
<1> QED BY <1>3, <1>4

\* The derived cursor is an index of the collection or none.
LEMMA CursorTyped ==
    ASSUME NEW n \in Nat, NEW k \in 0 .. n, mirror' = Below(n, k), Derive
    PROVE  cursor' \in 0 .. n /\ guard' \in BOOLEAN
<1>1. DOMAIN mirror' = 1 .. n /\ \A i \in 1 .. n : mirror'[i] <=> i <= k
  BY DEF Below
<1>2. guard' \in BOOLEAN
  BY DEF Derive, AllTerminal
<1>3. CASE k < n
  <2> DEFINE S == { i \in DOMAIN mirror' : ~mirror'[i] }
  <2>1. S = { i \in 1 .. n : i > k }
    BY <1>1
  <2>2. k + 1 \in S /\ \A j \in S : k + 1 <= j
    BY <2>1, <1>3
  <2>3. S \subseteq 1 .. n
    BY <2>1
  <2>4. \E i \in DOMAIN mirror' : ~mirror'[i]
    BY <2>2
  <2>5. cursor' = First(S)
    BY <2>4 DEF Derive
  <2> HIDE DEF S
  <2>6. First(S) \in S
    BY <2>2 DEF First
  <2>7. First(S) \in 1 .. n
    BY <2>3, <2>6
  <2>8. 1 .. n \subseteq 0 .. n
    OBVIOUS
  <2> QED BY <2>5, <2>7, <2>8, <1>2, Zenon
<1>4. CASE k = n
  <2>1. ~\E i \in DOMAIN mirror' : ~mirror'[i]
    BY <1>1, <1>4
  <2>2. cursor' = 0
    BY <2>1, Zenon DEF Derive
  <2> QED BY <2>2, <1>2
<1> QED BY <1>3, <1>4

---------------------------------------------------------------------------
(* A decision arrives.                                                      *)

\* Only the call itself can take effect, and only on the item that is before the
\* user: whatever else is looked at again is settled.
LEMMA WhatIsEffective ==
    ASSUME NEW n \in 0 .. MaxItems, NEW k \in 0 .. n, Loop(n, k), Settled, NEW call \in Calls,
           NEW p, p = PendingDecision(Targeted(call)), Effective(p)
    PROVE  /\ p = Targeted(call) /\ call.word \in Decisions
           /\ call.word \in NeedsInstruction => call.told
           /\ k < n /\ p.target = k + 1 /\ items[k + 1].status = ProposedStatus
<1>0. n \in Nat /\ Shape(items, n, k)
  BY LoopBounds DEF Loop
<1>1. Targeted(call).word = call.word /\ Targeted(call).told = call.told
      /\ Targeted(call).target = FirstProposed(items)
  BY DEF Targeted
<1>2. p = Targeted(call)
  <2>1. CASE call.word \in Decisions
    BY <2>1, <1>1 DEF PendingDecision, SaveDecision
  <2>2. CASE call.word \notin Decisions /\ pending = None
    BY <2>2, <1>1 DEF PendingDecision, SaveDecision
  <2>3. CASE call.word \notin Decisions /\ pending # None
    <3>1. p = pending
      BY <2>3, <1>1 DEF PendingDecision, SaveDecision
    <3>2. pending.target = 0 \/ Fingerprint(pending) = applied
      BY <2>3 DEF Settled
    <3> QED BY <3>1, <3>2 DEF Effective, Unapplied, Invalid
  <2> QED BY <2>1, <2>2, <2>3
<1>3. p.target # 0 /\ p.word \in Decisions /\ (p.word \in NeedsInstruction => p.told)
  BY DEF Effective, Unapplied, Invalid
<1>4. FirstProposed(items) = IF k < n /\ items[k + 1].status = ProposedStatus THEN k + 1 ELSE 0
  BY <1>0, Next1
<1> QED BY <1>1, <1>2, <1>3, <1>4

\* What a call leaves of the items and the mirror: all as it was, or the item
\* before the user has the status of the decision.
LEMMA WhatIngestDoes ==
    ASSUME NEW n \in 0 .. MaxItems, NEW k \in 0 .. n, Loop(n, k), Settled, NEW call \in Calls,
           Ingest(call)
    PROVE  LET p == PendingDecision(Targeted(call))
               s == Outcome[call.word]
               m == IF s \in TerminalStatuses THEN k + 1 ELSE k
           IN  /\ ~Effective(p) => /\ items' = items /\ mirror' = mirror /\ Shape(items', n, k)
                                   /\ shown' = After(n, k)
               /\ Effective(p) =>
                    /\ m \in 0 .. n /\ Shape(items', n, m) /\ mirror' = Below(n, m)
                    /\ items' = [items EXCEPT ![k + 1].status = s, ![k + 1].flag = s \in TerminalStatuses]
                    /\ shown' = After(n, m)
<1> DEFINE p == PendingDecision(Targeted(call))
           s == Outcome[call.word]
           m == IF s \in TerminalStatuses THEN k + 1 ELSE k
           ruled == ApplyPendingDecision(p)
<1>0. n \in Nat /\ k \in Nat /\ Shape(items, n, k) /\ mirror = Below(n, k) /\ DOMAIN items = 1 .. n
  BY LoopBounds DEF Loop, Shape
<1>1. /\ items' = EnforceOneProposedAtATime(ruled)
      /\ mirror' = [i \in DOMAIN mirror |->
                      IF i \in Demoted(ruled) THEN FALSE
                      ELSE IF Effective(p) /\ i = p.target THEN Outcome[p.word] \in TerminalStatuses
                      ELSE mirror[i]]
      /\ shown' = ActiveItemIndex(items')
  BY Zenon DEF Ingest, EnforceStatus, Summarize
<1>2. DOMAIN mirror = 1 .. n /\ \A i \in 1 .. n : mirror[i] = (i <= k)
  BY <1>0 DEF Below
<1>3. CASE ~Effective(p)
  <2>1. ruled = items
    BY <1>3, Zenon DEF ApplyPendingDecision
  <2>2. Demoted(items) = {} /\ EnforceOneProposedAtATime(items) = items
    BY <1>0, NoneDemoted
  <2>3. items' = items
    BY <1>1, <2>1, <2>2, Zenon
  <2>4. mirror' = [i \in 1 .. n |-> mirror[i]]
    BY <1>1, <1>2, <1>3, <2>1, <2>2
  <2>5. mirror' = mirror
    BY <2>4, <1>0, <1>2 DEF Below
  <2>6. ActiveItemIndex(items) = After(n, k)
    BY <1>0, NextItem
  <2> QED BY <1>0, <1>1, <1>3, <2>3, <2>5, <2>6, Zenon
<1>4. CASE Effective(p)
  <2>1. /\ p.word = call.word /\ call.word \in Decisions
        /\ k < n /\ p.target = k + 1 /\ items[k + 1].status = ProposedStatus
    <3>1. p = Targeted(call) /\ call.word \in Decisions
          /\ k < n /\ p.target = k + 1 /\ items[k + 1].status = ProposedStatus
      BY <1>4, WhatIsEffective
    <3> QED BY <3>1 DEF Targeted
  <2>2. s \in Statuses /\ (s \in TerminalStatuses) \in BOOLEAN
    BY <2>1, NoDeadEnds DEF Statuses
  <2>3. ruled = [items EXCEPT ![k + 1].status = s, ![k + 1].flag = s \in TerminalStatuses]
    BY <1>4, <2>1 DEF ApplyPendingDecision
  <2>4. m \in 0 .. n
    BY <2>1, <1>0
  <2>5. /\ ruled \in [1 .. n -> Item]
        /\ ruled[k + 1].status = s /\ ruled[k + 1].flag = (s \in TerminalStatuses)
        /\ \A i \in 1 .. n : i # k + 1 => ruled[i] = items[i]
    <3>1. items \in [1 .. n -> Item] /\ k + 1 \in 1 .. n
      BY <1>0, <2>1 DEF Shape
    <3>2. items[k + 1] \in Item
      BY <3>1
    <3>3. [[items[k + 1] EXCEPT !.status = s] EXCEPT !.flag = s \in TerminalStatuses] \in Item
      BY <3>2, <2>2 DEF Item
    <3> HIDE DEF s
    <3> QED BY <3>1, <3>2, <3>3, <2>3 DEF Item
  <2>6. Shape(ruled, n, m)
    <3>1. \A i \in 1 .. n :
            /\ i <= m => ruled[i].status \in TerminalStatuses
            /\ i > m => ruled[i].status \notin TerminalStatuses
            /\ i > m + 1 => ruled[i].status = Initial
            /\ ruled[i].flag = (i <= m)
      <4> TAKE i \in 1 .. n
      <4>0. /\ i <= k => items[i].status \in TerminalStatuses
            /\ i > k => items[i].status \notin TerminalStatuses
            /\ i > k + 1 => items[i].status = Initial
            /\ items[i].flag = (i <= k)
        BY <1>0 DEF Shape
      <4>1. CASE i = k + 1
        BY <4>1, <2>5, <1>0
      <4>2. CASE i # k + 1
        BY <4>0, <4>2, <2>5, <1>0
      <4> QED BY <4>1, <4>2
    <3> QED BY <3>1, <2>5 DEF Shape
  <2>7. Demoted(ruled) = {} /\ EnforceOneProposedAtATime(ruled) = ruled
    <3> HIDE DEF ruled, m
    <3> QED BY <1>0, <2>4, <2>6, NoneDemoted
  <2>8. items' = ruled
    BY <1>1, <2>7, Zenon
  <2>9. mirror' = Below(n, m)
    <3>1. mirror' = [i \in 1 .. n |-> IF i = k + 1 THEN s \in TerminalStatuses ELSE i <= k]
      BY <1>1, <1>2, <1>4, <2>1, <2>7
    <3>2. \A i \in 1 .. n : (IF i = k + 1 THEN s \in TerminalStatuses ELSE i <= k) = (i <= m)
      BY <1>0
    <3> QED BY <3>1, <3>2 DEF Below
  <2>10. ActiveItemIndex(items') = After(n, m)
    <3> HIDE DEF ruled, m
    <3>1. Shape(items', n, m)
      BY <2>6, <2>8
    <3> QED BY <3>1, <1>0, <2>4, NextItem
  <2> QED BY <1>1, <1>4, <2>3, <2>4, <2>6, <2>8, <2>9, <2>10, Zenon
<1> QED BY <1>3, <1>4

\* The memory of decisions stays settled when a call arrives.
LEMMA StaysSettled ==
    ASSUME NEW n \in 0 .. MaxItems, NEW k \in 0 .. n, Loop(n, k), Settled, NEW call \in Calls,
           Ingest(call),
           \/ asked' = IF call.stamp # 0 /\ Targeted(call).target # 0 THEN call ELSE None
           \/ asked' = asked /\ asked = call /\ asked # None
    PROVE  Settled'
<1> DEFINE input == Targeted(call)
           p == PendingDecision(input)
<1>0. n \in Nat /\ k \in Nat /\ n <= MaxItems /\ MaxItems \in Nat /\ Shape(items, n, k)
  BY LoopBounds DEF Loop
<1>1. /\ pending' = SaveDecision(input)
      /\ applied' = IF Unapplied(p) THEN Fingerprint(p) ELSE applied
  BY Zenon DEF Ingest, EnforceStatus
<1>2. FirstProposed(items) \in 0 .. MaxItems
  BY <1>0, Next1
<1>3. input \in Pendings /\ input.word = call.word /\ input.stamp = call.stamp
  BY <1>2 DEF Targeted, Pendings, Calls
<1>4. pending' \in { None } \cup Pendings
  BY <1>1, <1>3 DEF SaveDecision, Settled
<1>5. call.word \in Decisions => p = input /\ pending' = input
  BY <1>1, <1>3 DEF PendingDecision, SaveDecision
<1>6. call.word \notin Decisions => pending' = pending /\ (pending # None => p = pending)
  BY <1>1, <1>3 DEF PendingDecision, SaveDecision
<1>7. pending' # None => pending'.target = 0 \/ Fingerprint(pending') = applied'
  <2>1. CASE call.word \in Decisions
    BY <2>1, <1>1, <1>5 DEF Unapplied, Invalid
  <2>2. CASE call.word \notin Decisions
    BY <2>2, <1>1, <1>6 DEF Unapplied, Invalid, Settled
  <2> QED BY <2>1, <2>2
<1>8. asked' \in { None } \cup Calls
  BY DEF Settled
<1>9. asked' # None => asked'.stamp # 0
  BY DEF Settled
<1>10. asked' # None /\ asked'.word \in Decisions => applied' = [stamp |-> asked'.stamp]
  <2> SUFFICES ASSUME asked' # None, asked'.word \in Decisions PROVE applied' = [stamp |-> asked'.stamp]
    OBVIOUS
  <2>1. asked' = call /\ call.word \in Decisions /\ call.stamp # 0
    BY DEF Settled
  <2>2. p = input /\ Fingerprint(p) = [stamp |-> call.stamp]
    BY <2>1, <1>3, <1>5 DEF Fingerprint
  <2>3. CASE asked' = asked /\ asked = call /\ asked # None
    <3>1. applied = [stamp |-> call.stamp]
      BY <2>1, <2>3 DEF Settled
    <3> QED BY <3>1, <2>1, <2>2, <1>1
  <2>4. CASE asked' = IF call.stamp # 0 /\ Targeted(call).target # 0 THEN call ELSE None
    <3>1. input.target # 0
      BY <2>4
    <3> QED BY <3>1, <2>1, <2>2, <1>1 DEF Unapplied, Invalid
  <2> QED BY <2>3, <2>4
<1> QED BY <1>4, <1>7, <1>8, <1>9, <1>10 DEF Settled, Fingerprint

\* A repeated call takes no effect.
LEMMA RepeatsAreSwallowed ==
    ASSUME NEW n \in 0 .. MaxItems, NEW k \in 0 .. n, Loop(n, k), Settled, asked # None
    PROVE  ~Effective(PendingDecision(Targeted(asked)))
<1> DEFINE p == PendingDecision(Targeted(asked))
<1> SUFFICES ASSUME Effective(p) PROVE FALSE
  OBVIOUS
<1>1. asked \in Calls
  BY DEF Settled
<1>2. p = Targeted(asked) /\ asked.word \in Decisions
  BY <1>1, WhatIsEffective
<1>3. applied = [stamp |-> asked.stamp] /\ asked.stamp # 0
  BY <1>2 DEF Settled
<1>4. Fingerprint(p) = [stamp |-> asked.stamp]
  BY <1>2, <1>3 DEF Fingerprint, Targeted
<1> QED BY <1>3, <1>4 DEF Effective, Unapplied

\* The invariant survives a call, with one more item terminal or as many.
LEMMA ConfirmKeeps ==
    ASSUME NEW n \in 0 .. MaxItems, NEW k \in 0 .. n, Scalars, Settled, Loop(n, k),
           NEW call \in NewCalls, Confirm(call)
    PROVE  Scalars' /\ Settled' /\ \E m \in 0 .. n : Loop(n, m)'
<1> DEFINE p == PendingDecision(Targeted(call))
           s == Outcome[call.word]
           d == IF Effective(p) /\ s \in TerminalStatuses THEN k + 1 ELSE k
<1>0. n \in Nat /\ k \in Nat /\ n <= MaxItems /\ MaxItems \in Nat /\ Shape(items, n, k)
  BY LoopBounds DEF Loop
<1>a. call \in Calls
  BY LoopBounds DEF NewCalls, Calls, FreshStamps
<1>b. Ingest(call) /\ Rule(Targeted(call)) /\ round' = "confirm" /\ mode = "review" /\ mode' = mode
      /\ UNCHANGED << draft, unapplied, guard, cursor, idle, arm >>
      /\ asked' = IF call.stamp # 0 /\ Targeted(call).target # 0 THEN call ELSE None
  BY DEF Confirm, proposal, derived, escape
<1>1. Scalars'
  BY <1>b DEF Scalars
<1>2. Settled'
  BY <1>a, <1>b, StaysSettled
<1>c. /\ d \in 0 .. n /\ Shape(items', n, d) /\ mirror' = Below(n, d)
      /\ \A i \in 1 .. k : items'[i] = items[i]
      /\ d = k \/ items'[k + 1] = [[items[k + 1] EXCEPT !.status = s] EXCEPT !.flag = s \in TerminalStatuses]
      /\ shown' = After(n, d)
  <2>1. mirror = Below(n, k)
    BY DEF Loop
  <2>2. CASE ~Effective(p)
    <3>1. items' = items /\ mirror' = mirror /\ shown' = After(n, k)
      BY <2>2, <1>a, <1>b, WhatIngestDoes
    <3> QED BY <1>0, <2>1, <2>2, <3>1
  <2>3. CASE Effective(p)
    <3>1. k < n
      BY <2>3, <1>a, WhatIsEffective
    <3>2. /\ d \in 0 .. n /\ Shape(items', n, d) /\ mirror' = Below(n, d)
          /\ items' = [items EXCEPT ![k + 1].status = s, ![k + 1].flag = s \in TerminalStatuses]
          /\ shown' = After(n, d)
      BY <2>3, <1>a, <1>b, WhatIngestDoes
    <3>3. DOMAIN items = 1 .. n
      BY <1>0 DEF Shape
    <3>4. \A i \in 1 .. k : items'[i] = items[i]
      BY <3>1, <3>2, <3>3, <1>0
    <3>5. items'[k + 1] = [[items[k + 1] EXCEPT !.status = s] EXCEPT !.flag = s \in TerminalStatuses]
      <4>1. k + 1 \in DOMAIN items /\ items[k + 1] \in Item
        BY <3>1, <3>3, <1>0 DEF Shape
      <4>2. items' = [items EXCEPT ![k + 1].status = s, ![k + 1].flag = s \in TerminalStatuses]
        BY <3>2
      <4> HIDE DEF s, d, p
      <4> QED BY <4>1, <4>2 DEF Item
    <3>6. d = IF s \in TerminalStatuses THEN k + 1 ELSE k
      BY <2>3
    <3> HIDE DEF d, s
    <3> QED BY <3>2, <3>4, <3>5, <3>6
  <2> QED BY <2>2, <2>3
<1>d. PICK m \in 0 .. n : m = d
  BY <1>c
<1>e. m = k \/ m = k + 1
  BY <1>d
<1>3. /\ Shape(items', n, m) /\ mirror' = Below(n, m)
      /\ \A i \in 1 .. k : items'[i] = items[i]
      /\ m = k \/ items'[k + 1] = [[items[k + 1] EXCEPT !.status = s] EXCEPT !.flag = s \in TerminalStatuses]
      /\ shown' = After(n, m)
  <2> HIDE DEF d, s
  <2> QED BY <1>c, <1>d
<1>4. Ruled(m)'
  <2>0. ruling \in [1 .. MaxItems -> { None } \cup [status : Statuses, text : Drafts]]
        /\ \A i \in 1 .. k : ruling[i] = [status |-> items[i].status, text |-> items[i].text]
    BY DEF Loop, Ruled
  <2>1. Targeted(call).target = FirstProposed(items) /\ Targeted(call).word = call.word
        /\ Targeted(call).told = call.told
    BY DEF Targeted
  <2>2. FirstProposed(items) = IF k < n /\ items[k + 1].status = ProposedStatus THEN k + 1 ELSE 0
    BY <1>0, Next1
  <2>3. CASE ruling' = ruling /\ m = k
    BY <2>0, <2>3, <1>3 DEF Ruled
  <2>4. CASE /\ k < n /\ call.word \in Decisions
             /\ ruling' = [ruling EXCEPT ![k + 1] = [status |-> s, text |-> items[k + 1].text]]
    <3>1. s \in Statuses
      BY <2>4, NoDeadEnds DEF Statuses
    <3>2. items[k + 1] \in Item /\ k + 1 \in 1 .. MaxItems
      BY <1>0, <2>4 DEF Shape
    <3>3. [status |-> s, text |-> items[k + 1].text] \in [status : Statuses, text : Drafts]
      BY <3>1, <3>2 DEF Item
    <3>4. ruling' \in [1 .. MaxItems -> { None } \cup [status : Statuses, text : Drafts]]
      BY <2>0, <2>4, <3>3
    <3>5. \A i \in 1 .. k : ruling'[i] = [status |-> items'[i].status, text |-> items'[i].text]
      BY <2>0, <2>4, <1>0, <1>3
    <3>6. m = k + 1 => ruling'[k + 1] = [status |-> items'[k + 1].status, text |-> items'[k + 1].text]
      <4> HAVE m = k + 1
      <4> HIDE DEF s
      <4>1. items'[k + 1] = [[items[k + 1] EXCEPT !.status = s] EXCEPT !.flag = s \in TerminalStatuses]
        BY <1>3, <1>0
      <4>2. items'[k + 1].status = s /\ items'[k + 1].text = items[k + 1].text
        BY <4>1, <3>2 DEF Item
      <4>3. ruling'[k + 1] = [status |-> s, text |-> items[k + 1].text]
        BY <2>0, <2>4, <3>2
      <4> QED BY <4>2, <4>3
    <3>7. \A i \in 1 .. m : i \in 1 .. k \/ (i = k + 1 /\ m = k + 1)
      BY <1>0, <1>e
    <3> QED BY <3>4, <3>5, <3>6, <3>7, Zenon DEF Ruled
  <2>5. Effective(p) => k < n /\ items[k + 1].status = ProposedStatus /\ call.word \in Decisions
                        /\ (call.word \in NeedsInstruction => call.told)
    BY <1>a, WhatIsEffective
  <2>6. ruling' = IF FirstProposed(items) # 0 /\ call.word \in Decisions /\ (call.word \in NeedsInstruction => call.told)
                  THEN [ruling EXCEPT ![FirstProposed(items)] = [status |-> s, text |-> items[FirstProposed(items)].text]]
                  ELSE ruling
    BY <1>b, <2>1 DEF Rule
  <2>7. CASE ~(k < n /\ items[k + 1].status = ProposedStatus)
    <3>1. ruling' = ruling
      BY <2>2, <2>6, <2>7
    <3>2. m = k
      BY <2>5, <2>7, <1>d
    <3> QED BY <2>3, <3>1, <3>2
  <2>8. CASE /\ k < n /\ items[k + 1].status = ProposedStatus
             /\ ~(call.word \in Decisions /\ (call.word \in NeedsInstruction => call.told))
    <3>1. ruling' = ruling
      BY <2>6, <2>8
    <3>2. m = k
      BY <2>5, <2>8, <1>d
    <3> QED BY <2>3, <3>1, <3>2
  <2>9. CASE /\ k < n /\ items[k + 1].status = ProposedStatus
             /\ call.word \in Decisions /\ (call.word \in NeedsInstruction => call.told)
    <3>1. FirstProposed(items) = k + 1 /\ k + 1 # 0
      BY <2>2, <2>9, <1>0
    <3>2. ruling' = [ruling EXCEPT ![k + 1] = [status |-> s, text |-> items[k + 1].text]]
      BY <2>6, <2>9, <3>1
    <3> QED BY <2>4, <2>9, <3>2
  <2> QED BY <2>7, <2>8, <2>9
<1>5. Loop(n, m)'
  <2>1. cursor' \in 0 .. n /\ mode' # "plan"
    BY <1>b DEF Loop
  <2>2. unapplied' => m = n
    <3>1. unapplied' => k = n
      BY <1>b DEF Loop
    <3> QED BY <3>1, <1>0, <1>e
  <2> QED BY <1>3, <1>4, <2>1, <2>2 DEF Loop
<1> QED BY <1>1, <1>2, <1>3, <1>5, Zenon

\* A repeated call changes nothing but the summary and what is pending.
LEMMA RepeatKeeps ==
    ASSUME NEW n \in 0 .. MaxItems, NEW k \in 0 .. n, Scalars, Settled, Loop(n, k), Repeat
    PROVE  Scalars' /\ Settled' /\ Loop(n, k)' /\ items' = items
<1>1. Ingest(asked) /\ asked # None /\ round' = "confirm" /\ mode = "review" /\ mode' = mode
      /\ UNCHANGED << draft, unapplied, guard, cursor, idle, arm, asked, ruling >>
  BY DEF Repeat, proposal, derived, escape
<1>2. asked \in Calls
  BY <1>1 DEF Settled
<1>3. Settled'
  BY <1>1, <1>2, StaysSettled
<1>4. items' = items /\ mirror' = mirror /\ Shape(items', n, k) /\ shown' = After(n, k)
  BY <1>1, <1>2, RepeatsAreSwallowed, WhatIngestDoes
<1>5. Scalars'
  BY <1>1 DEF Scalars
<1>6. Loop(n, k)'
  BY <1>1, <1>4 DEF Loop, Ruled
<1> QED BY <1>3, <1>4, <1>5, <1>6

LEMMA TextKeeps ==
    ASSUME NEW n \in 0 .. MaxItems, NEW k \in 0 .. n, Scalars, Settled, Loop(n, k), TextOpens
    PROVE  Scalars' /\ Settled' /\ Loop(n, k)' /\ items' = items
<1>1. UNCHANGED << mode, items, mirror, applied, pending, draft, unapplied, guard, cursor, idle, arm,
                   asked, ruling >>
      /\ round' = "text" /\ mode = "review"
      /\ (shown' = shown \/ shown' = ActiveItemIndex(items'))
  BY DEF TextOpens, Summarize, proposal, derived, escape
<1>2. n \in Nat /\ Shape(items, n, k)
  BY LoopBounds DEF Loop
<1>3. shown' \in { 0, After(n, k) }
  <2>1. ActiveItemIndex(items) = After(n, k)
    BY <1>2, NextItem
  <2> QED BY <1>1, <2>1 DEF Loop
<1>4. Scalars' /\ Settled'
  BY <1>1 DEF Scalars, Settled, Fingerprint
<1>5. Loop(n, k)'
  BY <1>1, <1>3 DEF Loop, Ruled, Shape
<1> QED BY <1>1, <1>4, <1>5

---------------------------------------------------------------------------
(* A round ends.                                                            *)

\* The choreography puts a text on the next item or changes no item.
LEMMA ChoreographKeeps ==
    ASSUME NEW n \in 0 .. MaxItems, NEW k \in 0 .. n, Loop(n, k), NEW text \in Drafts,
           NEW grown \in BOOLEAN, ChoreographCollection(text, grown), UNCHANGED ruling
    PROVE  /\ Shape(items', n, k) /\ mirror' = Below(n, k) /\ mirror' = mirror /\ Ruled(k)'
           /\ draft' \in Drafts /\ unapplied' \in BOOLEAN /\ (unapplied' => k = n)
           /\ \/ items' = items
              \/ grown /\ k < n
                 /\ items' = [items EXCEPT ![k + 1] = [status |-> ProposedStatus, flag |-> FALSE, text |-> text]]
<1> DEFINE it == [status |-> ProposedStatus, flag |-> FALSE, text |-> text]
<1>0. n \in Nat /\ k \in Nat /\ Shape(items, n, k) /\ DOMAIN items = 1 .. n
  BY LoopBounds DEF Loop, Shape
<1>1. ProposalTargetIndex(items) = IF k < n THEN k + 1 ELSE 0
  BY <1>0, NextItem DEF After
<1>2. /\ items' = IF grown /\ ProposalTargetIndex(items) # 0
                  THEN [items EXCEPT ![ProposalTargetIndex(items)] = it] ELSE items
      /\ unapplied' = (grown /\ ProposalTargetIndex(items) = 0)
      /\ draft' = text /\ mirror' = mirror
  BY DEF ChoreographCollection
<1>3. unapplied' \in BOOLEAN /\ (unapplied' => k = n) /\ draft' \in Drafts
  <2>1. unapplied' \in BOOLEAN /\ draft' \in Drafts
    BY <1>2, Zenon
  <2>2. ASSUME k < n PROVE ProposalTargetIndex(items) # 0
    BY <2>2, <1>0, <1>1
  <2>3. unapplied' => ~(k < n)
    BY <2>2, <1>2, Zenon
  <2>4. ~(k < n) => k = n
    BY <1>0
  <2> QED BY <2>1, <2>3, <2>4, Zenon
<1>4. mirror' = Below(n, k) /\ mirror' = mirror
  BY <1>2 DEF Loop
<1>5. CASE items' = items
  <2>1. Ruled(k)'
    BY <1>5 DEF Loop, Ruled
  <2> QED BY <1>0, <1>3, <1>4, <1>5, <2>1, Zenon
<1>6. CASE grown /\ k < n /\ items' = [items EXCEPT ![k + 1] = it]
  <2>1. it \in Item /\ it.status = ProposedStatus /\ it.flag = FALSE
    BY DEF Item, Statuses
  <2> HIDE DEF it
  <2>2. items' \in [1 .. n -> Item] /\ items'[k + 1] = it
        /\ \A i \in 1 .. n : i # k + 1 => items'[i] = items[i]
    BY <1>0, <1>6, <2>1 DEF Shape
  <2>3. Shape(items', n, k)
    <3>1. \A i \in 1 .. n :
            /\ i <= k => items'[i].status \in TerminalStatuses
            /\ i > k => items'[i].status \notin TerminalStatuses
            /\ i > k + 1 => items'[i].status = Initial
            /\ items'[i].flag = (i <= k)
      <4> TAKE i \in 1 .. n
      <4>0. /\ i <= k => items[i].status \in TerminalStatuses
            /\ i > k => items[i].status \notin TerminalStatuses
            /\ i > k + 1 => items[i].status = Initial
            /\ items[i].flag = (i <= k)
        BY <1>0 DEF Shape
      <4>1. CASE i = k + 1
        <5>1. items'[i].status \notin TerminalStatuses
          BY <4>1, <2>1, <2>2, NoDeadEnds
        <5>2. ~(i <= k) /\ ~(i > k + 1)
          BY <4>1, <1>0
        <5>3. items'[i].flag = FALSE
          BY <4>1, <2>1, <2>2
        <5>4. (i <= k) = FALSE
          BY <5>2
        <5> QED BY <5>1, <5>2, <5>3, <5>4, Zenon
      <4>2. CASE i # k + 1
        BY <4>0, <4>2, <2>2
      <4> QED BY <4>1, <4>2
    <3> QED BY <3>1, <2>2 DEF Shape
  <2>4. Ruled(k)'
    <3>1. \A i \in 1 .. k : items'[i] = items[i]
      BY <1>0, <2>2
    <3> QED BY <3>1 DEF Loop, Ruled
  <2> QED BY <1>3, <1>4, <1>6, <2>3, <2>4 DEF it
<1>7. items' = items \/ (grown /\ k < n /\ items' = [items EXCEPT ![k + 1] = it])
  BY <1>0, <1>1, <1>2
<1> QED BY <1>5, <1>6, <1>7

\* Whatever the author does in a round, the shape and the memory survive.
LEMMA RoundKeeps ==
    ASSUME NEW n \in 0 .. MaxItems, NEW k \in 0 .. n, Scalars, Settled, Loop(n, k),
           NEW text \in Drafts, NEW grown \in BOOLEAN, ChoreographCollection(text, grown),
           NEW by, RoundEnds(by), InRound, idle' \in 0 .. Cap, arm' \in BOOLEAN
    PROVE  Scalars' /\ Settled' /\ Loop(n, k)'
<1>1. /\ round' = "none" /\ Derive /\ Transits(by)
      /\ UNCHANGED << pending, applied, shown, asked, ruling >>
  BY DEF RoundEnds
<1>2. /\ Shape(items', n, k) /\ mirror' = Below(n, k) /\ Ruled(k)'
      /\ draft' \in Drafts /\ unapplied' \in BOOLEAN /\ (unapplied' => k = n)
  <2>1. UNCHANGED ruling
    BY <1>1
  <2>2. /\ Shape(items', n, k) /\ mirror' = Below(n, k) /\ mirror' = mirror /\ Ruled(k)'
        /\ draft' \in Drafts /\ unapplied' \in BOOLEAN /\ (unapplied' => k = n)
        /\ \/ items' = items
           \/ grown /\ k < n
              /\ items' = [items EXCEPT ![k + 1] = [status |-> ProposedStatus, flag |-> FALSE, text |-> text]]
    BY <2>1, ChoreographKeeps, Zenon
  <2> QED BY <2>2, Zenon
<1>3. n \in Nat
  BY LoopBounds
<1>4. cursor' \in 0 .. n /\ guard' \in BOOLEAN
  BY <1>1, <1>2, <1>3, CursorTyped
<1>5. mode' \in { "review", "done", "blocked" }
  BY <1>1 DEF Transits
<1>6. Scalars'
  BY <1>1, <1>2, <1>4, <1>5 DEF Scalars
<1>7. Settled'
  BY <1>1 DEF Settled, Fingerprint
<1>8. Loop(n, k)'
  BY <1>1, <1>2, <1>4, <1>5 DEF Loop
<1> QED BY <1>6, <1>7, <1>8

\* Every action of the author is the end of a round.
LEMMA ActsAreRounds ==
    ASSUME Scalars, Acts
    PROVE  \E text \in Drafts : \E grown \in BOOLEAN : \E by \in { "propose", "complete", "route", "other" } :
              /\ ChoreographCollection(text, grown) /\ RoundEnds(by) /\ InRound
              /\ idle' \in 0 .. Cap /\ arm' \in BOOLEAN
              /\ \/ by = "propose" /\ ~arm'
                 \/ grown = unapplied
<1>0. Cap \in Nat /\ idle \in 0 .. Cap /\ arm \in BOOLEAN /\ draft \in Drafts /\ unapplied \in BOOLEAN
  BY LoopBounds DEF Scalars
<1>1. CASE \E text \in Drafts : Proposes(text)
  <2>1. PICK text \in Drafts : Proposes(text)
    BY <1>1
  <2>2. ChoreographCollection(text, TRUE) /\ RoundEnds("propose") /\ InRound
        /\ idle' \in { idle, 0 } /\ arm' = arm /\ ~arm
    BY <2>1 DEF Proposes
  <2>3. idle' \in 0 .. Cap
    BY <2>2, <1>0
  <2>4. arm' \in BOOLEAN /\ ~arm'
    BY <2>2, <1>0, Zenon
  <2>5. TRUE \in BOOLEAN /\ "propose" \in { "propose", "complete", "route", "other" }
    OBVIOUS
  <2> QED BY <2>2, <2>3, <2>4, <2>5, Zenon
<1>2. CASE CompletesReview
  <2>1. ChoreographCollection(draft, unapplied) /\ RoundEnds("complete") /\ InRound
        /\ idle' \in { idle, 0 } /\ arm' = arm
    BY <1>2 DEF CompletesReview
  <2> QED BY <2>1, <1>0
<1>3. CASE RoutesBlocked
  <2>1. ChoreographCollection(draft, unapplied) /\ RoundEnds("route") /\ InRound
        /\ idle' \in { idle, 0 } /\ arm' = arm
    BY <1>3 DEF RoutesBlocked
  <2> QED BY <2>1, <1>0
<1>4. CASE ActsOtherwise
  <2>1. ChoreographCollection(draft, unapplied) /\ RoundEnds("other") /\ InRound
        /\ idle' \in { idle, 0 } /\ arm' = arm
    BY <1>4 DEF ActsOtherwise
  <2> QED BY <2>1, <1>0
<1>5. CASE Idles
  <2>1. ChoreographCollection(draft, unapplied) /\ RoundEnds("other") /\ InRound
        /\ idle' = (IF idle < Cap THEN idle + 1 ELSE Cap) /\ arm' = (arm \/ idle + 1 >= Cap)
    BY <1>5 DEF Idles
  <2>2. idle' \in 0 .. Cap
    BY <2>1, <1>0
  <2>3. arm' \in BOOLEAN
    BY <2>1
  <2> QED BY <2>1, <2>2, <2>3, <1>0
<1> QED BY <1>1, <1>2, <1>3, <1>4, <1>5 DEF Acts

\* A plan starts the shape.
LEMMA PlanStarts ==
    ASSUME Inv, NEW n \in 0 .. MaxItems, PlanCompletes(n)
    PROVE  Scalars' /\ Settled' /\ Loop(n, 0)' /\ items = << >>
<1>0. n \in Nat /\ MaxItems \in Nat
  BY LoopBounds
<1>1. /\ mode = "plan" /\ items' = Planned(n) /\ mirror' = [i \in 1 .. n |-> FALSE] /\ Derive
      /\ mode' = "review"
      /\ UNCHANGED << round, pending, applied, shown, draft, unapplied, idle, arm, asked, ruling >>
  BY DEF PlanCompletes, proposal, escape
<1>2. PICK n0 \in 0 .. MaxItems : \E k0 \in 0 .. n0 : Loop(n0, k0)
  BY DEF Inv
<1>3. PICK k0 \in 0 .. n0 : Loop(n0, k0)
  BY <1>2
<1>4. n0 = 0 /\ k0 = 0 /\ shown = 0 /\ ruling \in [1 .. MaxItems -> { None } \cup [status : Statuses, text : Drafts]]
  BY <1>1, <1>3 DEF Loop, Ruled, After
<1>5. items = << >>
  <2>1. items \in [1 .. 0 -> Item]
    BY <1>3, <1>4 DEF Loop, Shape
  <2>2. 1 .. 0 = {}
    OBVIOUS
  <2>3. \A f \in [1 .. 0 -> Item] : f = << >>
    BY <2>2
  <2> QED BY <2>1, <2>3
<1>6. mirror' = Below(n, 0)
  <2>1. \A i \in 1 .. n : (i <= 0) = FALSE
    BY <1>0
  <2> QED BY <1>1, <2>1 DEF Below
<1>7. cursor' \in 0 .. n /\ guard' \in BOOLEAN
  <2>1. 0 \in 0 .. n
    BY <1>0
  <2> QED BY <1>0, <1>1, <1>6, <2>1, CursorTyped
<1>8. Shape(items', n, 0)
  <2>1. \A i \in 1 .. n : items'[i] = [status |-> Initial, flag |-> FALSE, text |-> None] /\ i > 0
    BY <1>0, <1>1 DEF Planned
  <2>2. [status |-> Initial, flag |-> FALSE, text |-> None] \in Item
    BY DEF Item, Statuses, Drafts
  <2>3. items' \in [1 .. n -> Item]
    BY <1>1, <2>2 DEF Planned
  <2>4. \A i \in 1 .. n : /\ ~(i <= 0) /\ (i <= 0) = FALSE
                           /\ items'[i].status = Initial /\ items'[i].flag = FALSE
    BY <2>1
  <2>5. \A i \in 1 .. n : items'[i].flag = (i <= 0)
    BY <2>4, Zenon
  <2> QED BY <2>3, <2>4, <2>5, NoDeadEnds, Zenon DEF Shape
<1>9. Ruled(0)'
  BY <1>1, <1>4 DEF Ruled
<1>10. ~unapplied'
  BY <1>1, <1>3, Zenon DEF Loop
<1>11. Scalars'
  BY <1>1, <1>7 DEF Inv, Scalars
<1>12. Settled'
  BY <1>1 DEF Inv, Settled, Fingerprint
<1>13. Loop(n, 0)'
  BY <1>0, <1>1, <1>4, <1>6, <1>7, <1>8, <1>9, <1>10 DEF Loop
<1> QED BY <1>5, <1>11, <1>12, <1>13

\* A round that fails leaves everything but the round.
LEMMA FailKeeps ==
    ASSUME NEW n \in 0 .. MaxItems, NEW k \in 0 .. n, Scalars, Settled, Loop(n, k), RoundFails
    PROVE  Scalars' /\ Settled' /\ Loop(n, k)' /\ items' = items /\ mode' = mode
<1>1. /\ UNCHANGED << mode, items, mirror, pending, applied, shown, draft, unapplied, guard, cursor,
                      idle, arm, asked, ruling >>
      /\ round' = "none"
  BY DEF RoundFails, itemvars, proposal, derived, escape
<1>2. Scalars' /\ Settled'
  BY <1>1 DEF Scalars, Settled, Fingerprint
<1>3. Loop(n, k)'
  BY <1>1 DEF Loop, Ruled, Shape
<1> QED BY <1>1, <1>2, <1>3

---------------------------------------------------------------------------
(* The invariant is inductive.                                              *)

LEMMA Starts == Init => Inv
<1> SUFFICES ASSUME Init PROVE Inv
  OBVIOUS
<1>1. /\ mode = "plan" /\ round = "none" /\ items = Planned(0) /\ mirror = [i \in 1 .. 0 |-> FALSE]
      /\ pending = None /\ applied = None /\ shown = 0 /\ draft = None /\ unapplied = FALSE
      /\ guard = FALSE /\ cursor = 0 /\ idle = 0 /\ arm = FALSE
      /\ asked = None /\ ruling = [i \in 1 .. MaxItems |-> None]
  BY DEF Init
<1>2. Scalars
  <2>1. 0 \in 0 .. Cap
    BY LoopBounds
  <2>2. None \in Drafts /\ FALSE \in BOOLEAN
    BY DEF Drafts
  <2> QED BY <1>1, <2>1, <2>2 DEF Scalars
<1>3. Settled
  BY <1>1 DEF Settled
<1>4. 1 .. 0 = {} /\ 0 \in 0 .. MaxItems /\ 0 \in 0 .. 0
  BY LoopBounds
<1>5. Shape(items, 0, 0)
  BY <1>1, <1>4 DEF Shape, Planned
<1>6. mirror = Below(0, 0)
  BY <1>1, <1>4 DEF Below
<1>7. Ruled(0)
  BY <1>1, <1>4 DEF Ruled
<1>8. Loop(0, 0)
  BY <1>1, <1>4, <1>5, <1>6, <1>7, Zenon DEF Loop
<1> QED BY <1>2, <1>3, <1>4, <1>8 DEF Inv

LEMMA Stays == Inv /\ [Next]_vars => Inv'
<1> SUFFICES ASSUME Inv, [Next]_vars PROVE Inv'
  OBVIOUS
<1>0. Scalars /\ Settled
  BY DEF Inv
<1>1. PICK n \in 0 .. MaxItems : \E k0 \in 0 .. n : Loop(n, k0)
  BY DEF Inv
<1>2. PICK k \in 0 .. n : Loop(n, k)
  BY <1>1
<1>3. ASSUME NEW n1 \in 0 .. MaxItems, PlanCompletes(n1) PROVE Inv'
  <2>1. Scalars' /\ Settled' /\ Loop(n1, 0)'
    BY <1>3, PlanStarts
  <2>2. 0 \in 0 .. n1
    BY LoopBounds
  <2> QED BY <2>1, <2>2 DEF Inv
<1>4. ASSUME NEW call \in NewCalls, Confirm(call) PROVE Inv'
  <2>1. Scalars' /\ Settled' /\ \E m \in 0 .. n : Loop(n, m)'
    BY <1>0, <1>2, <1>4, ConfirmKeeps
  <2> QED BY <2>1 DEF Inv
<1>5. CASE Repeat
  BY <1>0, <1>2, <1>5, RepeatKeeps DEF Inv
<1>6. CASE TextOpens
  BY <1>0, <1>2, <1>6, TextKeeps DEF Inv
<1>7. CASE Acts
  <2>1. PICK text \in Drafts, grown \in BOOLEAN, by \in { "propose", "complete", "route", "other" } :
           /\ ChoreographCollection(text, grown) /\ RoundEnds(by) /\ InRound
           /\ idle' \in 0 .. Cap /\ arm' \in BOOLEAN
    BY <1>0, <1>7, ActsAreRounds
  <2>2. Scalars' /\ Settled' /\ Loop(n, k)'
    BY <1>0, <1>2, <2>1, RoundKeeps
  <2> QED BY <2>2 DEF Inv
<1>8. CASE RoundFails
  BY <1>0, <1>2, <1>8, FailKeeps DEF Inv
<1>9. CASE UNCHANGED vars
  <2>1. UNCHANGED << mode, round, items, mirror, pending, applied, shown, draft, unapplied, guard,
                     cursor, idle, arm, asked, ruling >>
    BY <1>9 DEF vars
  <2>2. Scalars' /\ Settled'
    BY <1>0, <2>1 DEF Scalars, Settled, Fingerprint
  <2>3. Loop(n, k)'
    BY <1>2, <2>1 DEF Loop, Ruled, Shape
  <2> QED BY <2>2, <2>3 DEF Inv
<1> QED BY <1>3, <1>4, <1>5, <1>6, <1>7, <1>8, <1>9 DEF Next

LEMMA AlwaysInv == Spec => []Inv
<1> QED BY Starts, Stays, PTL DEF Spec

---------------------------------------------------------------------------
(* What follows from the shape.                                             *)

\* Every reachable state of the loop is well typed.
THEOREM LoopTypeCorrect == Spec => []TypeOK
<1>1. Inv => TypeOK
  <2> SUFFICES ASSUME Inv PROVE TypeOK
    OBVIOUS
  <2>1. PICK n \in 0 .. MaxItems : \E k0 \in 0 .. n : Loop(n, k0)
    BY DEF Inv
  <2>2. PICK k \in 0 .. n : Loop(n, k)
    BY <2>1
  <2>3. n \in Nat /\ k \in Nat
    BY LoopBounds
  <2>4. items \in [1 .. n -> Item] /\ cursor \in 0 .. n
    BY <2>2 DEF Loop, Shape
  <2>5. mirror \in [1 .. n -> BOOLEAN]
    <3>1. mirror = [i \in 1 .. n |-> i <= k]
      BY <2>2 DEF Loop, Below
    <3> QED BY <3>1
  <2>6. shown \in 0 .. n
    BY <2>2, <2>3 DEF Loop, After
  <2> QED BY <2>4, <2>5, <2>6, Zenon DEF TypeOK, Inv, Scalars, Settled
<1> QED BY <1>1, AlwaysInv, PTL

\* The mirror and the flags, written by three reactions, always say what the
\* statuses say (MirrorTellsTheTruth).
THEOREM MirrorAlwaysTrue == Spec => []MirrorTellsTheTruth
<1>1. Inv => MirrorTellsTheTruth
  <2> SUFFICES ASSUME Inv PROVE MirrorTellsTheTruth
    OBVIOUS
  <2>1. PICK n \in 0 .. MaxItems : \E k0 \in 0 .. n : Loop(n, k0)
    BY DEF Inv
  <2>2. PICK k \in 0 .. n : Loop(n, k)
    BY <2>1
  <2>3. n \in Nat /\ k \in Nat
    BY LoopBounds
  <2>4. Shape(items, n, k) /\ DOMAIN items = 1 .. n
    BY <2>2 DEF Loop, Shape
  <2>5. DOMAIN mirror = 1 .. n /\ \A i \in 1 .. n : mirror[i] = (i <= k)
    BY <2>2 DEF Loop, Below
  <2>6. ASSUME NEW i \in 1 .. n
        PROVE  mirror[i] = (items[i].status \in TerminalStatuses) /\ items[i].flag = mirror[i]
    <3>1. i <= k \/ i > k
      BY <2>3
    <3>2. /\ i <= k => items[i].status \in TerminalStatuses
          /\ i > k => items[i].status \notin TerminalStatuses
          /\ items[i].flag = (i <= k)
      BY <2>4 DEF Shape
    <3>3. CASE i <= k
      BY <2>5, <3>2, <3>3
    <3>4. CASE i > k
      <4>1. (i <= k) = FALSE
        BY <2>3, <3>4
      <4> QED BY <2>5, <3>2, <3>4, <4>1
    <3> QED BY <3>1, <3>3, <3>4
  <2> QED BY <2>4, <2>5, <2>6 DEF MirrorTellsTheTruth, Index
<1> QED BY <1>1, AlwaysInv, PTL

\* An item is terminal only by the decision the user took when it was before him,
\* with the text he then saw (AcceptedAsSeen).
THEOREM AcceptedAlwaysSeen == Spec => []AcceptedAsSeen
<1>1. Inv => AcceptedAsSeen
  <2> SUFFICES ASSUME Inv PROVE AcceptedAsSeen
    OBVIOUS
  <2>1. PICK n \in 0 .. MaxItems : \E k0 \in 0 .. n : Loop(n, k0)
    BY DEF Inv
  <2>2. PICK k \in 0 .. n : Loop(n, k)
    BY <2>1
  <2>3. ASSUME NEW i \in 1 .. n, items[i].status \in TerminalStatuses PROVE i \in 1 .. k
    <3>1. i > k => items[i].status \notin TerminalStatuses
      BY <2>2 DEF Loop, Shape
    <3> QED BY <2>3, <3>1, LoopBounds
  <2>4. DOMAIN items = 1 .. n /\ \A i \in 1 .. k : ruling[i] = [status |-> items[i].status, text |-> items[i].text]
    BY <2>2 DEF Loop, Shape, Ruled
  <2> QED BY <2>3, <2>4 DEF AcceptedAsSeen, Index
<1> QED BY <1>1, AlwaysInv, PTL

---------------------------------------------------------------------------
(* What a step does, seen from the shape.                                   *)

\* The reachable states have a shape; this is how a proof about a step begins.
LEMMA Shaped ==
    ASSUME Inv
    PROVE  \E n \in 0 .. MaxItems : \E k \in 0 .. n : Scalars /\ Settled /\ Loop(n, k)
BY DEF Inv

\* In a round the author puts a text on the next item and stays, or changes no item.
LEMMA WhatARoundDoes ==
    ASSUME NEW n \in 0 .. MaxItems, NEW k \in 0 .. n, Scalars, Settled, Loop(n, k), Acts
    PROVE  /\ Shape(items', n, k) /\ mirror' = Below(n, k) /\ mode = "review" /\ asked' = asked
           /\ \/ items' = items /\ mode' = "review"
              \/ items' = items /\ AllTerminal(mirror') /\ mode' = "done"
              \/ items' = items /\ ~AllTerminal(mirror') /\ mode' = "blocked"
              \/ /\ k < n /\ mode' = "review"
                 /\ \E text \in Drafts :
                      items' = [items EXCEPT ![k + 1] = [status |-> ProposedStatus, flag |-> FALSE, text |-> text]]
<1>1. PICK text \in Drafts, grown \in BOOLEAN, by \in { "propose", "complete", "route", "other" } :
         /\ ChoreographCollection(text, grown) /\ RoundEnds(by) /\ InRound
         /\ idle' \in 0 .. Cap /\ arm' \in BOOLEAN
         /\ \/ by = "propose" /\ ~arm'
            \/ grown = unapplied
  BY ActsAreRounds
<1>2. UNCHANGED ruling /\ asked' = asked /\ Transits(by) /\ mode = "review"
  BY <1>1 DEF RoundEnds, InRound
<1>3. /\ Shape(items', n, k) /\ mirror' = Below(n, k)
      /\ \/ items' = items
         \/ grown /\ k < n
            /\ items' = [items EXCEPT ![k + 1] = [status |-> ProposedStatus, flag |-> FALSE, text |-> text]]
  <2>1. ChoreographCollection(text, grown) /\ UNCHANGED ruling
    BY <1>1, <1>2
  <2>2. /\ Shape(items', n, k) /\ mirror' = Below(n, k) /\ mirror' = mirror /\ Ruled(k)'
        /\ draft' \in Drafts /\ unapplied' \in BOOLEAN /\ (unapplied' => k = n)
        /\ \/ items' = items
           \/ grown /\ k < n
              /\ items' = [items EXCEPT ![k + 1] = [status |-> ProposedStatus, flag |-> FALSE, text |-> text]]
    BY <2>1, ChoreographKeeps, Zenon
  <2> QED BY <2>2, Zenon
<1>4. \/ AllTerminal(mirror') /\ mode' = "done"
      \/ ~AllTerminal(mirror') /\ arm' /\ mode' = "blocked"
      \/ mode' = "review"
  BY <1>2 DEF Transits, Completes, Blocks
<1>5. CASE items' = items
  BY <1>2, <1>3, <1>4, <1>5
<1>6. CASE /\ grown /\ k < n
           /\ items' = [items EXCEPT ![k + 1] = [status |-> ProposedStatus, flag |-> FALSE, text |-> text]]
  <2>1. ~AllTerminal(mirror')
    <3>1. n \in Nat /\ k # n
      BY <1>6, LoopBounds
    <3>2. ~AllTerminal(Below(n, k))
      BY <3>1, AllBelow
    <3> QED BY <1>3, <3>2
  <2>2. ~unapplied
    <3>1. k # n
      BY <1>6, LoopBounds
    <3> QED BY <3>1 DEF Loop
  <2>3. ~arm'
    BY <1>1, <1>6, <2>2, Zenon
  <2>4. mode' = "review"
    BY <1>4, <2>1, <2>3, Zenon
  <2> QED BY <1>2, <1>3, <1>6, <2>4
<1> QED BY <1>3, <1>5, <1>6

\* What the author proposes lands on the item the summary showed him
\* (TargetIsActive).
THEOREM TargetAlwaysActive == Spec => TargetIsActive
<1>1. Inv /\ [Next]_vars => [round # "none" => \A i \in Index : items'[i] # items[i] => shown \in { 0, i }]_vars
  <2> SUFFICES ASSUME Inv, Next, round # "none", NEW i \in Index, items'[i] # items[i]
               PROVE  shown \in { 0, i }
    BY DEF vars
  <2>1. PICK n \in 0 .. MaxItems : \E k0 \in 0 .. n : Loop(n, k0)
    BY DEF Inv
  <2>2. PICK k \in 0 .. n : Loop(n, k)
    BY <2>1
  <2>3. Scalars /\ Settled
    BY DEF Inv
  <2>4. CASE Acts
    <3>1. PICK text : items' = [items EXCEPT ![k + 1] = [status |-> ProposedStatus, flag |-> FALSE, text |-> text]]
      BY <2>2, <2>3, <2>4, WhatARoundDoes
    <3>2. i = k + 1
      BY <3>1, <2>2 DEF Index
    <3>3. shown \in { 0, k + 1 }
      BY <2>2 DEF Loop, After
    <3> QED BY <3>2, <3>3
  <2>5. CASE RoundFails
    BY <2>5 DEF RoundFails, itemvars
  <2>6. CASE \E n1 \in 0 .. MaxItems : PlanCompletes(n1)
    BY <2>2, <2>6 DEF PlanCompletes, Loop
  <2>7. CASE Repeat \/ TextOpens \/ \E call \in NewCalls : Confirm(call)
    BY <2>7 DEF Repeat, TextOpens, Confirm
  <2> QED BY <2>4, <2>5, <2>6, <2>7 DEF Next
<1> QED BY <1>1, AlwaysInv, PTL DEF Spec, TargetIsActive

\* A stamped decision on an item that is before the user takes effect, whatever
\* was decided before (DecisionCounts).
THEOREM DecisionAlwaysCounts == Spec => DecisionCounts
<1>1. Inv /\ [Next]_vars =>
        [/\ asked' # asked /\ asked' # None
         /\ asked'.word \in Decisions /\ (asked'.word \in NeedsInstruction => asked'.told)
         => items'[FirstProposed(items)].status = Outcome[asked'.word]]_vars
  <2> SUFFICES ASSUME Inv, Next, asked' # asked, asked' # None, asked'.word \in Decisions,
                      asked'.word \in NeedsInstruction => asked'.told
               PROVE  items'[FirstProposed(items)].status = Outcome[asked'.word]
    BY DEF vars
  <2>1. PICK n \in 0 .. MaxItems : \E k0 \in 0 .. n : Loop(n, k0)
    BY DEF Inv
  <2>2. PICK k \in 0 .. n : Loop(n, k)
    BY <2>1
  <2>3. Scalars /\ Settled /\ n \in Nat /\ k \in Nat /\ Shape(items, n, k)
    BY <2>2, LoopBounds DEF Inv, Loop
  <2>4. CASE Acts
    BY <2>2, <2>3, <2>4, WhatARoundDoes
  <2>5. CASE RoundFails \/ Repeat \/ TextOpens \/ \E n1 \in 0 .. MaxItems : PlanCompletes(n1)
    BY <2>5 DEF RoundFails, Repeat, TextOpens, PlanCompletes
  <2>6. CASE \E call \in NewCalls : Confirm(call)
    <3>1. PICK call \in NewCalls : Confirm(call)
      BY <2>6
    <3> DEFINE input == Targeted(call)
    <3>2. Ingest(call) /\ asked' = IF call.stamp # 0 /\ input.target # 0 THEN call ELSE None
      BY <3>1 DEF Confirm
    <3>3. asked' = call /\ call.stamp # 0 /\ input.target # 0
      BY <3>2
    <3>4. input.word = call.word /\ input.told = call.told /\ input.stamp = call.stamp
          /\ input.target = FirstProposed(items)
      BY DEF Targeted
    <3>5. FirstProposed(items) = k + 1 /\ k < n
      <4>1. FirstProposed(items) = IF k < n /\ items[k + 1].status = ProposedStatus THEN k + 1 ELSE 0
        BY <2>3, Next1
      <4> QED BY <4>1, <3>3, <3>4
    <3>6. PendingDecision(input) = input
      BY <3>3, <3>4 DEF PendingDecision, SaveDecision
    <3>7. applied # [stamp |-> call.stamp]
      <4>1. call.stamp \in FreshStamps
        BY <3>3 DEF NewCalls
      <4> QED BY <4>1 DEF FreshStamps, Fresh
    <3>8. Unapplied(input)
      BY <3>3, <3>4, <3>7 DEF Unapplied, Invalid, Fingerprint
    <3>9. Effective(input)
      <4>1. k + 1 \in Index
        BY <2>3, <3>5 DEF Index, Shape
      <4> QED BY <4>1, <3>3, <3>4, <3>5, <3>8 DEF Effective
    <3>10. call \in Calls
      BY LoopBounds DEF NewCalls, Calls, FreshStamps
    <3>11. items' = [items EXCEPT ![k + 1].status = Outcome[call.word],
                                  ![k + 1].flag = Outcome[call.word] \in TerminalStatuses]
      BY <2>2, <2>3, <3>2, <3>6, <3>9, <3>10, WhatIngestDoes
    <3>12. k + 1 \in DOMAIN items /\ items[k + 1] \in Item
      BY <2>3, <3>5 DEF Shape
    <3>13. items'[k + 1].status = Outcome[call.word]
      <4> DEFINE o == Outcome[call.word]
      <4> HIDE DEF o, input
      <4>1. items' = [items EXCEPT ![k + 1].status = o, ![k + 1].flag = o \in TerminalStatuses]
        BY <3>11 DEF o
      <4>2. items'[k + 1].status = o
        BY <4>1, <3>12 DEF Item
      <4> QED BY <4>2 DEF o
    <3> QED BY <3>3, <3>5, <3>13
  <2> QED BY <2>4, <2>5, <2>6 DEF Next
<1> QED BY <1>1, AlwaysInv, PTL DEF Spec, DecisionCounts

---------------------------------------------------------------------------
(* One item after the other.                                                *)

Finished(its) == { i \in DOMAIN its : its[i].status \in TerminalStatuses }

\* Of a collection of this shape the first k items are resolved.
LEMMA FinishedIs ==
    ASSUME NEW n \in Nat, NEW k \in 0 .. n, NEW its, Shape(its, n, k)
    PROVE  DOMAIN its = 1 .. n /\ Finished(its) = 1 .. k
<1>1. DOMAIN its = 1 .. n
  BY DEF Shape
<1>2. ASSUME NEW i \in 1 .. n PROVE its[i].status \in TerminalStatuses <=> i <= k
  <2>1. (i <= k => its[i].status \in TerminalStatuses) /\ (i > k => its[i].status \notin TerminalStatuses)
    BY DEF Shape
  <2>2. i <= k \/ i > k
    OBVIOUS
  <2> QED BY <2>1, <2>2
<1>3. Finished(its) = { i \in 1 .. n : i <= k }
  BY <1>1, <1>2 DEF Finished
<1> QED BY <1>1, <1>3

State(m) == IF m \in { "done", "blocked" } THEN m ELSE "open"

\* The mapped variables, by name.
LEMMA Mapping ==
    /\ Review!vars = << DOMAIN items, Finished(items), FirstProposed(items), State(mode) >>
    /\ Review!vars' = << DOMAIN items', Finished(items'), FirstProposed(items'), State(mode') >>
BY Zenon DEF Review!vars, Finished, State, Index

\* A plan is made of nothing.
LEMMA PlansOnce ==
    ASSUME Inv, NEW n \in 0 .. MaxItems, PlanCompletes(n)
    PROVE  Review!Plan
<1>1. Scalars' /\ Settled' /\ Loop(n, 0)' /\ items = << >>
  BY PlanStarts
<1>2. n \in Nat /\ Shape(items', n, 0) /\ mode = "plan" /\ mode' = "review" /\ items' = Planned(n)
  BY <1>1, LoopBounds DEF Loop, PlanCompletes
<1>3. DOMAIN items' = 1 .. n /\ Finished(items') = 1 .. 0
  BY <1>2, FinishedIs
<1>4. DOMAIN items = {} /\ Finished(items) = {} /\ FirstProposed(items) = 0
  BY <1>1 DEF Finished, FirstProposed, With
<1>5. FirstProposed(items') = 0
  <2>1. FirstProposed(items') = IF 0 < n /\ items'[0 + 1].status = ProposedStatus THEN 0 + 1 ELSE 0
    BY <1>2, Next1
  <2>2. 0 < n => items'[1].status = Initial
    BY <1>2 DEF Planned
  <2> QED BY <2>1, <2>2, NoDeadEnds
<1>6. State(mode) = "open" /\ State(mode') = "open"
  BY <1>2 DEF State
<1>7. 1 .. 0 = {} /\ 1 .. n \subseteq Nat \ { 0 } /\ \A i \in 1 .. n : 1 .. i \subseteq 1 .. n
  BY <1>2
<1> QED BY <1>3, <1>4, <1>5, <1>6, <1>7 DEF Review!Plan, Finished, State, Index

\* A call resolves the item that is before the user, returns it, or is no step.
LEMMA CallsResolve ==
    ASSUME NEW n \in 0 .. MaxItems, NEW k \in 0 .. n, Settled, Loop(n, k), NEW call \in NewCalls, Confirm(call)
    PROVE  Review!Resolve \/ Review!Return \/ UNCHANGED Review!vars
<1> DEFINE p == PendingDecision(Targeted(call))
           s == Outcome[call.word]
           d == IF s \in TerminalStatuses THEN k + 1 ELSE k
<1>0. n \in Nat /\ k \in Nat /\ Shape(items, n, k)
  BY LoopBounds DEF Loop
<1>1. call \in Calls
  BY LoopBounds DEF NewCalls, Calls, FreshStamps
<1>2. Ingest(call) /\ mode' = mode /\ mode = "review"
  BY DEF Confirm
<1>3. CASE ~Effective(p)
  <2>1. items' = items
    BY <1>1, <1>2, <1>3, WhatIngestDoes
  <2> QED BY <2>1, <1>2, Mapping
<1>4. CASE Effective(p)
  <2>1. k < n /\ items[k + 1].status = ProposedStatus /\ call.word \in Decisions
    BY <1>1, <1>4, WhatIsEffective
  <2>2. /\ d \in 0 .. n /\ Shape(items', n, d)
        /\ items' = [items EXCEPT ![k + 1].status = s, ![k + 1].flag = s \in TerminalStatuses]
    BY <1>1, <1>2, <1>4, WhatIngestDoes
  <2>3. DOMAIN items = 1 .. n /\ Finished(items) = 1 .. k /\ FirstProposed(items) = k + 1
    <3>1. FirstProposed(items) = IF k < n /\ items[k + 1].status = ProposedStatus THEN k + 1 ELSE 0
      BY <1>0, Next1
    <3> QED BY <1>0, <2>1, <3>1, FinishedIs
  <2>4. PICK m \in 0 .. n : m = d
    BY <2>2
  <2>5. DOMAIN items' = 1 .. n /\ Finished(items') = 1 .. m
        /\ FirstProposed(items') = IF m < n /\ items'[m + 1].status = ProposedStatus THEN m + 1 ELSE 0
    <3>1. Shape(items', n, m)
      BY <2>2, <2>4
    <3> QED BY <1>0, <3>1, FinishedIs, Next1
  <2>6. items'[k + 1].status = s /\ \A i \in 1 .. n : i # k + 1 => items'[i] = items[i]
    <3>1. items \in [1 .. n -> Item] /\ items[k + 1] \in Item /\ k + 1 \in 1 .. n
      BY <1>0, <2>1 DEF Shape
    <3> HIDE DEF s
    <3> QED BY <2>2, <3>1 DEF Item
  <2>7. State(mode) = "open" /\ State(mode') = "open"
    BY <1>2 DEF State
  <2>8. CASE s \in TerminalStatuses
    <3>1. m = k + 1
      BY <2>4, <2>8
    <3>2. FirstProposed(items') = 0
      <4>1. m < n => items'[m + 1].status = Initial
        <5> HAVE m < n
        <5>1. m + 1 \in 1 .. n /\ m + 1 # k + 1 /\ m + 1 > k + 1
          BY <3>1, <1>0
        <5>2. items[m + 1].status = Initial
          BY <5>1, <1>0 DEF Shape
        <5> QED BY <5>1, <5>2, <2>6
      <4> QED BY <4>1, <2>5, NoDeadEnds
    <3>3. Finished(items') = Finished(items) \cup { k + 1 }
      BY <2>3, <2>5, <3>1, <1>0
    <3>4. k + 1 # 0
      BY <1>0
    <3>5. Review!Resolve
      BY <2>3, <2>5, <2>7, <3>2, <3>3, <3>4, Zenon DEF Review!Resolve, Finished, State, Index
    <3> QED BY <3>5
  <2>9. CASE s \notin TerminalStatuses
    <3>1. m = k
      BY <2>4, <2>9
    <3>2. Finished(items') = Finished(items) /\ DOMAIN items' = DOMAIN items
      BY <2>3, <2>5, <3>1
    <3>3. CASE s = ProposedStatus
      <4>1. FirstProposed(items') = FirstProposed(items)
        BY <2>1, <2>3, <2>5, <2>6, <3>1, <3>3
      <4> QED BY <3>2, <4>1, <2>7, Mapping
    <3>4. CASE s # ProposedStatus
      <4>1. FirstProposed(items') = 0 /\ FirstProposed(items) # 0
        BY <2>3, <2>5, <2>6, <3>1, <3>4, <1>0
      <4>2. Review!Return
        BY <3>2, <4>1, <2>7, Zenon DEF Review!Return, Finished, State, Index
      <4> QED BY <4>2
    <3> QED BY <3>3, <3>4
  <2> QED BY <2>8, <2>9
<1> QED BY <1>3, <1>4

\* A round presents the next item, finishes, gives up, or is no step.
LEMMA RoundsPresent ==
    ASSUME NEW n \in 0 .. MaxItems, NEW k \in 0 .. n, Scalars, Settled, Loop(n, k), Acts
    PROVE  Review!Present \/ Review!Finish \/ Review!GiveUp \/ UNCHANGED Review!vars
<1>0. n \in Nat /\ k \in Nat /\ Shape(items, n, k)
  BY LoopBounds DEF Loop
<1>1. /\ Shape(items', n, k) /\ mirror' = Below(n, k) /\ mode = "review"
      /\ \/ items' = items /\ mode' = "review"
         \/ items' = items /\ AllTerminal(mirror') /\ mode' = "done"
         \/ items' = items /\ ~AllTerminal(mirror') /\ mode' = "blocked"
         \/ /\ k < n /\ mode' = "review"
            /\ \E text \in Drafts :
                 items' = [items EXCEPT ![k + 1] = [status |-> ProposedStatus, flag |-> FALSE, text |-> text]]
  BY WhatARoundDoes
<1>2. DOMAIN items = 1 .. n /\ Finished(items) = 1 .. k
  BY <1>0, FinishedIs
<1>3. State(mode) = "open"
  BY <1>1 DEF State
<1>4. AllTerminal(mirror') <=> (n # 0 /\ k = n)
  <2>1. AllTerminal(Below(n, k)) <=> (n # 0 /\ k = n)
    BY <1>0, AllBelow
  <2> QED BY <1>1, <2>1
<1>5. CASE items' = items /\ mode' = "review"
  BY <1>5, <1>1, Mapping DEF State
<1>6. CASE items' = items /\ AllTerminal(mirror') /\ mode' = "done"
  <2>1. DOMAIN items # {} /\ Finished(items) = DOMAIN items
    BY <1>0, <1>2, <1>4, <1>6
  <2>2. State(mode') = "done"
    BY <1>6 DEF State
  <2>3. Review!Finish
    BY <1>3, <1>6, <2>1, <2>2, Zenon DEF Review!Finish, Finished, State, Index
  <2> QED BY <2>3
<1>7. CASE items' = items /\ ~AllTerminal(mirror') /\ mode' = "blocked"
  <2>1. DOMAIN items = {} \/ Finished(items) # DOMAIN items
    <3>1. CASE n = 0
      BY <1>2, <3>1
    <3>2. CASE k # n
      <4>1. n \in 1 .. n /\ n \notin 1 .. k
        BY <1>0, <3>2
      <4> QED BY <1>2, <4>1
    <3> QED BY <1>4, <1>7, <3>1, <3>2
  <2>2. State(mode') = "blocked"
    BY <1>7 DEF State
  <2>3. Review!GiveUp
    BY <1>3, <1>7, <2>1, <2>2, Zenon DEF Review!GiveUp, Finished, State, Index
  <2> QED BY <2>3
<1>8. CASE /\ k < n /\ mode' = "review"
           /\ \E text \in Drafts :
                items' = [items EXCEPT ![k + 1] = [status |-> ProposedStatus, flag |-> FALSE, text |-> text]]
  <2>1. items'[k + 1].status = ProposedStatus
    <3>1. k + 1 \in DOMAIN items
      BY <1>0, <1>2, <1>8
    <3> QED BY <1>8, <3>1
  <2>2. FirstProposed(items') = k + 1
    <3>1. FirstProposed(items') = IF k < n /\ items'[k + 1].status = ProposedStatus THEN k + 1 ELSE 0
      BY <1>0, <1>1, Next1
    <3> QED BY <1>8, <2>1, <3>1
  <2>3. DOMAIN items' = DOMAIN items /\ Finished(items') = Finished(items)
    <3>1. DOMAIN items' = 1 .. n /\ Finished(items') = 1 .. k
      BY <1>0, <1>1, FinishedIs
    <3> QED BY <1>2, <3>1
  <2>4. State(mode') = "open"
    BY <1>8 DEF State
  <2>5. FirstProposed(items) \in { 0, k + 1 }
    <3>1. FirstProposed(items) = IF k < n /\ items[k + 1].status = ProposedStatus THEN k + 1 ELSE 0
      BY <1>0, Next1
    <3> QED BY <3>1
  <2>6. CASE FirstProposed(items) = k + 1
    BY <2>2, <2>3, <2>4, <2>6, <1>3, Mapping
  <2>7. CASE FirstProposed(items) = 0
    <3>1. k + 1 \in DOMAIN items \ Finished(items) /\ \A j \in DOMAIN items : j < k + 1 => j \in Finished(items)
      BY <1>0, <1>2, <1>8
    <3>2. Review!Present
      BY <1>3, <2>2, <2>3, <2>4, <2>7, <3>1, Zenon DEF Review!Present, Finished, State, Index
    <3> QED BY <3>2
  <2> QED BY <2>5, <2>6, <2>7
<1> QED BY <1>1, <1>5, <1>6, <1>7, <1>8

\* Every behaviour of the loop is a review of one item after the other
\* (ImplementsOneByOne): the abstract specification is OneByOne.
THEOREM ReviewsOneByOne == Spec => ImplementsOneByOne
<1>1. Init => Review!Init
  <2> SUFFICES ASSUME Init PROVE Review!Init
    OBVIOUS
  <2>1. items = Planned(0) /\ mode = "plan"
    BY DEF Init
  <2>2. DOMAIN items = {}
    <3>1. 1 .. 0 = {}
      OBVIOUS
    <3> QED BY <2>1, <3>1 DEF Planned
  <2> QED BY <2>1, <2>2 DEF Review!Init, Index, FirstProposed, With
<1>2. Inv /\ [Next]_vars => [Review!Next]_(Review!vars)
  <2> SUFFICES ASSUME Inv, [Next]_vars PROVE Review!Next \/ UNCHANGED Review!vars
    OBVIOUS
  <2>1. PICK n \in 0 .. MaxItems : \E k0 \in 0 .. n : Loop(n, k0)
    BY DEF Inv
  <2>2. PICK k \in 0 .. n : Loop(n, k)
    BY <2>1
  <2>3. Scalars /\ Settled
    BY DEF Inv
  <2>4. ASSUME NEW n1 \in 0 .. MaxItems, PlanCompletes(n1) PROVE Review!Next
    BY <2>4, PlansOnce DEF Review!Next
  <2>5. ASSUME NEW call \in NewCalls, Confirm(call) PROVE Review!Next \/ UNCHANGED Review!vars
    BY <2>2, <2>3, <2>5, CallsResolve DEF Review!Next
  <2>6. CASE Repeat
    <3>1. items' = items /\ mode' = mode
      BY <2>2, <2>3, <2>6, RepeatKeeps DEF Repeat
    <3> QED BY <3>1, Mapping
  <2>7. CASE TextOpens
    <3>1. items' = items /\ mode' = mode
      BY <2>2, <2>3, <2>7, TextKeeps DEF TextOpens
    <3> QED BY <3>1, Mapping
  <2>8. CASE Acts
    BY <2>2, <2>3, <2>8, RoundsPresent DEF Review!Next
  <2>9. CASE RoundFails
    <3>1. items' = items /\ mode' = mode
      BY <2>2, <2>3, <2>9, FailKeeps
    <3> QED BY <3>1, Mapping
  <2>10. CASE UNCHANGED vars
    <3>1. items' = items /\ mode' = mode
      BY <2>10 DEF vars
    <3> QED BY <3>1, Mapping
  <2> QED BY <2>4, <2>5, <2>6, <2>7, <2>8, <2>9, <2>10 DEF Next
<1> QED BY <1>1, <1>2, AlwaysInv, PTL DEF Spec, ImplementsOneByOne, Review!Spec
=============================================================================
