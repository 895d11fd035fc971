----------------------- MODULE DomainSynthesis_proofs -----------------------
(***************************************************************************)
(* Proofs about DomainSynthesis, for any sessions, programs, contracts,     *)
(* environments and budgets.  A call changes nothing but its own record and *)
(* the disk, so the invariant says of one record what its place implies     *)
(* (CallOK), of a result what it was made of, and of every file that it     *)
(* tells the truth; what is read from the disk is then as good as what was  *)
(* verified in this very call.                                              *)
(***************************************************************************)
EXTENDS DomainSynthesis, TLAPS, WellFoundedInduction

Repairs == [stage : 0 .. Size + 1, place : Places, attempt : Nat]
Calls == [pc : Places, at : 1 .. Size + 1, attempt : Nat, repair : Repairs, woven : Woven,
          reasons : SUBSET Stages, sources : Sources, found : Filled \cup { None }]

Early == { "contract", "asking" }
Waiting == { "generating", "escalating", "falling", "rendering", "rechecking" }
Resting == { "idle", "contract", "weaving", "stage" }

\* The body or record of a stage, with the service it has talked to.
Good(p, woven, i, source) ==
    /\ Fits(p, woven, i, source)
    /\ p.kind[i] = "http" => source.body.kind = "http" /\ source.body.service = p.service

Explained(woven, reasons, required) ==
    \A i \in Stages : woven[i] = Fallback => i \in reasons /\ ~required

Budgeted(r) ==
    /\ r.attempt <= MaxAttempts \/ r.attempt <= MaxEscalations
    /\ r.pc \in { "asking", "generating" } => r.attempt \in 1 .. MaxAttempts
    /\ r.pc = "escalating" => r.attempt \in 1 .. MaxEscalations

Placed(r, p) ==
    /\ r.pc # "idle" => p \in Programs
    /\ r.pc \in { "idle", "weaving" } => r.at = 1
    /\ r.pc \in Early => r.at \in Stages /\ p.kind[r.at] = "reasoning"
    /\ r.pc \in Waiting => r.at \in Stages /\ p.kind[r.at] # "reasoning"

Told(r) ==
    /\ r.pc \in Resting => r.repair = NoRepair
    /\ r.pc \in { "asking", "generating", "escalating" } =>
        \/ /\ r.pc # "escalating" /\ r.attempt = 1 /\ r.repair = NoRepair
        \/ /\ r.attempt > 1
           /\ r.repair = [stage |-> r.at, place |-> r.pc, attempt |-> r.attempt - 1]
        \/ /\ r.pc = "escalating" /\ r.attempt = 1
           /\ r.repair = [stage |-> r.at, place |-> "generating", attempt |-> MaxAttempts]

\* Reasoning stages get their contracts in order, before any stage gets its body.
Contracted(r, p) ==
    r.pc # "idle" => \A i \in Stages :
        p.kind[i] = "reasoning" /\ (r.pc \in Early => i < r.at) => r.woven[i] # None

Stocked(r, p) ==
    /\ r.pc \in Waiting \cup { "stage" } =>
        \A i \in 1 .. r.at - 1 : Good(p, r.woven, i, r.sources[i])
    /\ r.pc = "rechecking" => p.kind[r.at] = "http" /\ Fits(p, r.woven, r.at, r.found)

CallOK(r, p, required) ==
    /\ Budgeted(r) /\ Placed(r, p) /\ Told(r) /\ Contracted(r, p) /\ Stocked(r, p)
    /\ Explained(r.woven, r.reasons, required)

ResultOK(s) ==
    s # None => /\ \A i \in Stages : Good(s.program, s.woven, i, s.sources[i])
                /\ Explained(s.woven, s.reasons, s.required)

Typed ==
    /\ env \in Environments
    /\ program \in [Callers -> Programs \cup { None }]
    /\ result \in [Callers -> Results \cup { None }]
    /\ call \in [Callers -> Calls]

DiskOK ==
    /\ bodies \subseteq BodyFile \cup TornFile
    /\ contracts \subseteq ContractFile
    /\ DiskTellsTheTruth

Inv ==
    /\ Typed /\ DiskOK
    /\ \A c \in Callers : CallOK(call[c], program[c], env.require) /\ ResultOK(result[c])

---------------------------------------------------------------------------
(* What the places of a call ask of its record.                             *)

\* A session that calls nothing has nothing to answer for.
LEMMA IdleOK ==
    ASSUME NEW p, NEW required
    PROVE  Idle \in Calls /\ CallOK(Idle, p, required)
<1>1. Size + 1 \in Nat /\ 1 \in 1 .. Size + 1 /\ MaxAttempts \in Nat /\ 0 <= MaxAttempts
  BY AttemptsAssumption
<1>2. Unwoven \in Woven
  BY DEF Unwoven, Woven
<1>3. [i \in Stages |-> None] \in Sources
  BY DEF Sources
<1>4. NoRepair \in Repairs
  BY <1>1 DEF NoRepair, Repairs, Places
<1>5. Idle \in Calls
  BY <1>1, <1>2, <1>3, <1>4 DEF Idle, Calls, Places
<1>6. Budgeted(Idle) /\ Placed(Idle, p) /\ Told(Idle) /\ Contracted(Idle, p) /\ Stocked(Idle, p)
  BY <1>1 DEF Idle, Budgeted, Placed, Told, Contracted, Stocked, Early, Waiting, Resting
<1>7. Explained(Idle.woven, Idle.reasons, required)
  BY ValuesAssumption DEF Idle, Unwoven, Explained
<1> QED
  BY <1>5, <1>6, <1>7 DEF CallOK

\* A set of numbers that is not empty has a least one.
LEMMA Least ==
    ASSUME NEW S, S \subseteq Nat, S # {}
    PROVE  \E j \in S : \A k \in S : j <= k
<1> DEFINE less == OpToRel(<, Nat)
<1>1. \A j, k \in Nat : j < k => << j, k >> \in less
  BY DEF OpToRel
<1>2. IsWellFoundedOn(less, Nat)
  BY NatLessThanWellFounded
<1> HIDE DEF less
<1>3. PICK j \in S : \A k \in S : ~ (<< k, j >> \in less)
  BY <1>2, WFMin
<1>4. ASSUME NEW k \in S PROVE j <= k
  <2>1. ~ (k < j)
    BY <1>1, <1>3
  <2> QED
    BY <2>1
<1> QED
  BY <1>4

\* Where the pass over the reasoning stages goes, all of them behind it are known.
LEMMA ToContractOK ==
    ASSUME NEW r \in Calls, NEW p \in Programs, NEW required, NEW i \in 1 .. Size + 1,
           \A j \in Stages : p.kind[j] = "reasoning" /\ j < i => r.woven[j] # None,
           Explained(r.woven, r.reasons, required)
    PROVE  ToContract(r, p, i) \in Calls /\ CallOK(ToContract(r, p, i), p, required)
<1> DEFINE ahead == Ahead(p, i)
           s == ToContract(r, p, i)
<1>1. Size \in Nat /\ MaxAttempts \in Nat /\ 0 <= MaxAttempts /\ 0 \in Nat /\ 1 \in 1 .. Size + 1
  BY AttemptsAssumption
<1>2. NoRepair \in Repairs
  BY <1>1 DEF NoRepair, Repairs, Places
<1>3. ahead \in SUBSET Nat /\ ahead \subseteq Stages
  BY <1>1 DEF Ahead, Stages
<1>4. CASE ahead = {}
  <2>1. s = [r EXCEPT !.pc = "weaving", !.at = 1, !.attempt = 0, !.repair = NoRepair]
    BY <1>4 DEF ToContract
  <2>2. s \in Calls
    <3> HIDE DEF s
    <3> QED
      BY <2>1, <1>1, <1>2 DEF Calls, Places
  <2>3. /\ s.pc = "weaving" /\ s.at = 1 /\ s.attempt = 0 /\ s.repair = NoRepair
        /\ s.woven = r.woven /\ s.reasons = r.reasons
    BY <2>1 DEF Calls
  <2>4. \A j \in Stages : p.kind[j] = "reasoning" => j < i
    BY <1>4, <1>1 DEF Ahead, Stages
  <2>5. Budgeted(s) /\ Placed(s, p) /\ Told(s) /\ Stocked(s, p)
    BY <2>3, <1>1 DEF Budgeted, Placed, Told, Stocked, Early, Waiting, Resting
  <2>6. Contracted(s, p)
    BY <2>3, <2>4 DEF Contracted
  <2> QED
    BY <2>2, <2>3, <2>5, <2>6 DEF CallOK
<1>5. CASE ahead # {}
  <2> DEFINE next == CHOOSE j \in ahead : \A k \in ahead : j <= k
  <2>0. \E j \in ahead : \A k \in ahead : j <= k
    BY <1>3, <1>5, Least
  <2>1. next \in ahead /\ \A k \in ahead : next <= k
    <3> HIDE DEF ahead
    <3> QED
      BY <2>0
  <2>2. s = [r EXCEPT !.pc = "contract", !.attempt = 0, !.repair = NoRepair, !.at = next]
    BY <1>5 DEF ToContract
  <2> HIDE DEF next
  <2>3. next \in Stages /\ next \in i .. Size /\ p.kind[next] = "reasoning" /\ next \in 1 .. Size + 1
    BY <2>1, <1>1 DEF Ahead, Stages
  <2>4. s \in Calls
    <3> HIDE DEF s
    <3> QED
      BY <2>2, <2>3, <1>1, <1>2 DEF Calls, Places
  <2>5. /\ s.pc = "contract" /\ s.at = next /\ s.attempt = 0 /\ s.repair = NoRepair
        /\ s.woven = r.woven /\ s.reasons = r.reasons
    BY <2>2 DEF Calls
  <2>6. \A j \in Stages : p.kind[j] = "reasoning" /\ j < next => j < i
    BY <2>1, <2>3, <1>1 DEF Ahead, Stages
  <2>7. Budgeted(s) /\ Placed(s, p) /\ Told(s) /\ Stocked(s, p)
    BY <2>3, <2>5, <1>1 DEF Budgeted, Placed, Told, Stocked, Early, Waiting, Resting
  <2>8. Contracted(s, p)
    BY <2>5, <2>6 DEF Contracted, Early
  <2> QED
    BY <2>4, <2>5, <2>7, <2>8 DEF CallOK
<1> QED
  BY <1>4, <1>5

\* The record of a stage that has its body.
Stored(r, source) ==
    [r EXCEPT !.pc = "stage", !.at = @ + 1, !.attempt = 0, !.repair = NoRepair,
              !.found = None, !.sources = [@ EXCEPT ![r.at] = source]]

LEMMA StoredOK ==
    ASSUME NEW r \in Calls, NEW p, NEW required, CallOK(r, p, required),
           r.pc \in Waiting \cup { "stage" }, r.at \in Stages,
           NEW source \in Filled \cup Weaves \cup { Fallback, None },
           Good(p, r.woven, r.at, source)
    PROVE  Stored(r, source) \in Calls /\ CallOK(Stored(r, source), p, required)
<1> DEFINE s == Stored(r, source)
<1>1. Size \in Nat /\ MaxAttempts \in Nat /\ 0 <= MaxAttempts
  BY AttemptsAssumption
<1>2. NoRepair \in Repairs
  BY <1>1 DEF NoRepair, Repairs, Places
<1>3. r.at + 1 \in 1 .. Size + 1 /\ r.at \in Nat
  BY <1>1 DEF Stages
<1>4. r.sources \in Sources
  BY DEF Calls
<1>5. [r.sources EXCEPT ![r.at] = source] \in Sources
  BY <1>4 DEF Sources
<1>6. s \in Calls
  BY <1>1, <1>2, <1>3, <1>5 DEF Stored, Calls, Places
<1>7. /\ s.pc = "stage" /\ s.at = r.at + 1 /\ s.attempt = 0 /\ s.repair = NoRepair
      /\ s.woven = r.woven /\ s.reasons = r.reasons
      /\ s.sources = [r.sources EXCEPT ![r.at] = source]
  BY DEF Stored, Calls
<1>8. Budgeted(s) /\ Placed(s, p) /\ Told(s)
  BY <1>1, <1>7 DEF CallOK, Budgeted, Placed, Told, Early, Waiting, Resting
<1>9. Contracted(s, p)
  BY <1>7 DEF CallOK, Contracted, Early, Waiting
<1>10. ASSUME NEW i \in 1 .. s.at - 1 PROVE Good(p, s.woven, i, s.sources[i])
  <2>1. i \in Stages /\ (i = r.at \/ i \in 1 .. r.at - 1)
    BY <1>3, <1>7, <1>1 DEF Stages
  <2>2. CASE i = r.at
    BY <2>2, <1>4, <1>7 DEF Sources
  <2>3. CASE i \in 1 .. r.at - 1
    <3>1. i # r.at
      BY <2>3, <1>3
    <3>2. s.sources[i] = r.sources[i]
      BY <3>1, <2>1, <1>4, <1>7 DEF Sources
    <3> QED
      BY <2>3, <3>2, <1>7 DEF CallOK, Stocked
  <2> QED
    BY <2>1, <2>2, <2>3
<1>11. Stocked(s, p)
  BY <1>7, <1>10 DEF Stocked
<1> QED
  BY <1>6, <1>7, <1>8, <1>9, <1>11 DEF CallOK

\* Another turn of the model, or of what comes after it, for the same stage.
Turn(r, pc, attempt, repair) == [r EXCEPT !.pc = pc, !.attempt = attempt, !.repair = repair]

LEMMA TurnOK ==
    ASSUME NEW r \in Calls, NEW p, NEW required, CallOK(r, p, required),
           NEW pc \in (Waiting \cup { "asking" }) \ { "rechecking" }, NEW attempt \in Nat, NEW repair \in Repairs,
           r.at \in Stages, r.pc # "idle", r.pc # "weaving", pc \in Early <=> r.pc \in Early,
           pc \in Waiting => p.kind[r.at] # "reasoning",
           Budgeted(Turn(r, pc, attempt, repair)), Told(Turn(r, pc, attempt, repair))
    PROVE  /\ Turn(r, pc, attempt, repair) \in Calls
           /\ CallOK(Turn(r, pc, attempt, repair), p, required)
<1> DEFINE s == Turn(r, pc, attempt, repair)
<1>1. s \in Calls
  BY DEF Turn, Calls, Places, Waiting
<1>2. /\ s.pc = pc /\ s.at = r.at /\ s.woven = r.woven /\ s.reasons = r.reasons
      /\ s.sources = r.sources
  BY DEF Turn, Calls
<1>3. r.pc \in Places
  BY DEF Calls
<1>4. Placed(s, p)
  BY <1>2 DEF CallOK, Placed, Early, Waiting
<1>5. Contracted(s, p)
  BY <1>2 DEF CallOK, Contracted
<1>6. Stocked(s, p)
  BY <1>2, <1>3 DEF CallOK, Stocked, Early, Waiting, Places
<1> QED
  BY <1>1, <1>2, <1>4, <1>5, <1>6 DEF CallOK

---------------------------------------------------------------------------
(* What a step leaves in order.                                             *)

\* A call that goes to a place its record is fit for keeps the invariant.
LEMMA SetsOK ==
    ASSUME Inv, NEW c \in Callers, NEW r \in Calls, CallOK(r, program[c], env.require),
           Sets(c, r), DiskOK'
    PROVE  Inv'
<1>1. UNCHANGED << env, program, result >> /\ call' = [call EXCEPT ![c] = r]
  BY DEF Sets
<1>2. Typed'
  BY <1>1 DEF Inv, Typed
<1>3. ASSUME NEW d \in Callers
      PROVE  CallOK(call'[d], program'[d], env'.require) /\ ResultOK(result'[d])
  BY <1>1 DEF Inv, Typed
<1> QED
  BY <1>2, <1>3 DEF Inv

LEMMA DiskSame ==
    ASSUME DiskOK, UNCHANGED << bodies, contracts >>
    PROVE  DiskOK'
BY DEF DiskOK, DiskTellsTheTruth

\* A call that throws keeps the invariant.
LEMMA FailsOK ==
    ASSUME Inv, NEW c \in Callers, Fails(c)
    PROVE  Inv'
<1>1. DiskOK'
  BY DiskSame DEF Inv, Fails
<1> QED
  BY <1>1, IdleOK, SetsOK DEF Fails

\* The record of a call, and what is known of its program.
LEMMA Known ==
    ASSUME Inv, NEW c \in Callers
    PROVE  /\ call[c] \in Calls /\ CallOK(call[c], program[c], env.require)
           /\ call[c].pc \in Places /\ call[c].at \in 1 .. Size + 1
           /\ call[c].pc # "idle" => program[c] \in Programs
           /\ env.require \in BOOLEAN
<1>1. env \in [provider : BOOLEAN, require : BOOLEAN, allow : BOOLEAN]
  BY EnvironmentsAssumption DEF Inv, Typed
<1>2. env.require \in BOOLEAN
  BY <1>1
<1>3. call[c] \in Calls /\ CallOK(call[c], program[c], env.require)
  BY DEF Inv, Typed
<1> QED
  BY <1>2, <1>3 DEF Calls, CallOK, Placed

LEMMA ProgramParts ==
    ASSUME NEW p \in Programs, NEW i \in Stages
    PROVE  p.kind[i] \in Kinds /\ p.contract[i] \in Contracts /\ p.service \in Services
<1>1. p \in [kind : [Stages -> Kinds], contract : [Stages -> Contracts], service : Services]
  BY ProgramsAssumption
<1> QED
  BY <1>1

\* The key of a stage is the key of a file.
LEMMA KeyOK ==
    ASSUME Inv, NEW c \in Callers, call[c].pc # "idle", call[c].at \in Stages,
           NEW age \in { "new", "old" }
    PROVE  Key(c, age) \in BodyKey
<1>1. program[c] \in Programs /\ call[c].woven \in Woven
  BY Known DEF Calls
<1>2. Prompt(program[c]) \in Prompts
  BY <1>1 DEF Prompts
<1> QED
  BY <1>1, <1>2 DEF Key, BodyKey

\* What is filed under the key of a stage is torn, or was verified for that key.
LEMMA KeepOK ==
    ASSUME Inv, NEW c \in Callers, call[c].pc # "idle", call[c].at \in Stages,
           NEW content, Keep(c, content), UNCHANGED contracts,
           \/ content = Torn
           \/ content \in Body /\ Truthful([key |-> Key(c, "new"), body |-> content])
    PROVE  DiskOK'
<1> DEFINE key == Key(c, "new")
           file == [key |-> key, body |-> content]
<1>1. key \in BodyKey
  BY KeyOK
<1>2. bodies' \subseteq bodies \cup { file }
  BY DEF Keep
<1> HIDE DEF key
<1>3. file \in BodyFile \cup TornFile
  BY <1>1 DEF BodyFile, TornFile, key
<1>4. file.body # Torn => Truthful(file)
  BY DEF key
<1> HIDE DEF file
<1>5. \A f \in bodies' : f.body # Torn => Truthful(f)
  BY <1>2, <1>4 DEF Inv, DiskOK, DiskTellsTheTruth
<1>6. bodies' \subseteq BodyFile \cup TornFile
  BY <1>2, <1>3 DEF Inv, DiskOK
<1> QED
  BY <1>5, <1>6 DEF Inv, DiskOK, DiskTellsTheTruth

\* A contract is filed under the question it answers.
LEMMA KeepContractOK ==
    ASSUME Inv, NEW c \in Callers, call[c].pc # "idle", call[c].at \in Stages,
           NEW w \in Weaves \cup { Torn }, KeepContract(c, w), UNCHANGED bodies
    PROVE  DiskOK'
<1> DEFINE q == Question(program[c], call[c].at)
           file == [question |-> q, weave |-> w]
<1>1. program[c] \in Programs
  BY Known
<1>2. q \in Questions
  <2>1. program[c].contract[call[c].at] \in Contracts
    BY <1>1, ProgramParts
  <2>2. 1 .. call[c].at - 1 \subseteq Stages
    BY AttemptsAssumption DEF Stages
  <2>3. { j \in 1 .. call[c].at - 1 : program[c].kind[j] = "reasoning" } \in SUBSET Stages
    BY <2>2
  <2> QED
    BY <2>1, <2>3 DEF Question, Questions
<1>3. file \in ContractFile
  BY <1>2 DEF ContractFile
<1>4. contracts' \subseteq contracts \cup { file }
  BY DEF KeepContract
<1> QED
  BY <1>3, <1>4 DEF Inv, DiskOK, DiskTellsTheTruth

---------------------------------------------------------------------------
(* The steps of a call.                                                     *)

\* A contract that is derived gives its reason, and is only derived where it may be.
LEMMA WeaveOK ==
    ASSUME Inv, NEW c \in Callers, call[c].pc \in Early,
           NEW w \in Weaves \cup { Fallback }, NEW reasons \in SUBSET Stages,
           w = Fallback => call[c].at \in reasons /\ ~env.require,
           Weave(c, w, reasons), DiskOK'
    PROVE  Inv'
<1> DEFINE r == call[c]
           s == [r EXCEPT !.woven = [@ EXCEPT ![r.at] = w], !.reasons = @ \cup reasons]
           p == program[c]
           q == env.require
<1>1. r \in Calls /\ CallOK(r, p, q) /\ r.pc # "idle" /\ p \in Programs
  BY Known DEF Early
<1>2. r.at \in Stages /\ r.at \in Nat /\ r.at + 1 \in 1 .. Size + 1
  BY <1>1, AttemptsAssumption DEF CallOK, Placed, Stages
<1>3. r.woven \in Woven /\ r.reasons \in SUBSET Stages
  BY <1>1 DEF Calls
<1>4. [r.woven EXCEPT ![r.at] = w] \in Woven
  BY <1>3 DEF Woven
<1>5. s \in Calls
  BY <1>1, <1>3, <1>4 DEF Calls
<1>6. s.woven = [r.woven EXCEPT ![r.at] = w] /\ s.reasons = r.reasons \cup reasons
  BY <1>1 DEF Calls
<1>7. \A j \in Stages : s.woven[j] = IF j = r.at THEN w ELSE r.woven[j]
  BY <1>3, <1>6 DEF Woven
<1>8. w # None
  BY ValuesAssumption
<1>9. ASSUME NEW j \in Stages, p.kind[j] = "reasoning", j < r.at + 1 PROVE s.woven[j] # None
  <2>1. CASE j = r.at
    BY <2>1, <1>7, <1>8
  <2>2. CASE j # r.at
    <3>1. j < r.at
      BY <2>2, <1>2, <1>9, AttemptsAssumption DEF Stages
    <3> QED
      BY <3>1, <2>2, <1>1, <1>7, <1>9 DEF CallOK, Contracted
  <2> QED
    BY <2>1, <2>2
<1>10. Explained(s.woven, s.reasons, q)
  <2>1. Explained(r.woven, r.reasons, q)
    BY <1>1 DEF CallOK
  <2> QED
    BY <2>1, <1>6, <1>7 DEF Explained
<1>11. Sets(c, ToContract(s, p, r.at + 1))
  BY DEF Weave
<1> HIDE DEF s, p, q
<1>12. ToContract(s, p, r.at + 1) \in Calls /\ CallOK(ToContract(s, p, r.at + 1), p, q)
  BY <1>1, <1>2, <1>5, <1>9, <1>10, ToContractOK
<1> QED
  BY <1>11, <1>12, SetsOK DEF p, q

\* The steps of the pass over the reasoning stages.
LEMMA ContractingOK ==
    ASSUME Inv, NEW c \in Callers, Contracting(c)
    PROVE  Inv'
<1> DEFINE r == call[c]
           p == program[c]
           q == env.require
<1>1. r \in Calls /\ CallOK(r, p, q) /\ q \in BOOLEAN /\ (r.pc # "idle" => p \in Programs)
  BY Known
<1>2. r.pc \in Early => r.at \in Stages /\ r.pc # "idle"
  BY <1>1 DEF CallOK, Placed, Early
<1>3. MaxAttempts \in Nat /\ 1 \in 1 .. MaxAttempts /\ Size \in Nat
  BY AttemptsAssumption
<1>4. CASE FindContract(c)
  <2>1. PICK f \in ContractFiles(c) : f.weave # Torn /\ Weave(c, f.weave, {})
    BY <1>4 DEF FindContract
  <2>2. f.weave \in Weaves
    BY <2>1 DEF ContractFiles, Inv, DiskOK, ContractFile
  <2>3. f.weave # Fallback
    BY <2>2, ValuesAssumption
  <2>4. r.pc \in Early /\ DiskOK'
    BY <1>4, DiskSame DEF FindContract, At, Early, Inv
  <2> QED
    BY <2>1, <2>2, <2>3, <2>4, WeaveOK
<1>5. CASE AskForContract(c)
  <2> DEFINE s == [r EXCEPT !.pc = "asking", !.attempt = 1]
  <2>1. r.pc = "contract" /\ r.repair = NoRepair /\ Sets(c, s) /\ DiskOK'
    BY <1>1, <1>5, DiskSame DEF AskForContract, Missing, At, CallOK, Told, Resting, Inv
  <2>2. s = Turn(r, "asking", 1, NoRepair)
    BY <1>1, <2>1 DEF Turn, Calls
  <2>3. NoRepair \in Repairs
    BY <1>1, <2>1 DEF Calls
  <2>4. Budgeted(s) /\ Told(s)
    BY <1>1, <1>3, <2>1 DEF Calls, Budgeted, Told, Resting
  <2>5. s \in Calls /\ CallOK(s, p, q)
    BY <1>1, <1>2, <2>1, <2>2, <2>3, <2>4, TurnOK DEF Early, Waiting
  <2> QED
    BY <2>1, <2>5, SetsOK
<1>6. CASE DeriveContract(c)
  <2>1. r.pc \in Early /\ DiskOK' /\ ~q /\ Weave(c, Fallback, { r.at })
    BY <1>6, DiskSame DEF DeriveContract, Missing, At, Early, Inv
  <2>2. { r.at } \in SUBSET Stages
    BY <1>2, <2>1
  <2> QED
    BY <2>1, <2>2, WeaveOK
<1>7. CASE Unconfigured(c)
  BY <1>7, FailsOK DEF Unconfigured
<1>8. CASE \E w \in Weaves : ContractAnswered(c, w)
  <2>1. PICK w \in Weaves : ContractAnswered(c, w)
    BY <1>8
  <2>2. r.pc \in Early /\ Weave(c, w, {}) /\ KeepContract(c, w) /\ UNCHANGED bodies
    BY <2>1 DEF ContractAnswered, At, Early
  <2>3. DiskOK'
    BY <1>2, <2>2, KeepContractOK
  <2>4. w # Fallback
    BY ValuesAssumption
  <2> QED
    BY <2>2, <2>3, <2>4, WeaveOK
<1>9. CASE AskContractAgain(c)
  <2> DEFINE z == ThisAttempt(c)
             s == [r EXCEPT !.attempt = @ + 1, !.repair = z]
  <2>1. r.pc = "asking" /\ r.attempt < MaxAttempts /\ Sets(c, s) /\ DiskOK'
    BY <1>9, DiskSame DEF AskContractAgain, At, Inv
  <2>2. r.attempt \in 1 .. MaxAttempts
    BY <1>1, <2>1 DEF CallOK, Budgeted
  <2>3. z = [stage |-> r.at, place |-> "asking", attempt |-> r.attempt]
    BY <2>1 DEF ThisAttempt
  <2> HIDE DEF z
  <2>4. s = Turn(r, "asking", r.attempt + 1, z)
    BY <1>1, <2>1 DEF Turn, Calls
  <2>5. z \in Repairs
    BY <1>1, <2>1, <2>3 DEF Repairs, Calls
  <2>6. Budgeted(s) /\ Told(s)
    BY <1>1, <1>3, <2>1, <2>2, <2>3 DEF Calls, Budgeted, Told, Resting
  <2>7. r.attempt + 1 \in Nat /\ r.at \in Stages /\ r.pc # "idle" /\ r.pc # "weaving"
    BY <1>2, <2>1, <2>2, <1>3 DEF Early
  <2>8. s \in Calls /\ CallOK(s, p, q)
    <3> HIDE DEF s, p, q
    <3> QED
      BY <1>1, <2>1, <2>4, <2>5, <2>6, <2>7, TurnOK DEF Early, Waiting
  <2> QED
    BY <2>1, <2>8, SetsOK
<1>10. CASE FallBackToContract(c)
  <2>1. r.pc \in Early /\ DiskOK' /\ ~q /\ Weave(c, Fallback, { r.at })
    BY <1>10, DiskSame DEF FallBackToContract, At, Early, Inv
  <2>2. { r.at } \in SUBSET Stages
    BY <1>2, <2>1
  <2> QED
    BY <2>1, <2>2, WeaveOK
<1>11. CASE NoContract(c) \/ DerivedRefused(c)
  BY <1>11, FailsOK DEF NoContract, DerivedRefused
<1>12. CASE WeaveSpec(c)
  <2>1. CASE Fails(c)
    BY <2>1, FailsOK
  <2>2. CASE Sets(c, [r EXCEPT !.pc = "stage"]) /\ UNCHANGED << bodies, contracts >>
    <3> DEFINE s == [r EXCEPT !.pc = "stage"]
    <3>1. r.pc = "weaving" /\ r.at = 1
      BY <1>1, <1>12 DEF WeaveSpec, At, CallOK, Placed
    <3>2. s \in Calls
      BY <1>1 DEF Calls, Places
    <3>3. /\ s.pc = "stage" /\ s.at = 1 /\ s.attempt = r.attempt /\ s.repair = r.repair
          /\ s.woven = r.woven /\ s.reasons = r.reasons
      BY <1>1, <3>1 DEF Calls
    <3>4. Budgeted(s) /\ Placed(s, p) /\ Told(s)
      BY <1>1, <3>1, <3>3 DEF CallOK, Budgeted, Placed, Told, Early, Waiting, Resting
    <3>5. Contracted(s, p) /\ Stocked(s, p)
      BY <1>1, <3>1, <3>3 DEF CallOK, Contracted, Stocked, Early, Waiting
    <3>6. CallOK(s, p, q)
      BY <1>1, <3>3, <3>4, <3>5 DEF CallOK
    <3>7. DiskOK'
      BY <2>2, DiskSame DEF Inv
    <3> QED
      BY <2>2, <3>2, <3>6, <3>7, SetsOK
  <2> QED
    BY <1>12, <2>1, <2>2 DEF WeaveSpec
<1> QED
  BY <1>4, <1>5, <1>6, <1>7, <1>8, <1>9, <1>10, <1>11, <1>12 DEF Contracting

\* What the lookup finds is a body that fits the stage it is found for.
LEMMA HitFits ==
    ASSUME Inv, NEW c \in Callers, Looks(c), ~Unreadable(c), NEW h \in Hits(c)
    PROVE  /\ [body |-> h.f.body, origin |-> h.origin] \in Filled
           /\ Fits(program[c], call[c].woven, call[c].at, [body |-> h.f.body, origin |-> h.origin])
<1> DEFINE r == call[c]
           p == program[c]
           source == [body |-> h.f.body, origin |-> h.origin]
<1>1. r \in Calls /\ r.pc = "stage" /\ r.at \in Stages /\ p \in Programs
  BY Known, AttemptsAssumption DEF Looks, At, Stages
<1>2. p.kind[r.at] # "reasoning" /\ p.kind[r.at] = Kind(c) /\ p.contract[r.at] = Contract(c)
  BY DEF Looks, Kind, Contract
<1>4. CASE Named(c) # {}
  <2>1. h.f \in Named(c) /\ h.origin = "replayed"
    BY <1>4 DEF Hits
  <2>2. h.f \in bodies /\ h.f.body # Torn
    BY <1>4, <2>1 DEF Unreadable, Named, FilesOf
  <2>3. h.f.body \in Body /\ Truthful(h.f)
    BY <2>2 DEF Inv, DiskOK, DiskTellsTheTruth, BodyFile, TornFile
  <2>4. h.f.key = Key(c, "new") \/ h.f.key = Key(c, "old")
    BY <2>1 DEF Named, FilesOf
  <2>5. h.f.key.stage = r.at /\ h.f.key.prompt.kind = p.kind /\ h.f.key.woven = r.woven
        /\ h.f.key.prompt.contract = p.contract
    BY <2>4 DEF Key, Prompt
  <2>6. source \in Filled /\ source # None
    BY <2>1, <2>3, NoneAssumption DEF Filled, Origins
  <2>7. Fits(p, r.woven, r.at, source)
    BY <1>2, <2>1, <2>3, <2>5, <2>6 DEF Fits, Truthful
  <2> QED
    BY <2>6, <2>7
<1>5. CASE Named(c) = {}
  <2>1. h.f \in Alike(c) /\ h.origin = "alike"
    BY <1>5 DEF Hits, Preferred
  <2>2. h.f \in bodies /\ h.f.body # Torn /\ h.f.body.stage = r.at
        /\ Matches(h.f.body.contract, Contract(c))
    BY <2>1 DEF Alike
  <2>3. h.f.body \in Body
    BY <2>2 DEF Inv, DiskOK, BodyFile, TornFile
  <2>4. source \in Filled /\ source # None
    BY <2>1, <2>3, NoneAssumption DEF Filled, Origins
  <2>5. Fits(p, r.woven, r.at, source)
    BY <1>2, <2>1, <2>2, <2>4 DEF Fits
  <2> QED
    BY <2>4, <2>5
<1> QED
  BY <1>4, <1>5

\* The steps of the lookup.
LEMMA FindingOK ==
    ASSUME Inv, NEW c \in Callers, Finding(c)
    PROVE  Inv'
<1> DEFINE r == call[c]
           p == program[c]
           q == env.require
<1>1. r \in Calls /\ CallOK(r, p, q) /\ (r.pc # "idle" => p \in Programs) /\ r.at \in 1 .. Size + 1
  BY Known
<1>2. Looks(c) => r.at \in Stages /\ r.pc = "stage"
  BY <1>1, AttemptsAssumption DEF Looks, At, Stages
<1>3. r.pc = "rechecking" => r.at \in Stages
  BY <1>1 DEF CallOK, Placed, Waiting
<1>4. CASE CannotRead(c)
  BY <1>4, FailsOK DEF CannotRead
<1>5. CASE Replay(c)
  <2>1. PICK h \in Hits(c) : FillWith(c, [body |-> h.f.body, origin |-> h.origin])
    BY <1>5 DEF Replay
  <2> DEFINE source == [body |-> h.f.body, origin |-> h.origin]
  <2>2. source \in Filled /\ Fits(p, r.woven, r.at, source)
    BY <1>5, HitFits DEF Replay
  <2>3. Sets(c, Stored(r, source)) /\ r.at \in Stages /\ r.pc = "stage"
    BY <1>2, <1>5, <2>1 DEF FillWith, Stored, Replay
  <2>4. Good(p, r.woven, r.at, source)
    BY <1>5, <2>2 DEF Good, Replay, Kind
  <2>5. DiskOK'
    BY <1>5, DiskSame DEF Replay, Inv
  <2> HIDE DEF source, p, q
  <2>6. Stored(r, source) \in Calls /\ CallOK(Stored(r, source), p, q)
    BY <1>1, <2>2, <2>3, <2>4, StoredOK
  <2> QED
    BY <2>3, <2>5, <2>6, SetsOK DEF p, q
<1>6. CASE Recheck(c)
  <2>1. PICK h \in Hits(c) :
            Sets(c, [r EXCEPT !.pc = "rechecking", !.found = [body |-> h.f.body, origin |-> h.origin]])
    BY <1>6 DEF Recheck
  <2> DEFINE source == [body |-> h.f.body, origin |-> h.origin]
             s == [r EXCEPT !.pc = "rechecking", !.found = source]
  <2>2. source \in Filled /\ Fits(p, r.woven, r.at, source)
    BY <1>6, HitFits DEF Recheck
  <2>3. Sets(c, s) /\ r.at \in Stages /\ r.pc = "stage" /\ p.kind[r.at] = "http"
    BY <1>2, <1>6, <2>1 DEF Recheck, Kind
  <2> HIDE DEF source
  <2>4. s \in Calls
    BY <1>1, <2>2 DEF Calls, Places
  <2>5. /\ s.pc = "rechecking" /\ s.found = source /\ s.at = r.at /\ s.attempt = r.attempt
        /\ s.woven = r.woven /\ s.reasons = r.reasons /\ s.sources = r.sources
    BY <1>1 DEF Calls
  <2>6. Budgeted(s) /\ Placed(s, p) /\ Told(s)
    BY <1>1, <2>3, <2>5 DEF CallOK, Budgeted, Placed, Told, Early, Waiting, Resting
  <2>7. Contracted(s, p) /\ Stocked(s, p)
    BY <1>1, <2>2, <2>3, <2>5 DEF CallOK, Contracted, Stocked, Early
  <2>8. CallOK(s, p, q)
    BY <1>1, <2>5, <2>6, <2>7 DEF CallOK
  <2>9. DiskOK'
    BY <1>6, DiskSame DEF Recheck, Inv
  <2> QED
    BY <2>3, <2>4, <2>8, <2>9, SetsOK
<1>7. CASE RecheckPasses(c)
  <2> DEFINE source == r.found
  <2>1. /\ r.pc = "rechecking" /\ Sets(c, Stored(r, source)) /\ r.at \in Stages
        /\ source.body.kind = "http" /\ source.body.service = p.service
    BY <1>3, <1>7 DEF RecheckPasses, At, FillWith, Stored
  <2>2. source \in Filled \cup { None } /\ Fits(p, r.woven, r.at, source)
    BY <1>1, <2>1 DEF CallOK, Stocked, Calls
  <2>3. Good(p, r.woven, r.at, source)
    BY <2>1, <2>2 DEF Good
  <2>4. DiskOK'
    BY <1>7, DiskSame DEF RecheckPasses, Inv
  <2> HIDE DEF source, p, q
  <2>5. Stored(r, source) \in Calls /\ CallOK(Stored(r, source), p, q)
    BY <1>1, <2>1, <2>2, <2>3, StoredOK DEF Waiting
  <2> QED
    BY <2>1, <2>4, <2>5, SetsOK DEF p, q
<1>8. CASE RecheckFails(c) \/ ReplayRefused(c)
  BY <1>8, FailsOK DEF RecheckFails, ReplayRefused
<1> QED
  BY <1>4, <1>5, <1>6, <1>7, <1>8 DEF Finding

\* A body that passes the gate of its stage is good for its stage, and true to its key.
LEMMA BodyPassesOK ==
    ASSUME Inv, NEW c \in Callers, BodyPasses(c)
    PROVE  Inv'
<1> DEFINE r == call[c]
           p == program[c]
           q == env.require
           body == Verified(c)
           source == [body |-> body, origin |-> "accepted"]
<1>1. r \in Calls /\ CallOK(r, p, q) /\ r.pc \in Waiting /\ r.pc # "rechecking"
  BY Known DEF BodyPasses, Judging, Waiting
<1>2. r.at \in Stages /\ p \in Programs /\ r.woven \in Woven /\ r.pc # "idle"
  BY <1>1, Known DEF CallOK, Placed, Waiting, Calls
<1>3. body \in Body
  <2>1. Kind(c) \in Kinds /\ Contract(c) \in Contracts /\ p.service \in Services
    BY <1>2, ProgramParts DEF Kind, Contract
  <2> QED
    BY <1>2, <2>1 DEF Verified, Body, At
<1>4. /\ body.stage = r.at /\ body.kind = p.kind[r.at] /\ body.contract = p.contract[r.at]
      /\ body.woven = r.woven /\ body.service = p.service
  BY DEF Verified, Kind, Contract
<1> HIDE DEF body
<1>5. source \in Filled /\ source # None
  BY <1>3, NoneAssumption DEF Filled, Origins
<1>6. p.kind[r.at] # "reasoning"
  BY <1>1 DEF CallOK, Placed
<1>7. Good(p, r.woven, r.at, source)
  BY <1>4, <1>5, <1>6 DEF Good, Fits
<1>8. Truthful([key |-> Key(c, "new"), body |-> body])
  BY <1>4 DEF Truthful, Key, Prompt
<1>9. Keep(c, body) /\ UNCHANGED contracts /\ Sets(c, Stored(r, source))
  BY DEF BodyPasses, body, FillWith, Stored
<1>10. DiskOK'
  BY <1>2, <1>3, <1>8, <1>9, KeepOK
<1> HIDE DEF source, p, q
<1>11. Stored(r, source) \in Calls /\ CallOK(Stored(r, source), p, q)
  BY <1>1, <1>2, <1>5, <1>7, StoredOK
<1> QED
  BY <1>9, <1>10, <1>11, SetsOK DEF p, q

\* A call that turns to a model, a template or the mechanical body.
LEMMA TurnsOK ==
    ASSUME Inv, NEW c \in Callers, call[c].pc \in Waiting \cup { "stage" }, call[c].at \in Stages,
           program[c].kind[call[c].at] # "reasoning",
           NEW pc \in Waiting \ { "rechecking" }, NEW attempt \in Nat, NEW repair \in Repairs,
           Sets(c, Turn(call[c], pc, attempt, repair)), UNCHANGED << bodies, contracts >>,
           Budgeted(Turn(call[c], pc, attempt, repair)), Told(Turn(call[c], pc, attempt, repair))
    PROVE  Inv'
<1>1. call[c] \in Calls /\ CallOK(call[c], program[c], env.require)
  BY Known
<1>2. DiskOK'
  BY DiskSame DEF Inv
<1>3. Turn(call[c], pc, attempt, repair) \in Calls
      /\ CallOK(Turn(call[c], pc, attempt, repair), program[c], env.require)
  BY <1>1, TurnOK DEF Early, Waiting
<1> QED
  BY <1>2, <1>3, SetsOK

\* The steps that generate, verify and repair.
LEMMA GeneratingOK ==
    ASSUME Inv, NEW c \in Callers, Generating(c)
    PROVE  Inv'
<1> DEFINE r == call[c]
           p == program[c]
           z == ThisAttempt(c)
<1>1. r \in Calls /\ CallOK(r, p, env.require) /\ r.at \in 1 .. Size + 1 /\ r.attempt \in Nat
      /\ r.repair \in Repairs /\ (r.pc # "idle" => p \in Programs) /\ r.pc \in Places
  BY Known DEF Calls
<1>2. MaxAttempts \in Nat /\ 1 <= MaxAttempts /\ MaxEscalations \in Nat /\ Size \in Nat
  BY AttemptsAssumption
<1>3. r.pc \in Waiting => r.at \in Stages /\ p.kind[r.at] # "reasoning"
  BY <1>1 DEF CallOK, Placed
<1>4. z = [stage |-> r.at, place |-> r.pc, attempt |-> r.attempt] /\ z \in Repairs
  BY <1>1, <1>2 DEF ThisAttempt, Repairs
<1> HIDE DEF z
<1>5. ASSUME Generate(c) \/ Render(c) PROVE Inv'
  <2>1. r.pc = "stage" /\ r.at \in Stages /\ p.kind[r.at] # "reasoning"
        /\ UNCHANGED << bodies, contracts >>
    BY <1>1, <1>2, <1>5 DEF Generate, Render, Looks, At, Kind, Stages
  <2>2. r.repair = NoRepair
    BY <1>1, <2>1 DEF CallOK, Told, Resting
  <2>3. PICK pc \in { "generating", "rendering" } : Sets(c, [r EXCEPT !.pc = pc, !.attempt = 1])
    BY <1>5 DEF Generate, Render
  <2> DEFINE s == Turn(r, pc, 1, NoRepair)
  <2>4. s = [r EXCEPT !.pc = pc, !.attempt = 1]
    BY <1>1, <2>2 DEF Turn, Calls
  <2>5. s.pc = pc /\ s.attempt = 1 /\ s.repair = NoRepair
    BY <1>1 DEF Turn, Calls
  <2>6. Budgeted(s) /\ Told(s)
    BY <1>2, <2>5 DEF Budgeted, Told, Resting
  <2> HIDE DEF s
  <2>7. Sets(c, s)
    BY <2>3, <2>4
  <2> QED
    BY <1>1, <2>1, <2>2, <2>6, <2>7, TurnsOK DEF s, Waiting
<1>6. ASSUME GenerateAgain(c) \/ EscalateAgain(c) PROVE Inv'
  <2>1. /\ r.pc \in { "generating", "escalating" } /\ UNCHANGED << bodies, contracts >>
        /\ Sets(c, [r EXCEPT !.attempt = @ + 1, !.repair = z])
    BY <1>6 DEF GenerateAgain, EscalateAgain, At, z
  <2>2. /\ r.pc = "generating" => r.attempt \in 1 .. MaxAttempts /\ r.attempt < MaxAttempts
        /\ r.pc = "escalating" => r.attempt \in 1 .. MaxEscalations /\ r.attempt < MaxEscalations
    BY <1>1, <1>6 DEF CallOK, Budgeted, GenerateAgain, EscalateAgain, At
  <2> DEFINE s == Turn(r, r.pc, r.attempt + 1, z)
  <2>3. s = [r EXCEPT !.attempt = @ + 1, !.repair = z]
    BY <1>1 DEF Turn, Calls
  <2>4. s.pc = r.pc /\ s.attempt = r.attempt + 1 /\ s.repair = z /\ s.at = r.at
    BY <1>1 DEF Turn, Calls
  <2>5. Budgeted(s) /\ Told(s)
    BY <1>1, <1>2, <1>4, <2>1, <2>2, <2>4 DEF Budgeted, Told, Resting
  <2>6. r.at \in Stages /\ p.kind[r.at] # "reasoning" /\ r.attempt + 1 \in Nat
    BY <1>1, <1>3, <2>1 DEF Waiting
  <2> HIDE DEF s
  <2>7. Sets(c, s)
    BY <2>1, <2>3
  <2> QED
    BY <1>4, <2>1, <2>5, <2>6, <2>7, TurnsOK DEF s, Waiting
<1>7. ASSUME Escalate(c) PROVE Inv'
  <2>1. /\ r.pc = "generating" /\ r.attempt = MaxAttempts /\ MaxEscalations > 0
        /\ UNCHANGED << bodies, contracts >>
        /\ Sets(c, [r EXCEPT !.pc = "escalating", !.attempt = 1, !.repair = z])
    BY <1>7 DEF Escalate, At, z
  <2> DEFINE s == Turn(r, "escalating", 1, z)
  <2>2. s = [r EXCEPT !.pc = "escalating", !.attempt = 1, !.repair = z]
    BY DEF Turn
  <2>3. s.pc = "escalating" /\ s.attempt = 1 /\ s.repair = z /\ s.at = r.at
    BY <1>1 DEF Turn, Calls
  <2>4. Budgeted(s) /\ Told(s)
    BY <1>2, <1>4, <2>1, <2>3 DEF Budgeted, Told, Resting
  <2>5. r.at \in Stages /\ p.kind[r.at] # "reasoning"
    BY <1>3, <2>1 DEF Waiting
  <2> HIDE DEF s
  <2>6. Sets(c, s)
    BY <2>1, <2>2
  <2> QED
    BY <1>4, <2>1, <2>4, <2>5, <2>6, TurnsOK DEF s, Waiting
<1>8. ASSUME FallBack(c) PROVE Inv'
  <2>1. /\ r.pc \in { "generating", "escalating" } /\ UNCHANGED << bodies, contracts >>
        /\ Sets(c, [r EXCEPT !.pc = "falling"])
    BY <1>8 DEF FallBack, At
  <2> DEFINE s == Turn(r, "falling", r.attempt, r.repair)
  <2>2. s = [r EXCEPT !.pc = "falling"]
    BY <1>1 DEF Turn, Calls
  <2>3. s.pc = "falling" /\ s.attempt = r.attempt
    BY <1>1 DEF Turn, Calls
  <2>4. Budgeted(s) /\ Told(s)
    BY <1>1, <2>3 DEF CallOK, Budgeted, Told, Resting
  <2>5. r.at \in Stages /\ p.kind[r.at] # "reasoning"
    BY <1>3, <2>1 DEF Waiting
  <2> HIDE DEF s
  <2>6. Sets(c, s)
    BY <2>1, <2>2
  <2> QED
    BY <1>1, <2>1, <2>4, <2>5, <2>6, TurnsOK DEF s, Waiting
<1>9. ASSUME BodyRefused(c) \/ Exhausted(c) PROVE Inv'
  BY <1>9, FailsOK DEF BodyRefused, Exhausted
<1> QED
  BY <1>5, <1>6, <1>7, <1>8, <1>9, BodyPassesOK DEF Generating

\* A reasoning stage records the contract that is woven in.
LEMMA RecordOK ==
    ASSUME Inv, NEW c \in Callers, Record(c)
    PROVE  Inv'
<1> DEFINE r == call[c]
           p == program[c]
           q == env.require
           source == r.woven[r.at]
<1>1. r \in Calls /\ CallOK(r, p, q) /\ r.pc = "stage" /\ r.at \in Stages /\ r.woven \in Woven
  BY Known, AttemptsAssumption DEF Record, At, Stages, Calls
<1>2. source \in Weaves \cup { Fallback, None } /\ p.kind[r.at] = "reasoning"
  BY <1>1 DEF Woven, Record, Kind
<1>3. Good(p, r.woven, r.at, source)
  BY <1>1, <1>2 DEF Good, Fits, CallOK, Contracted, Early
<1>4. Sets(c, Stored(r, source)) /\ DiskOK'
  BY DiskSame DEF Record, FillWith, Stored, Inv
<1> HIDE DEF source, p, q
<1>5. Stored(r, source) \in Calls /\ CallOK(Stored(r, source), p, q)
  BY <1>1, <1>2, <1>3, StoredOK
<1> QED
  BY <1>4, <1>5, SetsOK DEF p, q

\* A result is what a call has filled.
LEMMA PublishOK ==
    ASSUME Inv, NEW c \in Callers, Publish(c)
    PROVE  /\ Inv' /\ result'[c] # None /\ result'[c].program = program[c]
<1> DEFINE r == call[c]
           s == Result(c)
<1>1. /\ r \in Calls /\ CallOK(r, program[c], env.require) /\ r.pc = "stage" /\ r.at = Size + 1
      /\ program[c] \in Programs /\ env.require \in BOOLEAN
  BY Known DEF Publish, At
<1>2. s \in Results
  BY <1>1 DEF Result, Results, Calls
<1>3. /\ s.program = program[c] /\ s.woven = r.woven /\ s.sources = r.sources
      /\ s.reasons = r.reasons /\ s.required = env.require
  BY DEF Result
<1>4. ASSUME NEW i \in Stages PROVE Good(s.program, s.woven, i, s.sources[i])
  BY <1>1, <1>3, AttemptsAssumption DEF CallOK, Stocked, Stages
<1>5. ResultOK(s)
  BY <1>1, <1>3, <1>4 DEF ResultOK, CallOK
<1>6. result' = [result EXCEPT ![c] = s] /\ call' = [call EXCEPT ![c] = Idle]
      /\ UNCHANGED << env, program, bodies, contracts >>
  BY DEF Publish
<1> HIDE DEF s
<1>7. Typed'
  BY <1>2, <1>6, IdleOK DEF Inv, Typed
<1>8. DiskOK'
  BY <1>6, DiskSame DEF Inv
<1>9. ASSUME NEW d \in Callers
      PROVE  CallOK(call'[d], program'[d], env'.require) /\ ResultOK(result'[d])
  <2>1. CASE d = c
    BY <2>1, <1>5, <1>6, IdleOK DEF Inv, Typed
  <2>2. CASE d # c
    BY <2>2, <1>6 DEF Inv, Typed
  <2> QED
    BY <2>1, <2>2
<1>10. result'[c] = s /\ s # None
  BY <1>2, <1>6, NoneAssumption DEF Inv, Typed
<1> QED
  BY <1>3, <1>7, <1>8, <1>9, <1>10 DEF Inv

LEMMA SpecifyOK ==
    ASSUME Inv, NEW c \in Callers, NEW p \in Wishes[c], Specify(c, p)
    PROVE  Inv'
<1>1. p \in Programs
  BY ProgramsAssumption
<1>2. /\ program' = [program EXCEPT ![c] = p] /\ result' = [result EXCEPT ![c] = None]
      /\ call' = [call EXCEPT ![c] = Idle] /\ UNCHANGED << env, bodies, contracts >>
  BY DEF Specify
<1>3. Typed'
  BY <1>1, <1>2, IdleOK DEF Inv, Typed
<1>4. DiskOK'
  BY <1>2, DiskSame DEF Inv
<1>5. ASSUME NEW d \in Callers
      PROVE  CallOK(call'[d], program'[d], env'.require) /\ ResultOK(result'[d])
  <2>1. CASE d = c
    BY <2>1, <1>2, IdleOK DEF Inv, Typed, ResultOK
  <2>2. CASE d # c
    BY <2>2, <1>2 DEF Inv, Typed
  <2> QED
    BY <2>1, <2>2
<1> QED
  BY <1>3, <1>4, <1>5 DEF Inv

LEMMA StartOK ==
    ASSUME Inv, NEW c \in Callers, Start(c)
    PROVE  Inv'
<1> DEFINE p == program[c]
<1>1. p \in Programs
  BY DEF Inv, Typed, Start
<1>2. Idle \in Calls /\ 1 \in 1 .. Size + 1 /\ Explained(Idle.woven, Idle.reasons, env.require)
  BY IdleOK, AttemptsAssumption DEF CallOK
<1>3. \A j \in Stages : ~ (j < 1)
  BY AttemptsAssumption DEF Stages
<1>4. ToContract(Idle, p, 1) \in Calls /\ CallOK(ToContract(Idle, p, 1), p, env.require)
  BY <1>1, <1>2, <1>3, ToContractOK
<1>5. Sets(c, ToContract(Idle, p, 1)) /\ DiskOK'
  BY DiskSame DEF Start, Inv
<1> QED
  BY <1>4, <1>5, SetsOK

\* A process that starts knows nothing but the disk.
LEMMA ForgetOK ==
    ASSUME ForgetAll, DiskOK'
    PROVE  Inv'
<1>1. Typed'
  BY IdleOK DEF ForgetAll, Typed
<1>2. ASSUME NEW d \in Callers
      PROVE  CallOK(call'[d], program'[d], env'.require) /\ ResultOK(result'[d])
  BY IdleOK DEF ForgetAll, ResultOK
<1> QED
  BY <1>1, <1>2 DEF Inv

LEMMA CrashesOK ==
    ASSUME Inv, Crash \/ \E c \in Callers : CrashInBody(c) \/ CrashInContract(c)
    PROVE  Inv'
<1>1. CASE Crash
  BY <1>1, DiskSame, ForgetOK DEF Crash, Inv
<1>2. ASSUME NEW c \in Callers, CrashInBody(c) PROVE Inv'
  <2>1. call[c].pc \in Waiting /\ call[c].pc # "idle"
    BY <1>2 DEF CrashInBody, Judging, Waiting
  <2>2. call[c].at \in Stages
    BY <2>1, Known DEF CallOK, Placed
  <2>3. DiskOK'
    BY <1>2, <2>1, <2>2, KeepOK DEF CrashInBody
  <2> QED
    BY <1>2, <2>3, ForgetOK DEF CrashInBody
<1>3. ASSUME NEW c \in Callers, CrashInContract(c) PROVE Inv'
  <2>1. call[c].pc \in Early /\ call[c].pc # "idle"
    BY <1>3 DEF CrashInContract, At, Early
  <2>2. call[c].at \in Stages
    BY <2>1, Known DEF CallOK, Placed
  <2>3. DiskOK'
    BY <1>3, <2>1, <2>2, KeepContractOK DEF CrashInContract
  <2> QED
    BY <1>3, <2>3, ForgetOK DEF CrashInContract
<1> QED
  BY <1>1, <1>2, <1>3

LEMMA InitOK == Init => Inv
<1> SUFFICES ASSUME Init PROVE Inv
  OBVIOUS
<1>1. Typed
  BY IdleOK DEF Init, Typed
<1>2. bodies \subseteq BodyFile /\ \A f \in bodies : Truthful(f)
  BY InheritedAssumption DEF Init
<1>3. DiskOK
  BY <1>2 DEF Init, DiskOK, DiskTellsTheTruth
<1>4. ASSUME NEW d \in Callers
      PROVE  CallOK(call[d], program[d], env.require) /\ ResultOK(result[d])
  BY IdleOK DEF Init, ResultOK
<1> QED
  BY <1>1, <1>3, <1>4 DEF Inv

LEMMA NextOK == Inv /\ [Next]_vars => Inv'
<1> SUFFICES ASSUME Inv, [Next]_vars PROVE Inv'
  OBVIOUS
<1>1. ASSUME NEW c \in Callers, Goes(c) PROVE Inv'
  BY <1>1, ContractingOK, FindingOK, GeneratingOK, RecordOK, PublishOK DEF Goes, Moves
<1>2. ASSUME NEW c \in Callers, NEW p \in Wishes[c], Specify(c, p) PROVE Inv'
  BY <1>2, SpecifyOK
<1>3. ASSUME NEW c \in Callers, Start(c) PROVE Inv'
  BY <1>3, StartOK
<1>4. CASE Crash \/ \E c \in Callers : CrashInBody(c) \/ CrashInContract(c)
  BY <1>4, CrashesOK
<1>5. CASE UNCHANGED vars
  <2>1. DiskOK'
    BY <1>5, DiskSame DEF vars, Inv
  <2> QED
    BY <1>5, <2>1 DEF vars, Inv, Typed
<1> QED
  BY <1>1, <1>2, <1>3, <1>4, <1>5 DEF Next

LEMMA InvAlways == Spec => []Inv
BY InitOK, NextOK, PTL DEF Spec

---------------------------------------------------------------------------
(* The properties of every behaviour.                                       *)

\* Every variable holds a value of its kind, and budgets are kept.
THEOREM SynthesisTypeCorrect == Spec => []TypeOK
<1>1. ASSUME Inv PROVE TypeOK
  <2>1. ASSUME NEW c \in Callers
        PROVE  /\ call[c].pc \in Places
               /\ call[c].at \in 1 .. Size + 1 /\ call[c].attempt \in Nat
               /\ call[c].attempt <= MaxAttempts \/ call[c].attempt <= MaxEscalations
               /\ call[c].woven \in Woven /\ call[c].reasons \subseteq Stages
               /\ call[c].sources \in Sources
               /\ call[c].found \in Filled \cup { None }
    BY <1>1, Known DEF Calls, CallOK, Budgeted
  <2> QED
    BY <1>1, <2>1 DEF TypeOK, Inv, Typed, DiskOK
<1> QED
  BY <1>1, InvAlways, PTL

\* readCache hands out what writeFileSync put under this key, and only what was
\* verified for it was put there.
THEOREM DiskAlwaysTellsTheTruth == Spec => []DiskTellsTheTruth
<1>1. Inv => DiskTellsTheTruth
  BY DEF Inv, DiskOK
<1> QED
  BY <1>1, InvAlways, PTL

\* Every stage of a result of synthesizeDomainLogic has a body that fits it.
THEOREM ResultsAlwaysFit == Spec => []ResultFits
<1>1. Inv => ResultFits
  BY DEF Inv, ResultOK, Good, ResultFits
<1> QED
  BY <1>1, InvAlways, PTL

\* An http integration in a result has been run against the service of its program.
THEOREM ServicesAlwaysCalled == Spec => []ServicesWereCalled
<1>1. Inv => ServicesWereCalled
  BY DEF Inv, ResultOK, Good, ServicesWereCalled
<1> QED
  BY <1>1, InvAlways, PTL

\* A derived contract comes with its fallback_reason, and never where
\* PGAS_REASONING_CONTRACT_REQUIRE_LLM is set.
THEOREM DegradationAlwaysExplicit == Spec => []DegradationIsExplicit
<1>1. Inv => DegradationIsExplicit
  BY DEF Inv, ResultOK, Explained, DegradationIsExplicit
<1> QED
  BY <1>1, InvAlways, PTL

\* lastError belongs to the last attempt at the stage at hand.
THEOREM RepairAlwaysOfThisStage == Spec => []RepairIsOfThisStage
<1>1. Inv => RepairIsOfThisStage
  BY DEF Inv, CallOK, Told, RepairIsOfThisStage
<1> QED
  BY <1>1, InvAlways, PTL

---------------------------------------------------------------------------
(* Every call is all or nothing.                                            *)

FilledTo(r) == IF r.pc \in { "idle", "contract", "asking", "weaving" } THEN 0 ELSE r.at - 1

Steps(c, n) ==
    \/ n = 0
    \/ n = FilledTo(call[c])
    \/ n = FilledTo(call[c]) + 1 /\ program[c] # None /\ FilledTo(call[c]) < Size

Abstractly(c) == [Filling(c)!Next]_(Filling(c)!vars)

\* A call that fills the next stage, gives up, or fills nothing.
LEMMA SetsStep ==
    ASSUME Inv, NEW c \in Callers, NEW r, Sets(c, r), Steps(c, FilledTo(r)), NEW d \in Callers
    PROVE  Abstractly(d)
<1>1. UNCHANGED << env, program, result >> /\ call' = [call EXCEPT ![c] = r]
  BY DEF Sets
<1>2. CASE d # c
  <2>1. call'[d] = call[d]
    BY <1>1, <1>2 DEF Inv, Typed
  <2> QED
    BY <1>1, <2>1 DEF Abstractly, Filling!vars, Published
<1>3. CASE d = c
  <2>1. call'[c] = r
    BY <1>1 DEF Inv, Typed
  <2>2. CASE FilledTo(r) = 0
    BY <1>1, <1>3, <2>1, <2>2 DEF Abstractly, Filling!vars, Filling!Next, Filling!GiveUp, Published, FilledTo
  <2>3. CASE FilledTo(r) = FilledTo(call[c])
    BY <1>1, <1>3, <2>1, <2>3 DEF Abstractly, Filling!vars, Published, FilledTo
  <2>4. CASE FilledTo(r) = FilledTo(call[c]) + 1 /\ program[c] # None /\ FilledTo(call[c]) < Size
    BY <1>1, <1>3, <2>1, <2>4 DEF Abstractly, Filling!vars, Filling!Next, Filling!Fill, Published, FilledTo
  <2> QED
    BY <2>2, <2>3, <2>4 DEF Steps
<1> QED
  BY <1>2, <1>3

\* A call of idle sessions, and what only turns to another source, fill nothing.
LEMMA FailsStep ==
    ASSUME Inv, NEW c \in Callers, Fails(c), NEW d \in Callers
    PROVE  Abstractly(d)
<1>1. FilledTo(Idle) = 0
  BY DEF FilledTo, Idle
<1> QED
  BY <1>1, IdleOK, SetsStep DEF Fails, Steps

LEMMA ToContractStep ==
    ASSUME NEW r \in Calls, NEW p, NEW i
    PROVE  FilledTo(ToContract(r, p, i)) = 0
<1> DEFINE n == CHOOSE j \in Ahead(p, i) : \A k \in Ahead(p, i) : j <= k
<1> HIDE DEF n
<1>1. \/ ToContract(r, p, i) = [r EXCEPT !.pc = "weaving", !.at = 1, !.attempt = 0, !.repair = NoRepair]
      \/ ToContract(r, p, i) = [r EXCEPT !.pc = "contract", !.attempt = 0, !.repair = NoRepair, !.at = n]
  BY DEF ToContract, n
<1>2. ToContract(r, p, i).pc \in { "weaving", "contract" }
  BY <1>1 DEF Calls
<1> QED
  BY <1>2 DEF FilledTo

LEMMA StoredStep ==
    ASSUME Inv, NEW c \in Callers, NEW source \in Filled \cup Weaves \cup { Fallback, None },
           FillWith(c, source), call[c].pc \in Waiting \cup { "stage" }, call[c].at \in Stages,
           NEW d \in Callers
    PROVE  Abstractly(d)
<1> DEFINE r == call[c]
           s == Stored(r, source)
<1>1. r \in Calls /\ r.at \in Nat /\ Size \in Nat /\ r.at <= Size /\ program[c] \in Programs
      /\ r.sources \in Sources /\ r.at >= 1
  BY Known, AttemptsAssumption DEF Stages, Calls, Waiting
<1>2. program[c] # None
  BY <1>1, ProgramsAssumption
<1>3. [r.sources EXCEPT ![r.at] = source] \in Sources
  BY <1>1 DEF Sources
<1>4. NoRepair \in Repairs /\ r.at + 1 \in 1 .. Size + 1
  BY <1>1 DEF NoRepair, Repairs, Places
<1>5. s \in Calls /\ s.pc = "stage" /\ s.at = r.at + 1
  BY <1>1, <1>3, <1>4 DEF Stored, Calls, Places
<1>6. FilledTo(s) = FilledTo(r) + 1 /\ FilledTo(r) < Size
  BY <1>1, <1>5 DEF FilledTo, Waiting
<1>7. Sets(c, s)
  BY DEF FillWith, Stored
<1> HIDE DEF s
<1> QED
  BY <1>2, <1>5, <1>6, <1>7, SetsStep DEF Steps

LEMMA ContractingStep ==
    ASSUME Inv, NEW c \in Callers, Contracting(c), NEW d \in Callers
    PROVE  Abstractly(d)
<1> DEFINE r == call[c]
           p == program[c]
<1>1. r \in Calls /\ r.woven \in Woven /\ r.reasons \in SUBSET Stages
  BY Known DEF Calls
<1>2. ASSUME NEW w \in Weaves \cup { Fallback }, NEW reasons \in SUBSET Stages, Weave(c, w, reasons)
      PROVE  Abstractly(d)
  <2> DEFINE s == [r EXCEPT !.woven = [@ EXCEPT ![r.at] = w], !.reasons = @ \cup reasons]
  <2>1. [r.woven EXCEPT ![r.at] = w] \in Woven
    BY <1>1 DEF Woven
  <2>2. s \in Calls
    BY <1>1, <2>1 DEF Calls
  <2>3. Sets(c, ToContract(s, p, r.at + 1))
    BY <1>2 DEF Weave
  <2> HIDE DEF s
  <2> QED
    BY <2>2, <2>3, ToContractStep, SetsStep DEF Steps
<1>3. CASE FindContract(c)
  <2>1. PICK f \in ContractFiles(c) : f.weave # Torn /\ Weave(c, f.weave, {})
    BY <1>3 DEF FindContract
  <2>2. f.weave \in Weaves
    BY <2>1 DEF ContractFiles, Inv, DiskOK, ContractFile
  <2> QED
    BY <1>2, <2>1, <2>2
<1>4. CASE DeriveContract(c) \/ FallBackToContract(c)
  <2>1. r.pc \in Early /\ Weave(c, Fallback, { r.at })
    BY <1>4 DEF DeriveContract, FallBackToContract, Missing, At, Early
  <2>2. { r.at } \in SUBSET Stages
    BY <2>1, Known DEF CallOK, Placed
  <2> QED
    BY <1>2, <2>1, <2>2
<1>5. CASE \E w \in Weaves : ContractAnswered(c, w)
  BY <1>2, <1>5 DEF ContractAnswered
<1>6. CASE Unconfigured(c) \/ NoContract(c) \/ DerivedRefused(c)
  BY <1>6, FailsStep DEF Unconfigured, NoContract, DerivedRefused
<1>7. CASE AskForContract(c)
  <2> DEFINE s == [r EXCEPT !.pc = "asking", !.attempt = 1]
  <2>1. Sets(c, s) /\ s.pc = "asking"
    BY <1>1, <1>7 DEF AskForContract, Calls
  <2>2. FilledTo(s) = 0
    BY <2>1 DEF FilledTo
  <2> HIDE DEF s
  <2> QED
    BY <2>1, <2>2, SetsStep DEF Steps
<1>8. CASE AskContractAgain(c)
  <2> DEFINE s == [r EXCEPT !.attempt = @ + 1, !.repair = ThisAttempt(c)]
  <2>1. Sets(c, s) /\ s.pc = "asking"
    BY <1>1, <1>8 DEF AskContractAgain, At, Calls
  <2>2. FilledTo(s) = 0
    BY <2>1 DEF FilledTo
  <2> HIDE DEF s
  <2> QED
    BY <2>1, <2>2, SetsStep DEF Steps
<1>9. CASE WeaveSpec(c)
  <2> DEFINE s == [r EXCEPT !.pc = "stage"]
  <2>1. r.at = 1
    BY <1>9, Known DEF WeaveSpec, At, CallOK, Placed
  <2>2. s.pc = "stage" /\ s.at = 1
    BY <1>1, <2>1 DEF Calls
  <2>3. FilledTo(s) = 0
    BY <2>2 DEF FilledTo
  <2>4. Sets(c, s) \/ Fails(c)
    BY <1>9 DEF WeaveSpec
  <2> HIDE DEF s
  <2> QED
    BY <2>3, <2>4, FailsStep, SetsStep DEF Steps
<1> QED
  BY <1>3, <1>4, <1>5, <1>6, <1>7, <1>8, <1>9 DEF Contracting

\* What turns to another source for the same stage fills nothing.
LEMMA SamePlaceStep ==
    ASSUME Inv, NEW c \in Callers, NEW r, Sets(c, r), NEW d \in Callers,
           r.at = call[c].at, r.pc \in Waiting, call[c].pc \in Waiting \cup { "stage" }
    PROVE  Abstractly(d)
<1>1. FilledTo(r) = FilledTo(call[c])
  BY DEF FilledTo, Waiting
<1> QED
  BY <1>1, SetsStep DEF Steps

LEMMA FindingStep ==
    ASSUME Inv, NEW c \in Callers, Finding(c), NEW d \in Callers
    PROVE  Abstractly(d)
<1> DEFINE r == call[c]
<1>1. r \in Calls /\ r.found \in Filled \cup { None } /\ r.at \in 1 .. Size + 1
      /\ CallOK(r, program[c], env.require)
  BY Known DEF Calls
<1>2. CASE CannotRead(c) \/ RecheckFails(c) \/ ReplayRefused(c)
  BY <1>2, FailsStep DEF CannotRead, RecheckFails, ReplayRefused
<1>3. CASE Replay(c)
  <2>1. PICK h \in Hits(c) : FillWith(c, [body |-> h.f.body, origin |-> h.origin])
    BY <1>3 DEF Replay
  <2> DEFINE source == [body |-> h.f.body, origin |-> h.origin]
  <2>2. source \in Filled
    BY <1>3, HitFits DEF Replay
  <2>3. r.pc = "stage" /\ r.at \in Stages
    BY <1>1, <1>3, AttemptsAssumption DEF Replay, Looks, At, Stages
  <2> HIDE DEF source
  <2>4. FillWith(c, source)
    BY <2>1 DEF source
  <2> QED
    BY <2>2, <2>3, <2>4, StoredStep
<1>4. CASE Recheck(c)
  <2>1. PICK h \in Hits(c) :
            Sets(c, [r EXCEPT !.pc = "rechecking", !.found = [body |-> h.f.body, origin |-> h.origin]])
    BY <1>4 DEF Recheck
  <2> DEFINE s == [r EXCEPT !.pc = "rechecking", !.found = [body |-> h.f.body, origin |-> h.origin]]
  <2>2. s.at = r.at /\ s.pc \in Waiting /\ r.pc = "stage"
    BY <1>1, <1>4 DEF Calls, Waiting, Recheck, Looks, At
  <2> HIDE DEF s
  <2>3. Sets(c, s)
    BY <2>1 DEF s
  <2> QED
    BY <2>2, <2>3, SamePlaceStep
<1>5. CASE RecheckPasses(c)
  <2>1. r.pc = "rechecking" /\ FillWith(c, r.found) /\ r.at \in Stages
    BY <1>1, <1>5 DEF RecheckPasses, At, CallOK, Placed, Waiting
  <2> QED
    BY <1>1, <2>1, StoredStep DEF Waiting
<1> QED
  BY <1>2, <1>3, <1>4, <1>5 DEF Finding

LEMMA GeneratingStep ==
    ASSUME Inv, NEW c \in Callers, Generating(c), NEW d \in Callers
    PROVE  Abstractly(d)
<1> DEFINE r == call[c]
<1>1. r \in Calls /\ CallOK(r, program[c], env.require)
  BY Known
<1>2. CASE Generate(c) \/ Render(c)
  <2>1. PICK pc \in { "generating", "rendering" } : Sets(c, [r EXCEPT !.pc = pc, !.attempt = 1])
    BY <1>2 DEF Generate, Render
  <2> DEFINE s == [r EXCEPT !.pc = pc, !.attempt = 1]
  <2>2. s.at = r.at /\ s.pc \in Waiting /\ r.pc = "stage"
    BY <1>1, <1>2 DEF Calls, Waiting, Generate, Render, Looks, At
  <2> HIDE DEF s
  <2>3. Sets(c, s)
    BY <2>1 DEF s
  <2> QED
    BY <2>2, <2>3, SamePlaceStep
<1>3. CASE BodyPasses(c)
  <2>1. r.pc \in Waiting /\ r.at \in Stages /\ r.woven \in Woven /\ program[c] \in Programs
    BY <1>1, <1>3, Known DEF BodyPasses, Judging, Waiting, CallOK, Placed, Calls
  <2> DEFINE body == Verified(c)
             source == [body |-> body, origin |-> "accepted"]
  <2>2. Kind(c) \in Kinds /\ Contract(c) \in Contracts /\ program[c].service \in Services
    BY <2>1, ProgramParts DEF Kind, Contract
  <2>3. body \in Body
    BY <2>1, <2>2 DEF Verified, Body, At
  <2> HIDE DEF body
  <2>4. source \in Filled /\ FillWith(c, source)
    BY <1>3, <2>3 DEF Filled, Origins, BodyPasses, body
  <2> HIDE DEF source
  <2> QED
    BY <2>1, <2>4, StoredStep
<1>4. CASE BodyRefused(c) \/ Exhausted(c)
  BY <1>4, FailsStep DEF BodyRefused, Exhausted
<1>5. CASE GenerateAgain(c) \/ EscalateAgain(c)
  <2> DEFINE s == [r EXCEPT !.attempt = @ + 1, !.repair = ThisAttempt(c)]
  <2>1. Sets(c, s) /\ s.at = r.at /\ s.pc = r.pc /\ r.pc \in Waiting
    BY <1>1, <1>5 DEF Calls, Waiting, GenerateAgain, EscalateAgain, At
  <2> HIDE DEF s
  <2> QED
    BY <2>1, SamePlaceStep
<1>6. CASE Escalate(c)
  <2> DEFINE s == [r EXCEPT !.pc = "escalating", !.attempt = 1, !.repair = ThisAttempt(c)]
  <2>1. Sets(c, s) /\ s.at = r.at /\ s.pc \in Waiting /\ r.pc \in Waiting
    BY <1>1, <1>6 DEF Calls, Waiting, Escalate, At
  <2> HIDE DEF s
  <2> QED
    BY <2>1, SamePlaceStep
<1>7. CASE FallBack(c)
  <2> DEFINE s == [r EXCEPT !.pc = "falling"]
  <2>1. Sets(c, s) /\ s.at = r.at /\ s.pc \in Waiting /\ r.pc \in Waiting
    BY <1>1, <1>7 DEF Calls, Waiting, FallBack, At
  <2> HIDE DEF s
  <2> QED
    BY <2>1, SamePlaceStep
<1> QED
  BY <1>2, <1>3, <1>4, <1>5, <1>6, <1>7 DEF Generating

LEMMA RecordStep ==
    ASSUME Inv, NEW c \in Callers, Record(c), NEW d \in Callers
    PROVE  Abstractly(d)
<1>1. call[c] \in Calls /\ call[c].pc = "stage" /\ call[c].at \in Stages /\ call[c].woven \in Woven
  BY Known, AttemptsAssumption DEF Record, At, Stages, Calls
<1>2. call[c].woven[call[c].at] \in Weaves \cup { Fallback, None }
  BY <1>1 DEF Woven
<1> QED
  BY <1>1, <1>2, StoredStep DEF Record

LEMMA PublishStep ==
    ASSUME Inv, NEW c \in Callers, Publish(c), NEW d \in Callers
    PROVE  Abstractly(d)
<1>1. /\ result' = [result EXCEPT ![c] = Result(c)] /\ call' = [call EXCEPT ![c] = Idle]
      /\ UNCHANGED program /\ call[c].pc = "stage" /\ call[c].at = Size + 1
      /\ program[c] # None /\ Size \in Nat
  BY Known, ProgramsAssumption, AttemptsAssumption DEF Publish, At
<1>2. CASE d # c
  <2>1. call'[d] = call[d] /\ result'[d] = result[d]
    BY <1>1, <1>2 DEF Inv, Typed
  <2> QED
    BY <1>1, <2>1 DEF Abstractly, Filling!vars, Published
<1>3. CASE d = c
  <2>1. call'[c].pc = "idle" /\ Published(c)' = program[c]
    BY <1>1, PublishOK DEF Inv, Typed, Published, Idle
  <2> QED
    BY <1>1, <1>3, <2>1 DEF Abstractly, Filling!Next, Filling!Publish
<1> QED
  BY <1>2, <1>3

\* What a session asks for, or forgets, withdraws what it had.
LEMMA SpecifyStep ==
    ASSUME Inv, NEW c \in Callers, NEW p \in Wishes[c], Specify(c, p), NEW d \in Callers
    PROVE  Abstractly(d)
<1>1. /\ program' = [program EXCEPT ![c] = p] /\ result' = [result EXCEPT ![c] = None]
      /\ call' = [call EXCEPT ![c] = Idle]
  BY DEF Specify
<1>2. CASE d # c
  <2>1. call'[d] = call[d] /\ result'[d] = result[d] /\ program'[d] = program[d]
    BY <1>1, <1>2 DEF Inv, Typed
  <2> QED
    BY <2>1 DEF Abstractly, Filling!vars, Published
<1>3. CASE d = c
  <2>1. call'[c].pc = "idle" /\ result'[c] = None
    BY <1>1 DEF Inv, Typed, Idle
  <2> QED
    BY <1>3, <2>1 DEF Abstractly, Filling!Next, Filling!Want, Published
<1> QED
  BY <1>2, <1>3

LEMMA ForgetStep ==
    ASSUME ForgetAll, NEW d \in Callers
    PROVE  Abstractly(d)
<1>1. call'[d].pc = "idle" /\ result'[d] = None
  BY DEF ForgetAll, Idle
<1> QED
  BY <1>1 DEF Abstractly, Filling!Next, Filling!Want, Published

LEMMA EveryStep ==
    ASSUME Inv, [Next]_vars, NEW d \in Callers
    PROVE  Abstractly(d)
<1>1. ASSUME NEW c \in Callers, Goes(c) PROVE Abstractly(d)
  BY <1>1, ContractingStep, FindingStep, GeneratingStep, RecordStep, PublishStep DEF Goes, Moves
<1>2. ASSUME NEW c \in Callers, NEW p \in Wishes[c], Specify(c, p) PROVE Abstractly(d)
  BY <1>2, SpecifyStep
<1>3. ASSUME NEW c \in Callers, Start(c) PROVE Abstractly(d)
  <2>1. Sets(c, ToContract(Idle, program[c], 1))
    BY <1>3 DEF Start
  <2>2. FilledTo(ToContract(Idle, program[c], 1)) = 0
    BY IdleOK, ToContractStep
  <2> QED
    BY <2>1, <2>2, SetsStep DEF Steps
<1>4. CASE Crash \/ \E c \in Callers : CrashInBody(c) \/ CrashInContract(c)
  BY <1>4, ForgetStep DEF Crash, CrashInBody, CrashInContract
<1>5. CASE UNCHANGED vars
  BY <1>5 DEF vars, Abstractly, Filling!vars, Published
<1> QED
  BY <1>1, <1>2, <1>3, <1>4, <1>5 DEF Next

\* Whatever the other sessions do, a call of synthesizeDomainLogic fills the stages of
\* its program in order and hands over all of them or nothing.
THEOREM CallsAreAllOrNothing == Spec => ImplementsAllOrNothing
<1>1. Init => \A c \in Callers : Filling(c)!Init
  BY DEF Init, Filling!Init, Published, Idle
<1>2. Inv /\ [Next]_vars => [\A c \in Callers : [Filling(c)!Next]_(Filling(c)!vars)]_vars
  BY EveryStep DEF Abstractly
<1> QED
  BY <1>1, <1>2, InvAlways, PTL DEF Spec, ImplementsAllOrNothing
=============================================================================
