-------------------------- MODULE RunStagesProofs --------------------------
(***************************************************************************)
(* Proofs about RunStages, for any stages, texts and actors.               *)
(***************************************************************************)
EXTENDS RunStages, TLAPS

Kinds == {"idle", "prompt", "save", "run", "approve", "validate", "finalize"}

Operations == [kind : Kinds, stage : Stages, at : Ats, text : Hash, basis : Record,
               over : BOOLEAN]

\* What the parts of an operation are made of.
OpType == op \in [Actors -> Operations]

FileType ==
    /\ prompt \in [Stages -> Record]
    /\ response \in Embedding /\ approved \in Embedding
    /\ finalJson \in Hash /\ finalMd \in Hash

EventType ==
    /\ recorded \in [Stages -> Record] /\ bound \in [Stages -> Record]
    /\ reported \in Embedding /\ finalized \in Hash

HistoryType ==
    /\ answers \in [Stages -> Record] /\ built \in [Stages -> Record]
    /\ orderly \in BOOLEAN

BoundType == holder \in Commands \cup {None} /\ meddling \in Nat /\ breaks \in Nat

LEMMA TypeParts ==
    /\ TypeOK <=> OpType /\ FileType /\ EventType /\ HistoryType /\ BoundType
    /\ TypeOK' <=> OpType' /\ FileType' /\ EventType' /\ HistoryType' /\ BoundType'
BY DEF TypeOK, OpType, Operations, Kinds, FileType, EventType, HistoryType, BoundType

LEMMA Values ==
    /\ None \in Hash /\ None \in Record /\ Texts \subseteq Hash
    /\ Draft \in Stages /\ Late \in Stages /\ Repair \in Stages
    /\ Idle \in Operations
    /\ Requests \subseteq Actors /\ Commands \subseteq Actors /\ Workers \subseteq Actors
    /\ Derived \subseteq Stages
BY StagesAssumption DEF Hash, Record, Embedding, Idle, Operations, Kinds, Ats, Actors, Derived

LEMMA SourcedType ==
    ASSUME NEW s \in Stages, approved \in Embedding
    PROVE  Sourced(s) \in Embedding /\ Sourced(s) \in Record
BY DEF Sourced, Embedding, Record, Hash

\* The three ways an operation moves.
LEMMA GoKeeps ==
    ASSUME OpType, BoundType, NEW a \in Actors, NEW at \in Ats, NEW text \in Hash,
           NEW basis \in Record, Go(a, at, text, basis)
    PROVE  OpType' /\ BoundType'
BY DEF OpType, BoundType, Operations, Go

LEMMA FinishKeeps ==
    ASSUME OpType, BoundType, NEW a \in Actors, Finish(a)
    PROVE  OpType' /\ BoundType'
BY Values DEF OpType, BoundType, Finish

LEMMA BeginKeeps ==
    ASSUME TypeOK, NEW a \in Actors, NEW kind \in Kinds, NEW s \in Stages,
           NEW at \in Ats, NEW basis \in Record, NEW over \in BOOLEAN,
           meddling' \in Nat,
           Begin(a, kind, s, at, basis, over), holder' \in Commands \cup {None}
    PROVE  OpType' /\ FileType' /\ EventType' /\ BoundType'
           /\ answers' \in [Stages -> Record] /\ built' \in [Stages -> Record]
<1>1. OpType'
  <2>1. [kind |-> kind, stage |-> s, at |-> at, text |-> None, basis |-> basis,
         over |-> over] \in Operations
    BY Values DEF Operations
  <2> QED
    BY <2>1, TypeParts DEF OpType, Begin
<1>2. BoundType'
  BY TypeParts DEF BoundType, Begin
<1> QED
  BY <1>1, <1>2, TypeParts DEF FileType, EventType, HistoryType, Begin, files, events

LEMMA GuardType ==
    ASSUME NEW a, BoundType, Guard(a)
    PROVE  holder' \in Commands \cup {None}
BY DEF Guard, BoundType

LEMMA AskedTypes ==
    ASSUME TypeOK, NEW a \in Requests \cup Commands, Asked(a)
    PROVE  TypeOK'
<1> USE DEF Kinds, Ats
<1>0. a \in Actors /\ BoundType /\ FileType /\ HistoryType
  BY TypeParts DEF Actors
<1>1. ASSUME NEW s \in Derived, Advance(a, s)
      PROVE  TypeOK'
  <2>1. OpType' /\ FileType' /\ EventType' /\ BoundType'
        /\ answers' \in [Stages -> Record] /\ built' \in [Stages -> Record]
    <3>1. (prompt[s] # None) \in BOOLEAN
      OBVIOUS
    <3>2. meddling' \in Nat
      BY <1>0, <1>1 DEF Advance, Charge, BoundType
    <3> QED
      BY <1>0, <1>1, <3>1, <3>2, GuardType, BeginKeeps, Values DEF Advance
  <2>2. orderly' \in BOOLEAN
    BY <1>1 DEF Advance
  <2> QED
    BY <2>1, <2>2, TypeParts DEF HistoryType
<1>2. ASSUME NEW s \in Stages, Save(a, s)
      PROVE  TypeOK'
  <2>1. OpType' /\ FileType' /\ EventType' /\ BoundType'
        /\ answers' \in [Stages -> Record] /\ built' \in [Stages -> Record]
    <3>1. (response[s] # None) \in BOOLEAN /\ prompt[s] \in Record
      BY <1>0 DEF FileType
    <3>2. meddling' \in Nat
      BY <1>0, <1>2 DEF Save, Charge, BoundType
    <3> QED
      BY <1>0, <1>2, <3>1, <3>2, GuardType, BeginKeeps, Values DEF Save
  <2>2. orderly' \in BOOLEAN
    BY <1>2 DEF Save
  <2> QED
    BY <2>1, <2>2, TypeParts DEF HistoryType
<1>3. ASSUME NEW s \in Stages, Approve(a, s)
      PROVE  TypeOK'
  <2>1. OpType' /\ FileType' /\ EventType' /\ BoundType'
        /\ answers' \in [Stages -> Record] /\ built' \in [Stages -> Record]
    <3>1. (approved[s] # None) \in BOOLEAN
      OBVIOUS
    <3>2. meddling' \in Nat
      BY <1>0, <1>3 DEF Approve, Charge, BoundType
    <3> QED
      BY <1>0, <1>3, <3>1, <3>2, GuardType, BeginKeeps, Values DEF Approve
  <2>2. orderly' \in BOOLEAN
    BY <1>3 DEF Approve
  <2> QED
    BY <2>1, <2>2, TypeParts DEF HistoryType
<1>4. ASSUME NEW s \in Stages, Validate(a, s)
      PROVE  TypeOK'
  <2>1. OpType' /\ FileType' /\ EventType' /\ BoundType'
        /\ answers' \in [Stages -> Record] /\ built' \in [Stages -> Record]
    <3>1. holder' \in Commands \cup {None}
      BY <1>0, <1>4 DEF Validate, BoundType
    <3>2. meddling' \in Nat
      BY <1>0, <1>4 DEF Validate, Charge, BoundType
    <3> QED
      BY <1>0, <1>4, <3>1, <3>2, BeginKeeps, Values DEF Validate
  <2>2. orderly' \in BOOLEAN
    BY <1>4 DEF Validate
  <2> QED
    BY <2>1, <2>2, TypeParts DEF HistoryType
<1>5. ASSUME Finalize(a)
      PROVE  TypeOK'
  <2>1. OpType' /\ FileType' /\ EventType' /\ BoundType'
        /\ answers' \in [Stages -> Record] /\ built' \in [Stages -> Record]
    <3>1. (finalJson # None \/ finalMd # None) \in BOOLEAN
      OBVIOUS
    <3>2. meddling' \in Nat
      BY <1>0, <1>5 DEF Finalize, Charge, BoundType
    <3> QED
      BY <1>0, <1>5, <3>1, <3>2, GuardType, BeginKeeps, Values DEF Finalize
  <2>2. orderly' \in BOOLEAN
    BY <1>5 DEF Finalize
  <2> QED
    BY <2>1, <2>2, TypeParts DEF HistoryType
<1> QED
  BY <1>1, <1>2, <1>3, <1>4, <1>5 DEF Asked

LEMMA AdmitTypes ==
    ASSUME TypeOK, NEW w \in Workers, NEW s \in Stages, Admit(w, s)
    PROVE  TypeOK'
<1>1. OpType' /\ FileType' /\ EventType' /\ BoundType'
      /\ answers' \in [Stages -> Record] /\ built' \in [Stages -> Record]
  <2>1. (response[s] # None) \in BOOLEAN /\ holder' \in Commands \cup {None}
    BY TypeParts DEF Admit, BoundType
  <2>2. meddling' \in Nat
    BY TypeParts DEF Admit, Charge, BoundType
  <2> QED
    BY <2>1, <2>2, BeginKeeps, Values DEF Admit, Kinds, Ats
<1>2. orderly' \in BOOLEAN
  BY DEF Admit
<1> QED
  BY <1>1, <1>2, TypeParts DEF HistoryType

\* An operation's stage, text and basis are what they should be.
LEMMA OpFields ==
    ASSUME OpType, NEW a \in Actors
    PROVE  /\ op[a].kind \in Kinds /\ op[a].stage \in Stages /\ op[a].at \in Ats
           /\ op[a].text \in Hash /\ op[a].basis \in Record /\ op[a].over \in BOOLEAN
           /\ op[a] \in Operations
BY DEF OpType, Operations

LEMMA PromptTypes ==
    ASSUME TypeOK, NEW a \in Actors, Compile(a) \/ WritePrompt(a) \/ RecordPrompt(a)
    PROVE  TypeOK'
<1> DEFINE s == op[a].stage
<1>0. OpType /\ BoundType /\ FileType /\ EventType /\ HistoryType
  BY TypeParts
<1>1. /\ s \in Stages /\ op[a].basis \in Record /\ Sourced(s) \in Record
      /\ {"compiled", "written"} \subseteq Ats
  BY <1>0, OpFields, SourcedType DEF FileType, Ats
<1>2. HistoryType'
  BY <1>0 DEF HistoryType, Compile, WritePrompt, RecordPrompt, Go, Finish
<1>3. CASE Compile(a)
  <2>1. OpType' /\ BoundType'
    BY <1>0, <1>1, <1>3, GoKeeps, FinishKeeps, Values DEF Compile
  <2>2. FileType' /\ EventType'
    BY <1>0, <1>3 DEF Compile, FileType, EventType, files, events
  <2> QED
    BY <1>2, <2>1, <2>2, TypeParts
<1>4. CASE WritePrompt(a)
  <2>1. OpType' /\ BoundType'
    BY <1>0, <1>1, <1>4, GoKeeps, FinishKeeps, Values DEF WritePrompt
  <2>2. prompt' \in [Stages -> Record]
    BY <1>0, <1>1, <1>4 DEF WritePrompt, FileType
  <2>3. FileType' /\ EventType'
    BY <1>0, <1>4, <2>2 DEF WritePrompt, FileType, EventType, events
  <2> QED
    BY <1>2, <2>1, <2>3, TypeParts
<1>5. CASE RecordPrompt(a)
  <2>1. OpType' /\ BoundType'
    BY <1>0, <1>5, FinishKeeps DEF RecordPrompt
  <2>2. recorded' \in [Stages -> Record]
    BY <1>0, <1>1, <1>5 DEF RecordPrompt, EventType
  <2>3. FileType' /\ EventType'
    BY <1>0, <1>5, <2>2 DEF RecordPrompt, FileType, EventType, files
  <2> QED
    BY <1>2, <2>1, <2>3, TypeParts
<1> QED
  BY <1>3, <1>4, <1>5

LEMMA ResponseTypes ==
    ASSUME TypeOK, NEW a \in Actors, Open(a) \/ SaveResponse(a)
    PROVE  TypeOK'
<1> DEFINE s == op[a].stage
<1>0. OpType /\ BoundType /\ FileType /\ EventType /\ HistoryType
  BY TypeParts
<1>1. /\ s \in Stages /\ op[a].basis \in Record /\ prompt[s] \in Record
      /\ "asked" \in Ats
  BY <1>0, OpFields DEF FileType, Ats
<1>2. EventType'
  BY <1>0 DEF EventType, Open, SaveResponse, events
<1>3. CASE Open(a)
  <2>1. OpType' /\ BoundType'
    BY <1>0, <1>1, <1>3, GoKeeps, FinishKeeps, Values DEF Open
  <2>2. FileType' /\ HistoryType'
    BY <1>0, <1>3 DEF Open, FileType, HistoryType, files, Go, Finish
  <2> QED
    BY <1>2, <2>1, <2>2, TypeParts
<1>4. CASE SaveResponse(a)
  <2>1. OpType' /\ BoundType'
    BY <1>0, <1>4, FinishKeeps DEF SaveResponse
  <2>2. response' \in Embedding /\ answers' \in [Stages -> Record]
    <3>1. CASE UNCHANGED <<response, answers>>
      BY <1>0, <3>1 DEF FileType, HistoryType
    <3>2. ASSUME NEW t \in Texts, response' = [response EXCEPT ![s] = t],
                 answers' = [answers EXCEPT ![s] = op[a].basis]
          PROVE  response' \in Embedding /\ answers' \in [Stages -> Record]
      BY <1>0, <1>1, <3>2, Values DEF FileType, HistoryType, Embedding
    <3> QED
      BY <1>4, <3>1, <3>2 DEF SaveResponse
  <2>3. FileType' /\ HistoryType'
    BY <1>0, <1>4, <2>2 DEF SaveResponse, FileType, HistoryType, Finish
  <2> QED
    BY <1>2, <2>1, <2>3, TypeParts
<1> QED
  BY <1>3, <1>4

LEMMA ApprovalTypes ==
    ASSUME TypeOK, NEW a \in Actors,
           ReadResponse(a) \/ WriteApproved(a) \/ BindSources(a) \/ RecordApproval(a)
    PROVE  TypeOK'
<1> DEFINE s == op[a].stage
<1>0. OpType /\ BoundType /\ FileType /\ EventType /\ HistoryType
  BY TypeParts
<1>1. /\ s \in Stages /\ op[a].basis \in Record /\ op[a].text \in Hash
      /\ response[s] \in Hash /\ answers[s] \in Record /\ recorded[s] \in Record
      /\ Sourced(s) \in Embedding
      /\ {"read", "written", "bound"} \subseteq Ats
  BY <1>0, OpFields, SourcedType DEF FileType, EventType, HistoryType, Embedding, Ats
<1>3. CASE ReadResponse(a)
  <2>1. OpType' /\ BoundType'
    BY <1>0, <1>1, <1>3, GoKeeps DEF ReadResponse
  <2>2. FileType' /\ EventType' /\ HistoryType'
    BY <1>0, <1>3 DEF ReadResponse, FileType, EventType, HistoryType, files, events, Go
  <2> QED
    BY <2>1, <2>2, TypeParts
<1>4. CASE WriteApproved(a)
  <2>1. OpType' /\ BoundType'
    BY <1>0, <1>1, <1>4, GoKeeps, FinishKeeps, Values DEF WriteApproved
  <2>2. approved' \in Embedding /\ built' \in [Stages -> Record]
    BY <1>0, <1>1, <1>4 DEF WriteApproved, FileType, HistoryType, Embedding
  <2>3. FileType' /\ EventType' /\ HistoryType'
    BY <1>0, <1>4, <2>2 DEF WriteApproved, FileType, EventType, HistoryType, events, Go, Finish
  <2> QED
    BY <2>1, <2>3, TypeParts
<1>5. CASE BindSources(a)
  <2>1. OpType' /\ BoundType'
    BY <1>0, <1>1, <1>5, GoKeeps, Values DEF BindSources
  <2>2. FileType' /\ EventType' /\ HistoryType'
    BY <1>0, <1>5 DEF BindSources, FileType, EventType, HistoryType, files, events, Go
  <2> QED
    BY <2>1, <2>2, TypeParts
<1>6. CASE RecordApproval(a)
  <2>1. OpType' /\ BoundType'
    BY <1>0, <1>6, FinishKeeps DEF RecordApproval
  <2>2. bound' \in [Stages -> Record]
    <3> DEFINE said == op[a].basis
               binding == [u \in Stages |-> IF said # None /\ said[u] # None
                                            THEN said[u] ELSE Sourced(s)[u]]
    <3>1. said # None => said \in Embedding
      BY <1>1 DEF Record
    <3>2. binding \in Embedding
      BY <1>1, <3>1 DEF Embedding
    <3>3. binding \in Record
      BY <3>2 DEF Record
    <3> HIDE DEF binding
    <3>4. bound' = [bound EXCEPT ![s] = binding] \/ bound' = bound
      BY <1>6 DEF RecordApproval, binding
    <3> QED
      BY <1>0, <1>1, <3>3, <3>4 DEF EventType
  <2>3. FileType' /\ EventType' /\ HistoryType'
    BY <1>0, <1>6, <2>2 DEF RecordApproval, FileType, EventType, HistoryType, files, Finish
  <2> QED
    BY <2>1, <2>3, TypeParts
<1> QED
  BY <1>3, <1>4, <1>5, <1>6

LEMMA ReportTypes ==
    ASSUME TypeOK, NEW a \in Actors, Judge(a) \/ Report(a)
    PROVE  TypeOK'
<1> DEFINE s == op[a].stage
<1>0. OpType /\ BoundType /\ FileType /\ EventType /\ HistoryType
  BY TypeParts
<1>1. /\ s \in Stages /\ approved[s] \in Hash /\ op[a].text \in Hash
      /\ "judged" \in Ats
  BY <1>0, OpFields DEF FileType, Embedding, Ats
<1>2. FileType' /\ HistoryType'
  BY <1>0 DEF FileType, HistoryType, Judge, Report, files, Go, Finish
<1>3. OpType' /\ BoundType'
  BY <1>0, <1>1, GoKeeps, FinishKeeps, Values DEF Judge, Report
<1>4. EventType'
  <2>1. CASE Judge(a)
    BY <1>0, <2>1 DEF Judge, EventType, events
  <2>2. CASE Report(a)
    <3>1. reported' \in Embedding
      BY <1>0, <1>1, <2>2 DEF Report, EventType, Embedding
    <3> QED
      BY <1>0, <2>2, <3>1 DEF Report, EventType
  <2> QED
    BY <2>1, <2>2
<1> QED
  BY <1>2, <1>3, <1>4, TypeParts

LEMMA FinalTypes ==
    ASSUME TypeOK, NEW a \in Actors,
           Assemble(a) \/ WriteJson(a) \/ WriteMarkdown(a) \/ RecordFinal(a)
    PROVE  TypeOK'
<1>0. OpType /\ BoundType /\ FileType /\ EventType /\ HistoryType
  BY TypeParts
<1>1. /\ approved[Repair] \in Hash /\ op[a].text \in Hash
      /\ {"assembled", "json", "markdown"} \subseteq Ats
  BY <1>0, OpFields, Values DEF FileType, Embedding, Ats
<1>2. HistoryType'
  BY <1>0 DEF HistoryType, Assemble, WriteJson, WriteMarkdown, RecordFinal, Go, Finish
<1>3. OpType' /\ BoundType'
  <2>1. CASE Assemble(a)
    BY <1>0, <1>1, <2>1, GoKeeps, FinishKeeps, Values DEF Assemble
  <2>2. CASE WriteJson(a)
    BY <1>0, <1>1, <2>2, GoKeeps, Values DEF WriteJson
  <2>3. CASE WriteMarkdown(a)
    BY <1>0, <1>1, <2>3, GoKeeps, Values DEF WriteMarkdown
  <2>4. CASE RecordFinal(a)
    BY <1>0, <2>4, FinishKeeps DEF RecordFinal
  <2> QED
    BY <2>1, <2>2, <2>3, <2>4
<1>4. FileType' /\ EventType'
  BY <1>0, <1>1 DEF FileType, EventType, Assemble, WriteJson, WriteMarkdown, RecordFinal,
                    files, events
<1> QED
  BY <1>2, <1>3, <1>4, TypeParts

LEMMA BreakTypes ==
    ASSUME TypeOK, NEW a \in Actors, Break(a)
    PROVE  TypeOK'
<1>0. OpType /\ BoundType /\ FileType /\ EventType /\ HistoryType
  BY TypeParts
<1>1. op[a].stage \in Stages
  BY <1>0, OpFields
<1>2. OpType' /\ BoundType'
  BY <1>0, Values DEF Break, OpType, BoundType
<1>3. reported' \in Embedding
  BY <1>0, <1>1, Values DEF Break, EventType, Embedding
<1>4. FileType' /\ EventType'
  BY <1>0, <1>3 DEF Break, FileType, EventType, files
<1>5. HistoryType'
  <2>1. orderly' \in BOOLEAN
    BY DEF Break
  <2> QED
    BY <1>0, <2>1 DEF Break, HistoryType
<1> QED
  BY <1>2, <1>4, <1>5, TypeParts

LEMMA InitTypes == Init => TypeOK
<1> SUFFICES ASSUME Init PROVE TypeOK
  OBVIOUS
<1>1. PICK done \in Beginnings, redraft \in Texts :
        LET t == CHOOSE t \in Texts : TRUE
            text == [s \in Stages |-> IF s \in done THEN t ELSE None]
            basis == [s \in Stages |->
                        IF s \in done /\ s \in Derived
                        THEN [u \in Stages |-> IF u \in Sources[s] THEN text[u] ELSE None]
                        ELSE None]
        IN  /\ response = [text EXCEPT ![Draft] = IF Draft \in done THEN redraft ELSE None]
            /\ approved = text
            /\ prompt = basis /\ recorded = basis /\ bound = basis
            /\ answers = basis /\ built = basis
            /\ reported = [s \in Stages |-> IF s = Draft THEN text[s] ELSE None]
            /\ finalJson = None /\ finalMd = None /\ finalized = None
            /\ holder = None
            /\ op = [a \in Actors |-> Idle]
            /\ orderly = TRUE
            /\ meddling = MaxMeddling /\ breaks = MaxBreaks
  BY DEF Init
<1> DEFINE t == CHOOSE x \in Texts : TRUE
           text == [s \in Stages |-> IF s \in done THEN t ELSE None]
           basis == [s \in Stages |->
                        IF s \in done /\ s \in Derived
                        THEN [u \in Stages |-> IF u \in Sources[s] THEN text[u] ELSE None]
                        ELSE None]
<1>2. t \in Hash
  <2>1. t \in Texts
    BY <1>1
  <2> QED
    BY <2>1, Values
<1> HIDE DEF t
<1>3. text \in Embedding
  BY <1>2, Values DEF Embedding
<1> HIDE DEF text
<1>4. basis \in [Stages -> Record]
  BY <1>3, Values DEF Embedding, Record
<1> HIDE DEF basis
<1>5. /\ response = [text EXCEPT ![Draft] = IF Draft \in done THEN redraft ELSE None]
      /\ approved = text
      /\ prompt = basis /\ recorded = basis /\ bound = basis
      /\ answers = basis /\ built = basis
      /\ reported = [s \in Stages |-> IF s = Draft THEN text[s] ELSE None]
  BY <1>1 DEF basis, text, t
<1>6. finalJson = None /\ finalMd = None /\ finalized = None /\ holder = None
      /\ op = [a \in Actors |-> Idle] /\ meddling = MaxMeddling /\ breaks = MaxBreaks
  BY <1>1
<1>7. orderly \in BOOLEAN
  BY <1>1
<1>8. OpType /\ BoundType
  BY <1>6, Values, StagesAssumption DEF OpType, BoundType
<1>9. FileType
  <2>1. response \in Embedding
    BY <1>3, <1>5, Values DEF Embedding
  <2> QED
    BY <1>3, <1>4, <1>5, <1>6, <2>1, Values DEF FileType
<1>10. EventType
  BY <1>3, <1>4, <1>5, <1>6, Values DEF EventType, Embedding
<1>11. HistoryType
  BY <1>4, <1>5, <1>7 DEF HistoryType
<1> QED
  BY <1>8, <1>9, <1>10, <1>11, TypeParts

LEMMA StepTypes ==
    ASSUME TypeOK, NEW a \in Actors, Step(a)
    PROVE  TypeOK'
BY PromptTypes, ResponseTypes, ApprovalTypes, ReportTypes, FinalTypes DEF Step

\* Every variable of the run has its type, for any stages, texts and actors.
THEOREM TypeCorrect == Spec => []TypeOK
<1>1. Init => TypeOK
  BY InitTypes
<1>2. TypeOK /\ [Next]_vars => TypeOK'
  <2> SUFFICES ASSUME TypeOK, [Next]_vars PROVE TypeOK'
    OBVIOUS
  <2>1. ASSUME NEW a \in Requests \cup Commands, Asked(a)
        PROVE  TypeOK'
    BY <2>1, AskedTypes
  <2>2. ASSUME NEW w \in Workers, NEW s \in Stages, Admit(w, s)
        PROVE  TypeOK'
    BY <2>2, AdmitTypes
  <2>3. ASSUME NEW a \in Actors, Step(a) \/ Break(a)
        PROVE  TypeOK'
    BY <2>3, StepTypes, BreakTypes
  <2>4. CASE UNCHANGED vars
    BY <2>4 DEF vars, files, events, history, TypeOK
  <2> QED
    BY <2>1, <2>2, <2>3, <2>4 DEF Next
<1> QED
  BY <1>1, <1>2, PTL DEF Spec

-----------------------------------------------------------------------------
(* Who moves.                                                              *)

\* A step or a break is one of an operation under way, and of no other.
LEMMA StepFrame ==
    ASSUME TypeOK, NEW a \in Actors, Step(a) \/ Break(a)
    PROVE  /\ op[a] # Idle
           /\ \A b \in Actors : b # a => op'[b] = op[b]
           /\ holder' \in {holder, None}
           /\ orderly' => orderly
<1>0. op \in [Actors -> Operations]
  BY TypeParts DEF OpType
<1>1. CASE Compile(a) \/ WritePrompt(a) \/ RecordPrompt(a) \/ Open(a) \/ SaveResponse(a)
  BY <1>0, <1>1 DEF Compile, WritePrompt, RecordPrompt, Open, SaveResponse, At, Idle, Go, Finish
<1>2. CASE ReadResponse(a) \/ WriteApproved(a) \/ BindSources(a) \/ RecordApproval(a)
  BY <1>0, <1>2 DEF ReadResponse, WriteApproved, BindSources, RecordApproval, At, Idle, Go, Finish
<1>3. CASE Judge(a) \/ Report(a) \/ Assemble(a) \/ WriteJson(a) \/ WriteMarkdown(a) \/ RecordFinal(a)
  BY <1>0, <1>3 DEF Judge, Report, Assemble, WriteJson, WriteMarkdown, RecordFinal, At, Idle, Go, Finish
<1>4. CASE Break(a)
  BY <1>0, <1>4 DEF Break
<1> QED
  BY <1>1, <1>2, <1>3, <1>4 DEF Step

\* A request or command begins when it has nothing under way.
LEMMA AskedFrame ==
    ASSUME TypeOK, NEW a \in Requests \cup Commands, Asked(a)
    PROVE  /\ op[a] = Idle
           /\ \A b \in Actors : b # a => op'[b] = op[b]
           /\ holder' = holder \/ (a \in Commands /\ ~Busy)
           /\ orderly' => orderly /\ Alone
           /\ UNCHANGED <<files, events, answers, built>>
<1>0. op \in [Actors -> Operations]
  BY TypeParts DEF OpType
<1>1. /\ op[a] = Idle
      /\ \A b \in Actors : b # a => op'[b] = op[b]
      /\ UNCHANGED <<files, events, answers, built>>
  BY <1>0 DEF Asked, Advance, Save, Approve, Validate, Finalize, Begin
<1>2. holder' = holder \/ (a \in Commands /\ ~Busy)
  <2>1. holder' = holder \/ Guard(a)
    BY Zenon DEF Asked, Advance, Save, Approve, Validate, Finalize
  <2>2. Guard(a) => holder' = holder \/ (a \in Commands /\ ~Busy)
    BY Zenon DEF Guard
  <2> QED
    BY <2>1, <2>2, Zenon
<1>3. orderly' => orderly /\ Alone
  <2>1. (orderly' = (orderly /\ Alone)) \/ \E s \in Stages : Approve(a, s)
    BY DEF Asked, Advance, Save, Validate, Finalize
  <2>2. ASSUME NEW s \in Stages, Approve(a, s)
        PROVE  orderly' => orderly /\ Alone
    BY <2>2, Zenon DEF Approve
  <2> QED
    BY <2>1, <2>2, Zenon
<1> QED
  BY <1>1, <1>2, <1>3, Zenon

\* What CommandsSpared needs besides the types: nothing, since a command takes
\* the lock before it looks, and a job is admitted under the lock.
THEOREM NoJobUnderACommand == Spec => []CommandsSpared
<1>1. Init => CommandsSpared
  BY DEF Init, CommandsSpared
<1>2. TypeOK /\ CommandsSpared /\ [Next]_vars => CommandsSpared'
  <2> SUFFICES ASSUME TypeOK, CommandsSpared, [Next]_vars PROVE CommandsSpared'
    OBVIOUS
  <2>0. Workers \subseteq Actors /\ Workers \cap (Requests \cup Commands) = {}
    BY StagesAssumption, Values
  <2>1. ASSUME NEW a \in Requests \cup Commands, Asked(a)
        PROVE  CommandsSpared'
    <3>1. \A w \in Workers : op'[w] = op[w]
      BY <2>0, <2>1, AskedFrame
    <3> QED
      BY <2>1, <3>1, AskedFrame DEF CommandsSpared, Busy
  <2>2. ASSUME NEW w \in Workers, NEW s \in Stages, Admit(w, s)
        PROVE  CommandsSpared'
    BY <2>2 DEF Admit, CommandsSpared
  <2>3. ASSUME NEW a \in Actors, Step(a) \/ Break(a)
        PROVE  CommandsSpared'
    <3> SUFFICES ASSUME holder' # None PROVE ~Busy'
      BY DEF CommandsSpared
    <3>1. holder # None
      BY <2>3, StepFrame
    <3>2. \A w \in Workers : op[w] = Idle
      BY <3>1 DEF CommandsSpared, Busy
    <3>3. \A w \in Workers : op'[w] = op[w]
      BY <2>0, <2>3, <3>2, StepFrame
    <3> QED
      BY <3>2, <3>3 DEF Busy
  <2>4. CASE UNCHANGED vars
    BY <2>4 DEF vars, CommandsSpared, Busy
  <2> QED
    BY <2>1, <2>2, <2>3, <2>4 DEF Next
<1> QED
  BY <1>1, <1>2, TypeCorrect, PTL DEF Spec

-----------------------------------------------------------------------------
(* The orderly run. One operation is under way, so what is said of all of  *)
(* them is said of one actor a, and of the rest that it is idle.           *)

Solo(a) == \A b \in Actors : b # a => op[b] = Idle

Holds(a, kind, s, ats) == op[a].kind = kind /\ op[a].stage = s /\ op[a].at \in ats

Events ==
    \A s \in Stages : Known(recorded[s]) /\ Known(bound[s])

Prompts(a) ==
    \A s \in Stages : Holds(a, "prompt", s, {"written"}) \/ recorded[s] = prompt[s]

Approvals(a) ==
    \A s \in Derived : Holds(a, "approve", s, {"written", "bound"}) \/ Keeps(bound[s], built[s])

Finals(a) ==
    \/ finalized = None
    \/ Holds(a, "finalize", Repair, {"json", "markdown"})
    \/ finalJson = finalized /\ finalMd = finalized

Orderly(a) == InHand(a) /\ Events /\ Prompts(a) /\ Approvals(a) /\ Finals(a)

LEMMA IdleInHand == ASSUME NEW a, op[a] = Idle PROVE InHand(a)
BY DEF InHand, Idle

LEMMA IdleInHandNext == ASSUME NEW a, op'[a] = Idle PROVE InHand(a)'
BY DEF InHand, Idle

LEMMA EngagedAlone ==
    ASSUME NEW a \in Actors, Solo(a), NEW kind \in Kinds \ {"idle"}, NEW s \in Stages, NEW ats
    PROVE  Engaged(kind, s, ats) <=> Holds(a, kind, s, ats)
BY DEF Solo, Engaged, Holds, Idle

LEMMA EngagedAloneNext ==
    ASSUME NEW a \in Actors, Solo(a)', NEW kind \in Kinds \ {"idle"}, NEW s \in Stages, NEW ats
    PROVE  Engaged(kind, s, ats)' <=> Holds(a, kind, s, ats)'
BY DEF Solo, Engaged, Holds, Idle

LEMMA InvOfOrderly ==
    ASSUME NEW a \in Actors, Solo(a), Orderly(a)
    PROVE  StagesInv
<1>1. \A b, c \in Actors : op[b] # Idle /\ op[c] # Idle => b = c
  BY DEF Solo
<1>2. \A b \in Actors : InHand(b)
  BY IdleInHand DEF Solo, Orderly
<1>3. \A s \in Stages : Engaged("prompt", s, {"written"}) \/ recorded[s] = prompt[s]
  BY EngagedAlone DEF Orderly, Prompts, Kinds
<1>4. \A s \in Derived : Approving(s) \/ Keeps(bound[s], built[s])
  BY EngagedAlone, Values DEF Orderly, Approvals, Kinds, Approving
<1>5. \/ finalized = None
      \/ Engaged("finalize", Repair, {"json", "markdown"})
      \/ finalJson = finalized /\ finalMd = finalized
  BY EngagedAlone, Values DEF Orderly, Finals, Kinds
<1> QED
  BY <1>1, <1>2, <1>3, <1>4, <1>5 DEF StagesInv, Orderly, Events

LEMMA InvOfOrderlyNext ==
    ASSUME NEW a \in Actors, Solo(a)', Orderly(a)'
    PROVE  StagesInv'
<1>1. \A b, c \in Actors : op'[b] # Idle /\ op'[c] # Idle => b = c
  BY DEF Solo
<1>2. \A b \in Actors : InHand(b)'
  BY IdleInHandNext DEF Solo, Orderly
<1>3. \A s \in Stages : Engaged("prompt", s, {"written"})' \/ recorded'[s] = prompt'[s]
  BY EngagedAloneNext DEF Orderly, Prompts, Kinds
<1>4. \A s \in Derived : Approving(s)' \/ Keeps(bound[s], built[s])'
  BY EngagedAloneNext, Values DEF Orderly, Approvals, Kinds, Approving
<1>5. \/ finalized' = None
      \/ Engaged("finalize", Repair, {"json", "markdown"})'
      \/ finalJson' = finalized' /\ finalMd' = finalized'
  BY EngagedAloneNext, Values DEF Orderly, Finals, Kinds
<1> QED
  BY <1>1, <1>2, <1>3, <1>4, <1>5 DEF StagesInv, Orderly, Events

LEMMA OrderlyOfInv ==
    ASSUME orderly, StagesInv, NEW a \in Actors, Solo(a)
    PROVE  Orderly(a)
<1>1. InHand(a) /\ Events
  BY DEF StagesInv, Events
<1>2. Prompts(a)
  <2> SUFFICES ASSUME NEW s \in Stages
               PROVE  Holds(a, "prompt", s, {"written"}) \/ recorded[s] = prompt[s]
    BY DEF Prompts
  <2>1. Engaged("prompt", s, {"written"}) \/ recorded[s] = prompt[s]
    BY DEF StagesInv
  <2> QED
    BY <2>1, EngagedAlone DEF Kinds
<1>3. Approvals(a)
  <2> SUFFICES ASSUME NEW s \in Derived
               PROVE  Holds(a, "approve", s, {"written", "bound"}) \/ Keeps(bound[s], built[s])
    BY DEF Approvals
  <2>1. Approving(s) \/ Keeps(bound[s], built[s])
    BY DEF StagesInv
  <2> QED
    BY <2>1, EngagedAlone, Values DEF Kinds, Approving
<1>4. Finals(a)
  <2>1. \/ finalized = None
        \/ Engaged("finalize", Repair, {"json", "markdown"})
        \/ finalJson = finalized /\ finalMd = finalized
    BY DEF StagesInv
  <2> QED
    BY <2>1, EngagedAlone, Values DEF Kinds, Finals
<1> QED
  BY <1>1, <1>2, <1>3, <1>4 DEF Orderly

\* What an event says stays known while no approved file is removed.
LEMMA EventsStay ==
    ASSUME \A u \in Stages : approved[u] # None => approved'[u] # None,
           Events, UNCHANGED <<recorded, bound>>
    PROVE  Events'
BY DEF Events, Known

\* A step that leaves the prompts, events and approvals alone.
LEMMA Elsewhere ==
    ASSUME NEW a \in Actors, Orderly(a),
           UNCHANGED <<prompt, approved, events, built, finalJson, finalMd>>,
           ~(op[a].kind = "prompt" /\ op[a].at = "written"),
           op[a].kind = "approve" /\ op[a].at \in {"written", "bound"} =>
               /\ op'[a].kind = "approve" /\ op'[a].at \in {"written", "bound"}
               /\ op'[a].stage = op[a].stage,
           ~(op[a].kind = "finalize" /\ op[a].at \in {"json", "markdown"})
    PROVE  Events' /\ Prompts(a)' /\ Approvals(a)' /\ Finals(a)'
<1>1. Events'
  BY EventsStay DEF Orderly, events
<1>2. Prompts(a)'
  BY DEF Orderly, Prompts, Holds, events
<1>3. Approvals(a)'
  BY DEF Orderly, Approvals, Holds, Keeps, events
<1>4. Finals(a)'
  BY DEF Orderly, Finals, Holds, events
<1> QED
  BY <1>1, <1>2, <1>3, <1>4

LEMMA PromptOrderly ==
    ASSUME TypeOK, NEW a \in Actors, Orderly(a),
           Compile(a) \/ WritePrompt(a) \/ RecordPrompt(a)
    PROVE  Orderly(a)'
<1> DEFINE s == op[a].stage
<1>0. /\ op \in [Actors -> Operations] /\ s \in Stages
      /\ prompt \in [Stages -> Record] /\ recorded \in [Stages -> Record]
      /\ Derived \subseteq Stages
  BY TypeParts, OpFields, Values DEF OpType, FileType, EventType
<1>1. CASE Compile(a)
  <2>1. Events' /\ Prompts(a)' /\ Approvals(a)' /\ Finals(a)'
    BY <1>1, Elsewhere DEF Compile, At, files
  <2>2. InHand(a)'
    <3>1. CASE Go(a, "compiled", None, Sourced(s))
      BY <1>0, <1>1, <3>1 DEF Compile, At, Go, InHand, Sourced, files
    <3>2. CASE Finish(a)
      BY <1>0, <3>2, IdleInHandNext DEF Finish
    <3> QED
      BY <1>1, <3>1, <3>2 DEF Compile
  <2> QED
    BY <2>1, <2>2 DEF Orderly
<1>2. CASE WritePrompt(a)
  <2>0. op[a].basis = Sourced(s) /\ At(a, {"prompt"}, "compiled")
    BY <1>2 DEF WritePrompt, At, Orderly, InHand
  <2>1. CASE UNCHANGED prompt /\ Finish(a)
    <3>1. Events' /\ Prompts(a)' /\ Approvals(a)' /\ Finals(a)'
      BY <1>2, <2>0, <2>1, Elsewhere DEF WritePrompt, At
    <3> QED
      BY <1>0, <2>1, <3>1, IdleInHandNext DEF Finish, Orderly
  <2>2. CASE prompt' = [prompt EXCEPT ![s] = op[a].basis] /\ Go(a, "written", None, None)
    <3>0. /\ op'[a].kind = "prompt" /\ op'[a].at = "written" /\ op'[a].stage = s
          /\ UNCHANGED <<approved, recorded, bound, built, finalized, finalJson, finalMd>>
      BY <1>0, <1>2, <2>0, <2>2 DEF At, Go, WritePrompt, events
    <3>1. Events'
      BY <3>0, EventsStay DEF Orderly
    <3>2. Prompts(a)'
      BY <1>0, <2>0, <2>2, <3>0 DEF Orderly, Prompts, Holds, At
    <3>3. Approvals(a)' /\ Finals(a)'
      BY <2>0, <3>0 DEF Orderly, Approvals, Finals, Holds, Keeps, At
    <3>4. InHand(a)'
      BY <1>0, <2>0, <2>2, <3>0 DEF InHand, Sourced
    <3> QED
      BY <3>1, <3>2, <3>3, <3>4 DEF Orderly
  <2> QED
    BY <1>2, <2>1, <2>2 DEF WritePrompt
<1>3. CASE RecordPrompt(a)
  <2>0. prompt[s] = Sourced(s) /\ At(a, {"prompt"}, "written")
    BY <1>3 DEF RecordPrompt, At, Orderly, InHand
  <2>1. /\ recorded' = [recorded EXCEPT ![s] = Sourced(s)] /\ op'[a] = Idle
        /\ UNCHANGED <<prompt, approved, bound, built, finalized, finalJson, finalMd>>
    BY <1>0, <1>3 DEF RecordPrompt, Finish, files
  <2>2. Events'
    <3>1. Known(Sourced(s))
      BY DEF Known, Sourced
    <3>2. \A u \in Stages : Known(recorded'[u]) /\ Known(bound[u])
      BY <1>0, <2>1, <3>1 DEF Orderly, Events
    <3> QED
      BY <2>1, <3>2 DEF Events, Known
  <2>3. Prompts(a)'
    <3> SUFFICES ASSUME NEW u \in Stages PROVE recorded'[u] = prompt'[u]
      BY DEF Prompts
    <3>1. CASE u = s
      BY <1>0, <2>0, <2>1, <3>1
    <3>2. CASE u # s
      BY <1>0, <2>1, <3>2 DEF Orderly, Prompts, Holds
    <3> QED
      BY <3>1, <3>2
  <2>4. Approvals(a)' /\ Finals(a)'
    BY <2>0, <2>1 DEF Orderly, Approvals, Finals, Holds, Keeps, At
  <2> QED
    BY <2>1, <2>2, <2>3, <2>4, IdleInHandNext DEF Orderly
<1> QED
  BY <1>1, <1>2, <1>3

LEMMA ResponseOrderly ==
    ASSUME TypeOK, NEW a \in Actors, Orderly(a),
           Open(a) \/ SaveResponse(a) \/ Judge(a)
    PROVE  Orderly(a)'
<1>0. op \in [Actors -> Operations]
  BY TypeParts DEF OpType
<1>1. UNCHANGED <<prompt, approved, events, built, finalJson, finalMd>>
  BY DEF Open, SaveResponse, Judge, files
<1>2. Events' /\ Prompts(a)' /\ Approvals(a)' /\ Finals(a)'
  BY <1>1, Elsewhere DEF Open, SaveResponse, Judge, At
<1>3. InHand(a)'
  <2>1. CASE op'[a].kind \in {"run", "validate"}
    BY <2>1 DEF InHand
  <2>2. CASE op'[a] = Idle
    BY <2>2, IdleInHandNext
  <2>3. op'[a].kind \in {"run", "validate"} \/ op'[a] = Idle
    <3>1. ASSUME NEW at, NEW text, NEW basis, Go(a, at, text, basis)
          PROVE  op'[a].kind = op[a].kind
      BY <1>0, <3>1 DEF Go
    <3>2. Finish(a) => op'[a] = Idle
      BY <1>0 DEF Finish
    <3>3. CASE Open(a)
      BY <3>1, <3>2, <3>3 DEF Open, At
    <3>4. CASE SaveResponse(a)
      BY <3>2, <3>4 DEF SaveResponse
    <3>5. CASE Judge(a)
      BY <3>1, <3>2, <3>5 DEF Judge, At
    <3> QED
      BY <3>3, <3>4, <3>5
  <2> QED
    BY <2>1, <2>2, <2>3
<1> QED
  BY <1>2, <1>3 DEF Orderly

LEMMA ReportOrderly ==
    ASSUME TypeOK, NEW a \in Actors, Orderly(a), Report(a)
    PROVE  Orderly(a)'
<1>0. /\ op'[a] = Idle /\ op[a].kind = "validate"
      /\ UNCHANGED <<prompt, approved, recorded, bound, finalized, built, finalJson, finalMd>>
  BY TypeParts DEF OpType, Report, At, Finish, files
<1>1. Events'
  BY <1>0, EventsStay DEF Orderly
<1>2. Prompts(a)' /\ Approvals(a)' /\ Finals(a)'
  BY <1>0 DEF Orderly, Prompts, Approvals, Finals, Holds, Keeps
<1> QED
  BY <1>0, <1>1, <1>2, IdleInHandNext DEF Orderly

LEMMA ApprovalOrderly ==
    ASSUME TypeOK, NEW a \in Actors, Orderly(a),
           ReadResponse(a) \/ WriteApproved(a) \/ BindSources(a) \/ RecordApproval(a)
    PROVE  Orderly(a)'
<1> DEFINE s == op[a].stage
<1>0. /\ op \in [Actors -> Operations] /\ s \in Stages
      /\ approved \in [Stages -> Hash] /\ bound \in [Stages -> Record]
      /\ built \in [Stages -> Record] /\ Derived \subseteq Stages
      /\ op[a].basis \in Record
  BY TypeParts, OpFields, Values DEF OpType, FileType, EventType, HistoryType, Embedding
<1>1. CASE ReadResponse(a)
  <2>0. /\ response[s] # None /\ answers[s] = prompt[s] /\ At(a, {"approve"}, "asked")
    BY <1>1 DEF ReadResponse, At, Orderly, InHand
  <2>1. Events' /\ Prompts(a)' /\ Approvals(a)' /\ Finals(a)'
    BY <1>1, <2>0, Elsewhere DEF ReadResponse, At, files
  <2>2. /\ op'[a].kind = "approve" /\ op'[a].at = "read" /\ op'[a].stage = s
        /\ op'[a].text = response[s] /\ op'[a].basis = answers[s] /\ UNCHANGED prompt
    BY <1>0, <1>1 DEF ReadResponse, Go, At, files
  <2> QED
    BY <2>0, <2>1, <2>2 DEF Orderly, InHand
<1>2. CASE WriteApproved(a)
  <2>0. op[a].text # None /\ op[a].basis = prompt[s] /\ At(a, {"approve"}, "read")
    BY <1>2 DEF WriteApproved, At, Orderly, InHand
  <2>1. CASE UNCHANGED <<approved, built>> /\ Finish(a)
    <3>1. Events' /\ Prompts(a)' /\ Approvals(a)' /\ Finals(a)'
      BY <1>2, <2>0, <2>1, Elsewhere DEF WriteApproved, At
    <3> QED
      BY <1>0, <2>1, <3>1, IdleInHandNext DEF Finish, Orderly
  <2>2. CASE /\ approved' = [approved EXCEPT ![s] = op[a].text]
             /\ built' = [built EXCEPT ![s] = op[a].basis]
             /\ Go(a, IF s \in Derived THEN "written" ELSE "bound", None, None)
    <3>0. /\ op'[a].kind = "approve" /\ op'[a].stage = s
          /\ op'[a].at = IF s \in Derived THEN "written" ELSE "bound"
          /\ UNCHANGED <<prompt, recorded, bound, finalized, finalJson, finalMd>>
      BY <1>0, <1>2, <2>0, <2>2 DEF At, Go, WriteApproved, events
    <3>1. Events'
      BY <1>0, <2>0, <2>2, <3>0, EventsStay DEF Orderly
    <3>2. Prompts(a)' /\ Finals(a)'
      BY <2>0, <3>0 DEF Orderly, Prompts, Finals, Holds, At
    <3>3. Approvals(a)'
      BY <1>0, <2>0, <2>2, <3>0 DEF Orderly, Approvals, Holds, Keeps, At
    <3>4. InHand(a)'
      BY <1>0, <2>0, <2>2, <3>0 DEF InHand
    <3> QED
      BY <3>1, <3>2, <3>3, <3>4 DEF Orderly
  <2> QED
    BY <1>2, <2>1, <2>2 DEF WriteApproved
<1>3. CASE BindSources(a)
  <2>0. /\ At(a, {"approve"}, "written") /\ approved[s] # None
        /\ s \in Derived => built[s] = prompt[s]
    BY <1>3 DEF BindSources, At, Orderly, InHand
  <2>1. /\ op'[a].kind = "approve" /\ op'[a].at = "bound" /\ op'[a].stage = s
        /\ op'[a].basis = recorded[s]
        /\ UNCHANGED <<prompt, approved, events, built, finalJson, finalMd>>
    BY <1>0, <1>3 DEF BindSources, Go, At, files
  <2>2. Events' /\ Prompts(a)' /\ Approvals(a)' /\ Finals(a)'
    BY <2>0, <2>1, Elsewhere DEF At
  <2> QED
    BY <2>0, <2>1, <2>2 DEF Orderly, InHand, events
<1>4. CASE RecordApproval(a)
  <2> DEFINE said == op[a].basis
             binding == [u \in Stages |-> IF said # None /\ said[u] # None
                                          THEN said[u] ELSE Sourced(s)[u]]
  <2>0. /\ At(a, {"approve"}, "bound") /\ approved[s] # None
        /\ s \in Derived => built[s] = prompt[s] /\ said = recorded[s]
    BY <1>4 DEF RecordApproval, At, Orderly, InHand
  <2>1. /\ op'[a] = Idle
        /\ UNCHANGED <<prompt, approved, recorded, built, finalized, finalJson, finalMd>>
        /\ bound' = IF s \in Derived THEN [bound EXCEPT ![s] = binding] ELSE bound
    BY <1>0, <1>4 DEF RecordApproval, Finish, files
  <2>2. s \in Derived => built[s] = said
    BY <1>0, <2>0 DEF Orderly, Prompts, Holds, At
  <2>3. s \in Derived => Known(binding) /\ Keeps(binding, built[s])
    <3> SUFFICES ASSUME s \in Derived PROVE Known(binding) /\ Keeps(binding, built[s])
      OBVIOUS
    <3>1. said = None \/ (said # None /\ \A u \in Stages : said[u] # None => approved[u] # None)
      BY <1>0, <2>0 DEF Orderly, Events, Known
    <3>2. \A u \in Stages : binding[u] # None => approved[u] # None
      BY <3>1 DEF Sourced
    <3>3. binding # None
      <4>1. binding \in Embedding
        BY <1>0, SourcedType, TypeParts DEF FileType, Embedding, Record
      <4> QED
        BY <4>1, StagesAssumption DEF Embedding, Hash
    <3> HIDE DEF binding
    <3>4. said # None => \A u \in Stages : said[u] # None => binding[u] = said[u]
      BY DEF binding
    <3> QED
      BY <2>2, <3>2, <3>3, <3>4 DEF Known, Keeps
  <2> HIDE DEF binding
  <2>4. Events'
    <3>1. \A u \in Stages : Known(recorded[u]) /\ Known(bound'[u])
      BY <1>0, <2>1, <2>3 DEF Orderly, Events
    <3> QED
      BY <2>1, <3>1 DEF Events, Known
  <2>5. Approvals(a)'
    <3> SUFFICES ASSUME NEW u \in Derived PROVE Keeps(bound'[u], built'[u])
      BY DEF Approvals, Keeps
    <3>1. CASE u = s
      BY <1>0, <2>1, <2>3, <3>1
    <3>2. CASE u # s
      BY <1>0, <2>1, <3>2 DEF Orderly, Approvals, Holds
    <3> QED
      BY <3>1, <3>2
  <2>6. Prompts(a)' /\ Finals(a)'
    BY <2>0, <2>1 DEF Orderly, Prompts, Finals, Holds, At
  <2> QED
    BY <2>1, <2>4, <2>5, <2>6, IdleInHandNext DEF Orderly
<1> QED
  BY <1>1, <1>2, <1>3, <1>4

LEMMA FinalOrderly ==
    ASSUME TypeOK, NEW a \in Actors, Orderly(a),
           Assemble(a) \/ WriteJson(a) \/ WriteMarkdown(a) \/ RecordFinal(a)
    PROVE  Orderly(a)'
<1>0. op \in [Actors -> Operations]
  BY TypeParts DEF OpType
<1>1. CASE Assemble(a)
  <2>0. At(a, {"finalize"}, "asked") /\ op[a].stage = Repair
    BY <1>1 DEF Assemble, At, Orderly, InHand
  <2>1. Events' /\ Prompts(a)' /\ Approvals(a)' /\ Finals(a)'
    BY <1>1, <2>0, Elsewhere DEF Assemble, At, files
  <2>2. CASE Finish(a)
    BY <1>0, <2>1, <2>2, IdleInHandNext DEF Finish, Orderly
  <2>3. CASE Go(a, "assembled", approved[Repair], None)
    <3>1. /\ op'[a].kind = "finalize" /\ op'[a].at = "assembled" /\ op'[a].stage = Repair
          /\ op'[a].text = approved[Repair] /\ UNCHANGED approved
      BY <1>0, <1>1, <2>0, <2>3 DEF Go, At, Assemble, files
    <3> QED
      BY <2>1, <3>1 DEF Orderly, InHand
  <2> QED
    BY <1>1, <2>2, <2>3 DEF Assemble
<1>2. CASE WriteJson(a)
  <2>0. At(a, {"finalize"}, "assembled") /\ op[a].stage = Repair /\ op[a].text = approved[Repair]
    BY <1>2 DEF WriteJson, At, Orderly, InHand
  <2>1. /\ op'[a].kind = "finalize" /\ op'[a].at = "json" /\ op'[a].stage = Repair
        /\ op'[a].text = approved[Repair] /\ finalJson' = approved[Repair]
        /\ UNCHANGED <<prompt, approved, recorded, bound, finalized, built>>
    BY <1>0, <1>2, <2>0 DEF WriteJson, Go, At, events
  <2>2. Events'
    BY <2>1, EventsStay DEF Orderly
  <2>3. Prompts(a)' /\ Approvals(a)' /\ Finals(a)'
    BY <2>0, <2>1 DEF Orderly, Prompts, Approvals, Finals, Holds, Keeps, At
  <2> QED
    BY <2>1, <2>2, <2>3 DEF Orderly, InHand
<1>3. CASE WriteMarkdown(a)
  <2>0. /\ At(a, {"finalize"}, "json") /\ op[a].stage = Repair
        /\ op[a].text = approved[Repair] /\ finalJson = approved[Repair]
    BY <1>3 DEF WriteMarkdown, At, Orderly, InHand
  <2>1. /\ op'[a].kind = "finalize" /\ op'[a].at = "markdown" /\ op'[a].stage = Repair
        /\ finalMd' = approved[Repair]
        /\ UNCHANGED <<prompt, approved, recorded, bound, finalized, built, finalJson>>
    BY <1>0, <1>3, <2>0 DEF WriteMarkdown, Go, At, events
  <2>2. Events'
    BY <2>1, EventsStay DEF Orderly
  <2>3. Prompts(a)' /\ Approvals(a)' /\ Finals(a)'
    BY <2>0, <2>1 DEF Orderly, Prompts, Approvals, Finals, Holds, Keeps, At
  <2> QED
    BY <2>0, <2>1, <2>2, <2>3 DEF Orderly, InHand
<1>4. CASE RecordFinal(a)
  <2>0. /\ At(a, {"finalize"}, "markdown")
        /\ finalJson = approved[Repair] /\ finalMd = approved[Repair]
    BY <1>4 DEF RecordFinal, At, Orderly, InHand
  <2>1. /\ op'[a] = Idle /\ finalized' = approved[Repair]
        /\ UNCHANGED <<prompt, approved, recorded, bound, built, finalJson, finalMd>>
    BY <1>0, <1>4 DEF RecordFinal, Finish, files
  <2>2. Events'
    BY <2>1, EventsStay DEF Orderly
  <2>3. Prompts(a)' /\ Approvals(a)' /\ Finals(a)'
    BY <2>0, <2>1 DEF Orderly, Prompts, Approvals, Finals, Holds, Keeps, At
  <2> QED
    BY <2>1, <2>2, <2>3, IdleInHandNext DEF Orderly
<1> QED
  BY <1>1, <1>2, <1>3, <1>4

\* What is cut off before it has written anything leaves nothing behind.
LEMMA BreakOrderly ==
    ASSUME TypeOK, NEW a \in Actors, Orderly(a), orderly', Break(a)
    PROVE  Orderly(a)'
<1>1. ~Torn(a)
  BY DEF Break
<1>2. /\ op'[a] = Idle
      /\ UNCHANGED <<prompt, approved, recorded, bound, finalized, built, finalJson, finalMd>>
  BY TypeParts DEF OpType, Break, files
<1>3. Events'
  BY <1>2, EventsStay DEF Orderly
<1>4. Prompts(a)' /\ Approvals(a)' /\ Finals(a)'
  BY <1>1, <1>2 DEF Orderly, Prompts, Approvals, Finals, Holds, Keeps, Torn
<1> QED
  BY <1>2, <1>3, <1>4, IdleInHandNext DEF Orderly

\* An operation that begins has found what it starts from.
LEMMA BeginningOrderly ==
    ASSUME TypeOK, NEW a \in Actors, Orderly(a), op[a] = Idle, orderly',
           \/ a \in Requests \cup Commands /\ Asked(a)
           \/ a \in Workers /\ \E s \in Stages : Admit(a, s)
    PROVE  Orderly(a)'
<1>0. op \in [Actors -> Operations]
  BY TypeParts DEF OpType
<1>1. UNCHANGED <<prompt, approved, events, response, answers, built, finalJson, finalMd>>
  BY DEF Asked, Advance, Save, Approve, Validate, Finalize, Admit, Begin, files
<1>2. Events' /\ Prompts(a)' /\ Approvals(a)' /\ Finals(a)'
  BY <1>1, Elsewhere DEF Idle
<1>3. InHand(a)'
  <2>1. ASSUME NEW s \in Stages, Approve(a, s)
        PROVE  InHand(a)'
    <3>1. response[s] # None /\ answers[s] = prompt[s]
      <4>1. orderly' = (orderly /\ Alone /\ answers[s] = prompt[s])
        BY <2>1 DEF Approve
      <4> QED
        BY <2>1, <4>1 DEF Approve
    <3>2. op'[a].kind = "approve" /\ op'[a].stage = s /\ op'[a].at = "asked"
      BY <1>0, <2>1 DEF Approve, Begin
    <3> QED
      BY <1>1, <3>1, <3>2 DEF InHand
  <2>2. ASSUME Finalize(a)
        PROVE  InHand(a)'
    <3>1. op'[a].kind = "finalize" /\ op'[a].stage = Repair /\ op'[a].at = "asked"
      BY <1>0, <2>2 DEF Finalize, Begin
    <3> QED
      BY <3>1 DEF InHand
  <2>3. ASSUME NEW s \in Stages, Advance(a, s) \/ Save(a, s) \/ Validate(a, s) \/ Admit(a, s)
        PROVE  InHand(a)'
    <3>1. op'[a].kind \in {"prompt", "save", "validate", "run"} /\ op'[a].at \in {"asked", "queued"}
      <4>1. Advance(a, s) => op'[a].kind = "prompt" /\ op'[a].at = "asked"
        BY <1>0 DEF Advance, Begin
      <4>2. Save(a, s) => op'[a].kind = "save" /\ op'[a].at = "asked"
        BY <1>0 DEF Save, Begin
      <4>3. Validate(a, s) => op'[a].kind = "validate" /\ op'[a].at = "asked"
        BY <1>0 DEF Validate, Begin
      <4>4. Admit(a, s) => op'[a].kind = "run" /\ op'[a].at = "queued"
        BY <1>0 DEF Admit, Begin
      <4> QED
        BY <2>3, <4>1, <4>2, <4>3, <4>4, Zenon
    <3> QED
      BY <3>1 DEF InHand
  <2> QED
    BY <2>1, <2>2, <2>3, Values DEF Asked
<1> QED
  BY <1>2, <1>3 DEF Orderly

LEMMA StepOrderly ==
    ASSUME TypeOK, NEW a \in Actors, Orderly(a), orderly', Step(a) \/ Break(a)
    PROVE  Orderly(a)'
BY PromptOrderly, ResponseOrderly, ReportOrderly, ApprovalOrderly, FinalOrderly, BreakOrderly
   DEF Step

LEMMA InitOrderly == Init => StagesInv
<1> SUFFICES ASSUME Init PROVE StagesInv
  OBVIOUS
<1>0. op = [b \in Actors |-> Idle] /\ finalized = None
  BY DEF Init
<1>1. /\ recorded = prompt /\ bound = built
      /\ \A s \in Stages : Known(recorded[s]) /\ Known(bound[s])
  <2>1. PICK done \in Beginnings :
          LET t == CHOOSE t \in Texts : TRUE
              text == [s \in Stages |-> IF s \in done THEN t ELSE None]
              basis == [s \in Stages |->
                          IF s \in done /\ s \in Derived
                          THEN [u \in Stages |-> IF u \in Sources[s] THEN text[u] ELSE None]
                          ELSE None]
          IN  /\ approved = text
              /\ prompt = basis /\ recorded = basis /\ bound = basis /\ built = basis
    BY DEF Init
  <2> DEFINE text == [s \in Stages |-> IF s \in done THEN CHOOSE t \in Texts : TRUE ELSE None]
             basis == [s \in Stages |->
                        IF s \in done /\ s \in Derived
                        THEN [u \in Stages |-> IF u \in Sources[s] THEN text[u] ELSE None]
                        ELSE None]
  <2>2. approved = text /\ prompt = basis /\ recorded = basis /\ bound = basis /\ built = basis
    BY <2>1
  <2> HIDE DEF text
  <2>3. \A s \in Stages : Known(basis[s])
    BY <2>2 DEF Known
  <2> HIDE DEF basis
  <2> QED
    BY <2>2, <2>3
<1>2. \A s \in Stages : Keeps(bound[s], built[s])
  BY <1>1 DEF Keeps
<1>3. \A b \in Actors : op[b] = Idle
  BY <1>0
<1>4. \A b \in Actors : InHand(b)
  BY <1>3, IdleInHand
<1> QED
  BY <1>0, <1>1, <1>2, <1>3, <1>4, Values DEF StagesInv

\* Among idle operations any one may be taken for the one under way.
LEMMA SoloOfOrderly ==
    ASSUME TypeOK, orderly, StagesInv, NEW a \in Actors, op[a] # Idle \/ Alone
    PROVE  Solo(a)
BY DEF StagesInv, Solo, Alone

LEMMA InvStep == TypeOK /\ StagesInv /\ [Next]_vars => StagesInv'
<1> SUFFICES ASSUME TypeOK, StagesInv, [Next]_vars, orderly' PROVE StagesInv'
  <2>1. ~orderly' => StagesInv'
    BY DEF StagesInv
  <2> QED
    BY <2>1
<1>1. ASSUME NEW a \in Actors, orderly, Solo(a), Solo(a)', Orderly(a) => Orderly(a)'
      PROVE  StagesInv'
  BY <1>1, OrderlyOfInv, InvOfOrderlyNext
<1>2. ASSUME NEW a \in Actors, Step(a) \/ Break(a)
      PROVE  StagesInv'
  <2>1. orderly /\ op[a] # Idle
    BY <1>2, StepFrame
  <2>2. Solo(a)
    BY <2>1, SoloOfOrderly
  <2>3. Solo(a)'
    BY <1>2, <2>2, StepFrame DEF Solo
  <2>4. Orderly(a) => Orderly(a)'
    BY <1>2, StepOrderly
  <2> QED
    BY <1>1, <2>1, <2>2, <2>3, <2>4
<1>3. ASSUME NEW a \in Requests \cup Commands, Asked(a)
      PROVE  StagesInv'
  <2>0. a \in Actors
    BY DEF Actors
  <2>1. orderly /\ Alone /\ op[a] = Idle
    BY <1>3, AskedFrame
  <2>2. Solo(a)
    BY <2>0, <2>1, SoloOfOrderly
  <2>3. Solo(a)'
    BY <1>3, <2>2, AskedFrame DEF Solo
  <2>4. Orderly(a) => Orderly(a)'
    BY <1>3, <2>0, <2>1, BeginningOrderly
  <2> QED
    BY <1>1, <2>0, <2>1, <2>2, <2>3, <2>4
<1>4. ASSUME NEW a \in Workers, NEW s \in Stages, Admit(a, s)
      PROVE  StagesInv'
  <2>0. a \in Actors
    BY DEF Actors
  <2>1. orderly /\ Alone /\ op[a] = Idle
    BY <1>4 DEF Admit, Begin
  <2>2. Solo(a)
    BY <2>0, <2>1, SoloOfOrderly
  <2>3. Solo(a)'
    <3>1. \A b \in Actors : b # a => op'[b] = op[b]
      BY <1>4, TypeParts DEF Admit, Begin, OpType
    <3> QED
      BY <2>2, <3>1 DEF Solo
  <2>4. Orderly(a) => Orderly(a)'
    BY <1>4, <2>0, <2>1, BeginningOrderly
  <2> QED
    BY <1>1, <2>0, <2>1, <2>2, <2>3, <2>4
<1>5. CASE UNCHANGED vars
  BY <1>5 DEF vars, files, events, history, StagesInv, InHand, Sourced, Known, Keeps,
              Engaged, Approving
<1> QED
  BY <1>2, <1>3, <1>4, <1>5 DEF Next

\* The inductive invariant of the orderly run: what events, approvals and
\* operations under way say of the files is so.
THEOREM StagesInvariance == Spec => []StagesInv
<1>1. Init => StagesInv
  BY InitOrderly
<1>2. TypeOK /\ StagesInv /\ [Next]_vars => StagesInv'
  BY InvStep
<1> QED
  BY <1>1, <1>2, TypeCorrect, PTL DEF Spec

LEMMA InvImpliesStale == ASSUME TypeOK, StagesInv PROVE StaleIsTrue
<1> SUFFICES ASSUME orderly, NEW s \in Derived, approved[s] # None, ~Approving(s)
             PROVE  /\ built[s] # None /\ StaleBy(s, built[s], approved) => Stale(s)
                    /\ Stale(s) => \E u \in Sources[s] :
                                       built[s] = None \/ built[s][u] # approved[u]
  BY DEF StaleIsTrue
<1>0. s \in Stages /\ Sources[s] \subseteq Stages
  BY Values, StagesAssumption
<1>1. Keeps(bound[s], built[s]) /\ Known(bound[s])
  BY <1>0 DEF StagesInv
<1>2. ASSUME built[s] # None, StaleBy(s, built[s], approved)
      PROVE  Stale(s)
  BY <1>0, <1>1, <1>2 DEF Keeps, StaleBy, Stale
<1>3. ASSUME Stale(s)
      PROVE  \E u \in Sources[s] : built[s] = None \/ built[s][u] # approved[u]
  <2>1. PICK u \in Sources[s] : bound[s] # None /\ bound[s][u] # None /\ bound[s][u] # approved[u]
    BY <1>3 DEF Stale, StaleBy
  <2>2. approved[u] # None
    BY <1>0, <1>1, <2>1 DEF Known
  <2> QED
    BY <1>0, <1>1, <2>1, <2>2 DEF Keeps
<1> QED
  BY <1>2, <1>3

\* A stage made from superseded sources reads as stale, whatever was approved
\* anew in whatever order.
THEOREM StaleIsTold == Spec => []StaleIsTrue
BY StagesInvariance, TypeCorrect, InvImpliesStale, PTL

\* A run that reads as finalized has the guide of the approved repair.
THEOREM FinalIsTrue == Spec => []FinalIsApproved
<1>1. StagesInv => FinalIsApproved
  <2> SUFFICES ASSUME StagesInv, orderly, Finalized, ~Engaged("finalize", Repair, Ats)
               PROVE  finalJson = approved[Repair] /\ finalMd = approved[Repair]
    BY DEF FinalIsApproved
  <2>1. ~Engaged("finalize", Repair, {"json", "markdown"})
    BY DEF Engaged, Ats
  <2> QED
    BY <2>1 DEF StagesInv, Finalized
<1> QED
  BY <1>1, StagesInvariance, PTL
=============================================================================
