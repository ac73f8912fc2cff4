---------------------------- MODULE ReleaseProofs ----------------------------
(***************************************************************************)
(* What reads as current is about the guide and the profile of today, the  *)
(* gate is honest, and waivers stand: proofs for any guides, profiles,     *)
(* findings, threads and commands.                                         *)
(*                                                                         *)
(* The invariant has three parts: the shape of the state, what is known    *)
(* of an operation under way (OpOK), and what is known of the files        *)
(* (Facts). An operation inside the section knows what it wrote, because   *)
(* nobody else writes there (Frame).                                       *)
(***************************************************************************)
EXTENDS Release, FiniteSetTheorems, TLAPS

Rec(o) == o = [kind |-> o.kind, at |-> o.at, guide |-> o.guide, profile |-> o.profile,
               finding |-> o.finding, made |-> o.made]

AuditRec ==
    audit = [prompt |-> audit.prompt, prompted |-> audit.prompted,
             response |-> audit.response, approved |-> audit.approved,
             projection |-> audit.projection, approval |-> audit.approval,
             later |-> audit.later]

\* Where an operation may be.
Places ==
    {<<"none", "idle">>, <<"validate", "profile">>, <<"validate", "section">>,
     <<"validate", "trace">>, <<"validate", "event">>, <<"waive", "section">>,
     <<"unwaive", "section">>, <<"finalize", "files">>, <<"finalize", "section">>,
     <<"export", "profile">>, <<"export", "section">>, <<"export", "html">>,
     <<"export", "sidecar">>, <<"prepare", "section">>, <<"prepare", "event">>,
     <<"approve", "profile">>, <<"approve", "section">>, <<"approve", "files">>,
     <<"approve", "projection">>, <<"approve", "event">>}

OpShape ==
    /\ op = [a \in Actors |-> op[a]]
    /\ \A a \in Actors : Rec(op[a]) /\ <<op[a].kind, op[a].at>> \in Places
    /\ \A a, b \in profiling \cap Threads : a = b

FileShape ==
    /\ approved \in Guides /\ profile \in Attached
    /\ AuditRec
    /\ report \in Reports \cup {None}
    /\ validated \in [Reports -> Attached \cup {"never"}]
    /\ waivers # None => /\ waivers.guide \in Guides
                         /\ waivers.found \in SUBSET Waivable /\ waivers.found # {}

Shape == OpShape /\ FileShape

\* The inputs of an audit are a guide, a profile and the trace of both.
Bound(inputs) ==
    /\ inputs = [guide |-> inputs.guide, profile |-> inputs.profile, trace |-> inputs.trace]
    /\ inputs.profile # None /\ inputs.trace = Trace(inputs.guide, inputs.profile)

Clean(made) == made.report.found \subseteq made.waived /\ made.html = made.report.guide

\* Inside the section an operation knows what it has written.
ValidateOK(a) ==
    LET o == op[a] IN
    o.kind = "validate" =>
        /\ o.at # "profile" => o.guide \in Guides /\ o.profile \in Attached
        /\ o.at \in {"trace", "event"} => section = a /\ report = Report(o.guide, o.profile)

WaiveOK(a) ==
    LET o == op[a] IN
    /\ o.kind \in {"waive", "unwaive"} => o.guide \in Guides /\ o.finding \in Waivable
    /\ o.kind = "waive" => <<o.guide, o.finding>> \in granted

ExportOK(a) ==
    LET o == op[a] IN
    o.kind = "export" =>
        /\ o.at # "profile" => a \in profiling
        /\ o.at \in {"html", "sidecar"} => section = a /\ Clean(o.made)

PrepareOK(a) ==
    LET o == op[a] IN
    o.kind = "prepare" =>
        /\ Bound(o.made)
        /\ o.at = "event" => section = a /\ audit.prompt = o.made /\ trace = o.made.trace

ApproveOK(a) ==
    LET o == op[a] IN
    o.kind = "approve" =>
        /\ o.at \in {"files", "projection", "event"} => section = a
        /\ o.at \in {"projection", "event"} => audit.approved = o.finding
        /\ o.at = "event" => audit.projection = <<o.finding, o.made.guide>>

OpOK(a) == ValidateOK(a) /\ WaiveOK(a) /\ ExportOK(a) /\ PrepareOK(a) /\ ApproveOK(a)

\* What the files and events say for ever.
ReportFact == \A r \in Reports : validated[r] # "never" => r.found = Found[r.guide][validated[r]]
PromptFact ==
    audit.prompted # None =>
        /\ Bound(audit.prompted.prompt)
        /\ audit.prompted.of.guide = audit.prompted.prompt.guide
        /\ audit.prompted.of.trace = audit.prompted.prompt.trace
ApprovalFact ==
    audit.approval # None =>
        audit.approval.projection = <<audit.approval.approved, audit.approval.of.guide>>
ExportFact == sidecar # None => Clean(sidecar)

Facts == ReportFact /\ PromptFact /\ ApprovalFact /\ ExportFact /\ WaiversAreGranted

IInv == Shape /\ Facts /\ \A a \in Actors : OpOK(a)
-----------------------------------------------------------------------------
(* A step of a leaves what is known of the operation of another one, when  *)
(* it writes inside the section only while nobody else is there.           *)
LEMMA Frame ==
    ASSUME IInv, NEW a \in Actors, NEW b \in Actors, b # a,
           op'[b] = op[b],
           section = b => section' = b,
           b \in profiling => b \in profiling',
           granted \subseteq granted',
           section # b \/ UNCHANGED <<report, trace, audit.prompt, audit.approved, audit.projection>>
    PROVE  OpOK(b)'
<1>1. OpOK(b)
  BY DEF IInv
<1>2. ValidateOK(b)' /\ WaiveOK(b)' /\ ExportOK(b)' /\ PrepareOK(b)'
  BY <1>1 DEF OpOK, ValidateOK, WaiveOK, ExportOK, PrepareOK, Bound, Clean, Trace, Report
<1>3. ApproveOK(b)'
  <2>1. CASE section = b
    BY <1>1, <2>1 DEF OpOK, ApproveOK
  <2>2. CASE section # b
    BY <1>1, <2>2 DEF OpOK, ApproveOK, IInv, Shape, OpShape, FileShape, Places
  <2> QED BY <2>1, <2>2
<1> QED
  BY <1>2, <1>3 DEF OpOK

LEMMA InitOK == Init => IInv
<1> SUFFICES ASSUME Init PROVE IInv
  OBVIOUS
<1>1. Shape
  BY DEF Init, Shape, OpShape, FileShape, Rec, NoOp, Places, AuditRec, NoAudit
<1>2. Facts
  BY DEF Init, Facts, ReportFact, PromptFact, ApprovalFact, ExportFact, WaiversAreGranted, NoAudit
<1>3. ASSUME NEW a \in Actors PROVE OpOK(a)
  BY DEF Init, OpOK, ValidateOK, WaiveOK, ExportOK, PrepareOK, ApproveOK, NoOp
<1> QED
  BY <1>1, <1>2, <1>3 DEF IInv

-----------------------------------------------------------------------------
(* A step that leaves the files, and moves one operation.                  *)
LEMMA FactsStand ==
    ASSUME IInv, granted \subseteq granted',
           UNCHANGED <<report, trace, validated, waivers, sidecar, audit>>
    PROVE  Facts'
BY DEF IInv, Facts, ReportFact, PromptFact, ApprovalFact, ExportFact, WaiversAreGranted,
       Bound, Clean, Trace

LEMMA OpShapeOK ==
    ASSUME IInv, NEW a \in Actors, NEW o, op' = [op EXCEPT ![a] = o],
           Rec(o), <<o.kind, o.at>> \in Places,
           profiling' = profiling \/ profiling' = profiling \ {a}
             \/ (profiling' = profiling \cup {a} /\ ProfileFree(a))
    PROVE  /\ OpShape'
           /\ op'[a] = o
           /\ \A b \in Actors : b # a => op'[b] = op[b]
<1>1. op = [b \in Actors |-> op[b]]
  BY DEF IInv, Shape, OpShape
<1>2. op' = [b \in Actors |-> op'[b]] /\ \A b \in Actors : op'[b] = IF b = a THEN o ELSE op[b]
  BY <1>1
<1>3. \A b \in Actors : Rec(op'[b]) /\ <<op'[b].kind, op'[b].at>> \in Places
  BY <1>2 DEF IInv, Shape, OpShape
<1>4. \A b, c \in profiling' \cap Threads : b = c
  BY DEF IInv, Shape, OpShape, ProfileFree
<1> QED
  BY <1>2, <1>3, <1>4 DEF OpShape, Rec

LEMMA ShapeStands ==
    ASSUME IInv, NEW a \in Actors, NEW o, op' = [op EXCEPT ![a] = o],
           Rec(o), <<o.kind, o.at>> \in Places,
           approved' \in Guides, profile' \in Attached,
           profiling' = profiling \/ profiling' = profiling \ {a}
             \/ (profiling' = profiling \cup {a} /\ ProfileFree(a)),
           UNCHANGED <<report, validated, waivers, audit>>
    PROVE  Shape'
<1>1. OpShape'
  BY OpShapeOK
<1> QED
  BY <1>1 DEF IInv, Shape, FileShape, AuditRec

(* The operations begin.                                                   *)
LEMMA BeginOK ==
    ASSUME IInv, NEW a \in Actors, NEW o, Begin(a, o),
           Rec(o), <<o.kind, o.at>> \in Places,
           <<o.kind, o.at>> \in {<<"validate", "profile">>, <<"waive", "section">>,
               <<"unwaive", "section">>, <<"finalize", "files">>, <<"export", "profile">>,
               <<"prepare", "section">>, <<"approve", "profile">>},
           o.kind \in {"waive", "unwaive"} => o.guide \in Guides /\ o.finding \in Waivable,
           o.kind = "waive" => <<o.guide, o.finding>> \in granted',
           o.kind = "prepare" => Bound(o.made),
           granted \subseteq granted',
           UNCHANGED <<approved, profile, reports, waivers, release, export, audit, profiling>>
    PROVE  IInv'
<1>0. /\ op' = [op EXCEPT ![a] = o]
      /\ op = [c \in Actors |-> op[c]]
      /\ section' = section \/ (section = None /\ section' = a)
  BY DEF Begin, IInv, Shape, OpShape, FileShape
<1>1. Shape'
  BY <1>0, ShapeStands DEF reports, export, IInv, Shape, OpShape, FileShape
<1>2. Facts'
  BY FactsStand DEF reports, export
<1>3. op'[a] = o
  BY <1>0
<1>4. OpOK(a)'
  BY <1>3 DEF OpOK, ValidateOK, WaiveOK, ExportOK, PrepareOK, ApproveOK, Bound, Trace
<1>5. ASSUME NEW b \in Actors, b # a PROVE OpOK(b)'
  <2>1. op'[b] = op[b]
    BY <1>0, <1>5
  <2>2. section = b => section' = b
    BY <1>0, ReleaseAssumption
  <2> QED
    BY <1>5, <2>1, <2>2, Frame DEF reports
<1> QED
  BY <1>1, <1>2, <1>4, <1>5 DEF IInv

LEMMA NoOpRec == Rec(NoOp)
<1>1. PICK n : n = NoOp
  OBVIOUS
<1>2. Rec(n)
  BY <1>1 DEF Rec, NoOp
<1> QED
  BY <1>1, <1>2

(* An operation ends: nothing is known of it any more.                     *)
LEMMA LeaveOK ==
    ASSUME IInv, NEW a \in Actors, Leave(a), granted' = granted,
           UNCHANGED <<report, trace, audit.prompt, audit.approved, audit.projection>>
    PROVE  OpShape' /\ \A b \in Actors : OpOK(b)'
<1>1. Rec(NoOp) /\ <<NoOp.kind, NoOp.at>> \in Places /\ NoOp.kind = "none"
  BY NoOpRec DEF NoOp, Places
<1>2. OpShape' /\ op'[a] = NoOp /\ \A b \in Actors : b # a => op'[b] = op[b]
  BY <1>1, OpShapeOK DEF Leave
<1>3. OpOK(a)'
  BY <1>1, <1>2 DEF OpOK, ValidateOK, WaiveOK, ExportOK, PrepareOK, ApproveOK
<1>4. ASSUME NEW b \in Actors, b # a PROVE OpOK(b)'
  BY <1>2, <1>4, Frame DEF Leave
<1> QED
  BY <1>2, <1>3, <1>4

LEMMA LeaveAll ==
    ASSUME IInv, NEW a \in Actors, Leave(a),
           UNCHANGED <<approved, profile, report, trace, validated, waivers, sidecar, audit, granted>>
    PROVE  IInv'
BY LeaveOK, FactsStand DEF IInv, Shape, FileShape, AuditRec

(* An operation goes from one place to the next.                           *)
Changes(a, o, at) ==
    /\ op' = [op EXCEPT ![a] = o]
    /\ Rec(o) /\ o.at = at /\ o.kind = op[a].kind

LEMMA MoveOK ==
    ASSUME IInv, NEW a \in Actors, NEW at, Move(a, at)
    PROVE  \E o : /\ Changes(a, o, at)
                 /\ o.guide = op[a].guide /\ o.profile = op[a].profile
                 /\ o.finding = op[a].finding /\ o.made = op[a].made
<1>1. PICK n : n = op[a]
  OBVIOUS
<1>2. Rec(n)
  BY <1>1 DEF IInv, Shape, OpShape
<1>3. PICK o : o = [n EXCEPT !.at = at]
  OBVIOUS
<1>4. /\ Rec(o) /\ o.at = at /\ o.kind = n.kind
      /\ o.guide = n.guide /\ o.profile = n.profile
      /\ o.finding = n.finding /\ o.made = n.made
  BY <1>2, <1>3 DEF Rec
<1>5. op' = [op EXCEPT ![a] = o]
  BY <1>1, <1>3 DEF Move
<1> QED
  BY <1>1, <1>4, <1>5 DEF Changes

LEMMA StartOK ==
    ASSUME IInv, NEW a \in Actors, Start(a)
    PROVE  IInv'
<1>1. CASE Validate(a)
  <2>1. PICK o : o = [NoOp EXCEPT !.kind = "validate", !.at = "profile"]
    OBVIOUS
  <2>2. Rec(o) /\ o.kind = "validate" /\ o.at = "profile"
    BY <2>1, NoOpRec DEF Rec
  <2>3. /\ Begin(a, o) /\ granted' = granted
        /\ UNCHANGED <<approved, profile, reports, waivers, release, export, audit, profiling>>
    BY <2>1, <1>1 DEF Validate
  <2> QED
    BY <2>2, <2>3, BeginOK DEF Places
<1>2. CASE Finalize(a)
  <2>1. PICK o : o = [NoOp EXCEPT !.kind = "finalize", !.at = "files", !.guide = approved]
    OBVIOUS
  <2>2. Rec(o) /\ o.kind = "finalize" /\ o.at = "files"
    BY <2>1, NoOpRec DEF Rec
  <2>3. /\ Begin(a, o) /\ granted' = granted
        /\ UNCHANGED <<approved, profile, reports, waivers, release, export, audit, profiling>>
    BY <2>1, <1>2 DEF Finalize
  <2> QED
    BY <2>2, <2>3, BeginOK DEF Places
<1>3. CASE Export(a)
  <2>1. PICK o : o = [NoOp EXCEPT !.kind = "export", !.at = "profile"]
    OBVIOUS
  <2>2. Rec(o) /\ o.kind = "export" /\ o.at = "profile"
    BY <2>1, NoOpRec DEF Rec
  <2>3. /\ Begin(a, o) /\ granted' = granted
        /\ UNCHANGED <<approved, profile, reports, waivers, release, export, audit, profiling>>
    BY <2>1, <1>3 DEF Export
  <2> QED
    BY <2>2, <2>3, BeginOK DEF Places
<1>4. CASE Prepare(a)
  <2>1. PICK o : o = [NoOp EXCEPT !.kind = "prepare", !.at = "section", !.made = AuditInputs]
    OBVIOUS
  <2>2. Rec(o) /\ o.kind = "prepare" /\ o.at = "section" /\ o.made = AuditInputs
    BY <2>1, NoOpRec DEF Rec
  <2>3. /\ Begin(a, o) /\ granted' = granted
        /\ UNCHANGED <<approved, profile, reports, waivers, release, export, audit, profiling>>
    BY <2>1, <1>4 DEF Prepare
  <2>4. Bound(o.made)
    BY <1>4, <2>2 DEF Prepare, AuditReady, AuditInputs, Binding, Bound
  <2> QED
    BY <2>2, <2>3, <2>4, BeginOK DEF Places
<1>5. CASE ApproveAudit(a)
  <2>1. PICK o : o = [NoOp EXCEPT !.kind = "approve", !.at = "profile"]
    OBVIOUS
  <2>2. Rec(o) /\ o.kind = "approve" /\ o.at = "profile"
    BY <2>1, NoOpRec DEF Rec
  <2>3. /\ Begin(a, o) /\ granted' = granted
        /\ UNCHANGED <<approved, profile, reports, waivers, release, export, audit, profiling>>
    BY <2>1, <1>5 DEF ApproveAudit
  <2> QED
    BY <2>2, <2>3, BeginOK DEF Places
<1>6. CASE \E f \in Waivable : Waive(a, f)
  <2>0. PICK f \in Waivable : Waive(a, f)
    BY <1>6
  <2>1. PICK o : o = [NoOp EXCEPT !.kind = "waive", !.at = "section", !.guide = approved, !.finding = f]
    OBVIOUS
  <2>2. Rec(o) /\ o.kind = "waive" /\ o.at = "section" /\ o.guide = approved /\ o.finding = f
    BY <2>1, NoOpRec DEF Rec
  <2>3. /\ Begin(a, o) /\ granted' = granted \cup {<<approved, f>>}
        /\ UNCHANGED <<approved, profile, reports, waivers, release, export, audit, profiling>>
    BY <2>1, <2>0 DEF Waive
  <2>4. approved \in Guides
    BY DEF IInv, Shape, OpShape, FileShape
  <2> QED
    BY <2>2, <2>3, <2>4, BeginOK DEF Places
<1>7. CASE \E f \in Waivable : Unwaive(a, f)
  <2>0. PICK f \in Waivable : Unwaive(a, f)
    BY <1>7
  <2>1. PICK o : o = [NoOp EXCEPT !.kind = "unwaive", !.at = "section", !.guide = approved, !.finding = f]
    OBVIOUS
  <2>2. Rec(o) /\ o.kind = "unwaive" /\ o.at = "section" /\ o.guide = approved /\ o.finding = f
    BY <2>1, NoOpRec DEF Rec
  <2>3. /\ Begin(a, o) /\ granted' = granted
        /\ UNCHANGED <<approved, profile, reports, waivers, release, export, audit, profiling>>
    BY <2>1, <2>0 DEF Unwaive
  <2>4. approved \in Guides
    BY DEF IInv, Shape, OpShape, FileShape
  <2> QED
    BY <2>2, <2>3, <2>4, BeginOK DEF Places
<1> QED
  BY <1>1, <1>2, <1>3, <1>4, <1>5, <1>6, <1>7 DEF Start
-----------------------------------------------------------------------------
(* Validation.                                                             *)
LEMMA ComputeOK ==
    ASSUME IInv, NEW a \in Actors, Compute(a)
    PROVE  IInv'
<1>1. PICK o : /\ Changes(a, o, "section")
               /\ o.guide = approved /\ o.profile = profile
  <2>1. PICK n : n = op[a]
    OBVIOUS
  <2>2. Rec(n)
    BY <2>1 DEF IInv, Shape, OpShape
  <2>3. PICK o : o = [n EXCEPT !.guide = approved, !.profile = profile, !.at = "section"]
    OBVIOUS
  <2>4. Rec(o) /\ o.at = "section" /\ o.kind = n.kind /\ o.guide = approved /\ o.profile = profile
    BY <2>2, <2>3 DEF Rec
  <2>5. op' = [op EXCEPT ![a] = o]
    BY <2>1, <2>3 DEF Compute
  <2> QED
    BY <2>1, <2>4, <2>5 DEF Changes
<1>2. OpShape' /\ op'[a] = o /\ \A b \in Actors : b # a => op'[b] = op[b]
  BY <1>1, OpShapeOK DEF Compute, Changes, At, Places
<1>3. FileShape'
  BY DEF Compute, IInv, Shape, FileShape, AuditRec, reports
<1>4. Facts'
  BY FactsStand DEF Compute, reports, export
<1>5. OpOK(a)'
  BY <1>1, <1>2 DEF Compute, At, Changes, IInv, Shape, FileShape, OpOK, ValidateOK, WaiveOK, ExportOK, PrepareOK, ApproveOK
<1>6. ASSUME NEW b \in Actors, b # a PROVE OpOK(b)'
  BY <1>2, <1>6, Frame DEF Compute, reports
<1> QED
  BY <1>2, <1>3, <1>4, <1>5, <1>6 DEF IInv, Shape

LEMMA WriteReportOK ==
    ASSUME IInv, NEW a \in Actors, WriteReport(a)
    PROVE  IInv'
<1>1. PICK o : /\ Changes(a, o, "trace")
               /\ o.guide = op[a].guide /\ o.profile = op[a].profile
               /\ o.finding = op[a].finding /\ o.made = op[a].made
  BY MoveOK DEF WriteReport
<1>2. OpShape' /\ op'[a] = o /\ \A b \in Actors : b # a => op'[b] = op[b]
  BY <1>1, OpShapeOK DEF WriteReport, Changes, At, Places
<1>3. FileShape'
  <2>1. op[a].guide \in Guides /\ op[a].profile \in Attached
    BY DEF WriteReport, At, IInv, OpOK, ValidateOK
  <2> QED
    BY <2>1 DEF WriteReport, IInv, Shape, FileShape, AuditRec, Reports
<1>4. Facts'
  BY DEF WriteReport, export, IInv, Facts, ReportFact, PromptFact, ApprovalFact, ExportFact,
         WaiversAreGranted, Bound, Clean, Trace
<1>5. OpOK(a)'
  BY <1>1, <1>2 DEF WriteReport, At, Changes, IInv, OpOK, ValidateOK, WaiveOK, ExportOK, PrepareOK, ApproveOK, Report
<1>6. ASSUME NEW b \in Actors, b # a PROVE OpOK(b)'
  BY <1>2, <1>6, Frame, ReleaseAssumption DEF WriteReport, SectionFree
<1> QED
  BY <1>2, <1>3, <1>4, <1>5, <1>6 DEF IInv, Shape

LEMMA WriteTraceOK ==
    ASSUME IInv, NEW a \in Actors, WriteTrace(a)
    PROVE  IInv'
<1>1. PICK o : /\ Changes(a, o, "event")
               /\ o.guide = op[a].guide /\ o.profile = op[a].profile
               /\ o.finding = op[a].finding /\ o.made = op[a].made
  BY MoveOK DEF WriteTrace
<1>2. OpShape' /\ op'[a] = o /\ \A b \in Actors : b # a => op'[b] = op[b]
  BY <1>1, OpShapeOK DEF WriteTrace, Changes, At, Places, locks
<1>3. FileShape'
  BY DEF WriteTrace, IInv, Shape, FileShape, AuditRec
<1>4. Facts'
  BY DEF WriteTrace, export, IInv, Facts, ReportFact, PromptFact, ApprovalFact, ExportFact,
         WaiversAreGranted, Bound, Clean, Trace
<1>5. OpOK(a)'
  BY <1>1, <1>2 DEF WriteTrace, At, Changes, locks, IInv, OpOK, ValidateOK, WaiveOK, ExportOK, PrepareOK, ApproveOK, Report
<1>6. ASSUME NEW b \in Actors, b # a PROVE OpOK(b)'
  <2>1. section = a
    BY DEF WriteTrace, At, IInv, OpOK, ValidateOK
  <2> QED
    BY <1>2, <1>6, <2>1, Frame DEF WriteTrace, locks
<1> QED
  BY <1>2, <1>3, <1>4, <1>5, <1>6 DEF IInv, Shape

LEMMA RecordValidatedOK ==
    ASSUME IInv, NEW a \in Actors, RecordValidated(a)
    PROVE  IInv'
<1>1. /\ op[a].guide \in Guides /\ op[a].profile \in Attached
      /\ report = Report(op[a].guide, op[a].profile) /\ report \in Reports
  BY DEF RecordValidated, At, IInv, OpOK, ValidateOK, Reports
<1>2. OpShape' /\ \A b \in Actors : OpOK(b)'
  BY LeaveOK DEF RecordValidated
<1>3. FileShape'
  BY <1>1 DEF RecordValidated, IInv, Shape, FileShape, AuditRec
<1>4. ReportFact'
  <2>1. report.found = Found[report.guide][op[a].profile]
    BY <1>1 DEF Report
  <2> QED
    BY <1>1, <2>1 DEF RecordValidated, IInv, Shape, FileShape, Facts, ReportFact
<1>5. Facts'
  BY <1>4 DEF RecordValidated, export, IInv, Facts, PromptFact, ApprovalFact, ExportFact,
              WaiversAreGranted, Bound, Clean, Trace
<1> QED
  BY <1>2, <1>3, <1>5 DEF IInv, Shape
-----------------------------------------------------------------------------
(* Waivers and finalizing.                                                 *)
LEMMA SaveWaiverOK ==
    ASSUME IInv, NEW a \in Actors, SaveWaiver(a)
    PROVE  IInv'
<1>1. /\ op[a].guide \in Guides /\ op[a].finding \in Waivable
      /\ <<op[a].guide, op[a].finding>> \in granted
  BY DEF SaveWaiver, At, IInv, OpOK, WaiveOK
<1>2. /\ Items(op[a].guide) \in SUBSET Waivable
      /\ \A f \in Items(op[a].guide) : <<op[a].guide, f>> \in granted
  BY DEF Items, IInv, Shape, FileShape, Facts, WaiversAreGranted
<1>3. /\ waivers'.guide = op[a].guide
      /\ waivers'.found = Items(op[a].guide) \cup {op[a].finding}
  BY DEF SaveWaiver
<1>4. OpShape' /\ \A b \in Actors : OpOK(b)'
  BY LeaveOK DEF SaveWaiver, reports
<1>5. FileShape'
  BY <1>1, <1>2, <1>3 DEF SaveWaiver, reports, IInv, Shape, FileShape, AuditRec
<1>6. Facts'
  BY <1>1, <1>2, <1>3
  DEF SaveWaiver, reports, export, IInv, Facts, ReportFact, PromptFact, ApprovalFact, ExportFact,
         WaiversAreGranted, Bound, Clean, Trace
<1> QED
  BY <1>4, <1>5, <1>6 DEF IInv, Shape

LEMMA DropWaiverOK ==
    ASSUME IInv, NEW a \in Actors, DropWaiver(a)
    PROVE  IInv'
<1>1. op[a].guide \in Guides
  BY DEF DropWaiver, At, IInv, OpOK, WaiveOK
<1>2. OpShape' /\ \A b \in Actors : OpOK(b)'
  BY LeaveOK DEF DropWaiver, reports
<1>3. waivers' = waivers \/ waivers' = None
        \/ /\ waivers # None /\ waivers.guide = op[a].guide
           /\ waivers'.guide = op[a].guide
           /\ waivers'.found \subseteq waivers.found /\ waivers'.found # {}
  BY DEF DropWaiver, Items
<1>4. FileShape'
  BY <1>1, <1>3 DEF DropWaiver, reports, IInv, Shape, FileShape, AuditRec
<1>5. Facts'
  BY <1>3 DEF DropWaiver, reports, export, IInv, Facts, ReportFact, PromptFact, ApprovalFact, ExportFact,
         WaiversAreGranted, Bound, Clean, Trace
<1> QED
  BY <1>2, <1>4, <1>5 DEF IInv, Shape

LEMMA WriteFinalOK ==
    ASSUME IInv, NEW a \in Actors, WriteFinal(a)
    PROVE  IInv'
<1>1. PICK o : /\ Changes(a, o, "section")
               /\ o.guide = op[a].guide /\ o.profile = op[a].profile
               /\ o.finding = op[a].finding /\ o.made = op[a].made
  BY MoveOK DEF WriteFinal
<1>2. OpShape' /\ op'[a] = o /\ \A b \in Actors : b # a => op'[b] = op[b]
  BY <1>1, OpShapeOK DEF WriteFinal, Changes, At, Places, locks
<1>3. FileShape'
  BY DEF WriteFinal, reports, IInv, Shape, FileShape, AuditRec
<1>4. Facts'
  BY FactsStand DEF WriteFinal, reports, export
<1>5. OpOK(a)'
  BY <1>1, <1>2 DEF WriteFinal, At, Changes, OpOK, ValidateOK, WaiveOK, ExportOK, PrepareOK, ApproveOK
<1>6. ASSUME NEW b \in Actors, b # a PROVE OpOK(b)'
  BY <1>2, <1>6, Frame DEF WriteFinal, reports, locks
<1> QED
  BY <1>2, <1>3, <1>4, <1>5, <1>6 DEF IInv, Shape

LEMMA RecordFinalizedOK ==
    ASSUME IInv, NEW a \in Actors, RecordFinalized(a)
    PROVE  IInv'
BY LeaveAll DEF RecordFinalized, reports, export
-----------------------------------------------------------------------------
(* The export.                                                             *)
LEMMA TakeProfileOK ==
    ASSUME IInv, NEW a \in Actors, TakeProfile(a)
    PROVE  IInv'
<1>1. PICK o : /\ Changes(a, o, "section")
               /\ o.guide = op[a].guide /\ o.profile = op[a].profile
               /\ o.finding = op[a].finding /\ o.made = op[a].made
  BY MoveOK DEF TakeProfile
<1>2. OpShape' /\ op'[a] = o /\ \A b \in Actors : b # a => op'[b] = op[b]
  BY <1>1, OpShapeOK DEF TakeProfile, Changes, At, Places
<1>3. FileShape'
  BY DEF TakeProfile, reports, IInv, Shape, FileShape, AuditRec
<1>4. Facts'
  BY FactsStand DEF TakeProfile, reports, export
<1>5. OpOK(a)'
  BY <1>1, <1>2 DEF TakeProfile, At, Changes, OpOK, ValidateOK, WaiveOK, ExportOK, PrepareOK, ApproveOK
<1>6. ASSUME NEW b \in Actors, b # a PROVE OpOK(b)'
  BY <1>2, <1>6, Frame DEF TakeProfile, reports
<1> QED
  BY <1>2, <1>3, <1>4, <1>5, <1>6 DEF IInv, Shape

LEMMA RenderOK ==
    ASSUME IInv, NEW a \in Actors, Render(a)
    PROVE  IInv'
<1>1. CASE ~Exportable
  BY <1>1, LeaveAll DEF Render, reports, export
<1>2. CASE Exportable
  <2>1. /\ section' = a /\ profiling' = profiling
        /\ op' = [op EXCEPT ![a].made = Quality, ![a].at = "html"]
        /\ UNCHANGED <<approved, profile, reports, waivers, release, export, audit, granted>>
    BY <1>2 DEF Render
  <2>2. Clean(Quality)
    BY <1>2 DEF Exportable, GateOpen, Clean, Quality, Report
  <2>3. PICK n : n = op[a]
    OBVIOUS
  <2>4. Rec(n) /\ n.kind = "export" /\ n.at = "section" /\ a \in profiling
    BY <2>3 DEF Render, At, IInv, Shape, OpShape, OpOK, ExportOK
  <2>5. PICK o : o = [n EXCEPT !.made = Quality, !.at = "html"]
    OBVIOUS
  <2>6. Rec(o) /\ o.at = "html" /\ o.kind = "export" /\ o.made = Quality
    BY <2>4, <2>5 DEF Rec
  <2>7. op' = [op EXCEPT ![a] = o]
    BY <2>1, <2>3, <2>5
  <2>8. OpShape' /\ op'[a] = o /\ \A b \in Actors : b # a => op'[b] = op[b]
    BY <2>1, <2>6, <2>7, OpShapeOK DEF Places
  <2>9. FileShape'
    BY <2>1 DEF reports, IInv, Shape, FileShape, AuditRec
  <2>10. Facts'
    BY <2>1, FactsStand DEF reports, export
  <2>11. OpOK(a)'
    <3>1. Clean(op'[a].made)
      BY <2>2, <2>6, <2>8
    <3> QED
      BY <2>1, <2>4, <2>6, <2>8, <3>1 DEF OpOK, ValidateOK, WaiveOK, ExportOK, PrepareOK, ApproveOK, Clean
  <2>12. ASSUME NEW b \in Actors, b # a PROVE OpOK(b)'
    <3>1. section # b
      BY <2>12, ReleaseAssumption DEF Render, SectionFree
    <3> QED
      BY <2>1, <2>8, <2>12, <3>1, Frame
  <2> QED
    BY <2>8, <2>9, <2>10, <2>11, <2>12 DEF IInv, Shape
<1> QED
  BY <1>1, <1>2

LEMMA WriteHtmlOK ==
    ASSUME IInv, NEW a \in Actors, WriteHtml(a)
    PROVE  IInv'
<1>1. PICK o : /\ Changes(a, o, "sidecar")
               /\ o.guide = op[a].guide /\ o.profile = op[a].profile
               /\ o.finding = op[a].finding /\ o.made = op[a].made
  BY MoveOK DEF WriteHtml
<1>2. OpShape' /\ op'[a] = o /\ \A b \in Actors : b # a => op'[b] = op[b]
  BY <1>1, OpShapeOK DEF WriteHtml, Changes, At, Places, locks
<1>3. FileShape'
  BY DEF WriteHtml, reports, IInv, Shape, FileShape, AuditRec
<1>4. Facts'
  BY FactsStand DEF WriteHtml, reports
<1>5. OpOK(a)'
  BY <1>1, <1>2 DEF WriteHtml, At, Changes, locks, IInv, Clean, OpOK, ValidateOK, WaiveOK, ExportOK, PrepareOK, ApproveOK
<1>6. ASSUME NEW b \in Actors, b # a PROVE OpOK(b)'
  BY <1>2, <1>6, Frame DEF WriteHtml, reports, locks
<1> QED
  BY <1>2, <1>3, <1>4, <1>5, <1>6 DEF IInv, Shape

LEMMA WriteSidecarOK ==
    ASSUME IInv, NEW a \in Actors, WriteSidecar(a)
    PROVE  IInv'
<1>1. Clean(sidecar')
  BY DEF WriteSidecar, At, IInv, OpOK, ExportOK, Clean
<1>2. OpShape' /\ \A b \in Actors : OpOK(b)'
  BY LeaveOK DEF WriteSidecar, reports
<1>3. FileShape'
  BY DEF WriteSidecar, reports, IInv, Shape, FileShape, AuditRec
<1>4. Facts'
  BY <1>1 DEF WriteSidecar, reports, IInv, Facts, ReportFact, PromptFact, ApprovalFact, ExportFact,
         WaiversAreGranted, Bound, Clean, Trace
<1> QED
  BY <1>2, <1>3, <1>4 DEF IInv, Shape
-----------------------------------------------------------------------------
(* The audit.                                                              *)
LEMMA WritePromptOK ==
    ASSUME IInv, NEW a \in Actors, WritePrompt(a)
    PROVE  IInv'
<1>1. CASE ~(AuditReady /\ AuditInputs = op[a].made)
  BY <1>1, LeaveAll DEF WritePrompt, reports, export
<1>2. CASE AuditReady /\ AuditInputs = op[a].made
  <2>1. /\ section' = a /\ profiling' = profiling /\ op[a].kind = "prepare"
        /\ op' = [op EXCEPT ![a].at = "event", ![a].finding = Preserves(AuditInputs)]
        /\ audit' = [audit EXCEPT !.prompt = AuditInputs]
        /\ UNCHANGED <<approved, profile, report, trace, validated, waivers, sidecar, granted>>
    BY <1>2 DEF WritePrompt, At, reports, export
  <2>2. trace = op[a].made.trace /\ Bound(op[a].made)
    BY <1>2, <2>1 DEF AuditReady, TraceCurrent, AuditInputs, Binding, IInv, OpOK, PrepareOK
  <2>3. PICK n : n = op[a]
    OBVIOUS
  <2>4. Rec(n)
    BY <2>3 DEF IInv, Shape, OpShape
  <2>5. PICK o : o = [n EXCEPT !.at = "event", !.finding = Preserves(AuditInputs)]
    OBVIOUS
  <2>6. Rec(o) /\ o.at = "event" /\ o.kind = n.kind /\ o.made = n.made
    BY <2>4, <2>5 DEF Rec
  <2>7. op' = [op EXCEPT ![a] = o]
    BY <2>1, <2>3, <2>5
  <2>8. OpShape' /\ op'[a] = o /\ \A b \in Actors : b # a => op'[b] = op[b]
    BY <2>1, <2>3, <2>6, <2>7, OpShapeOK DEF Places
  <2>9. /\ AuditRec' /\ audit'.prompt = op[a].made /\ audit'.prompted = audit.prompted
        /\ audit'.approved = audit.approved /\ audit'.approval = audit.approval
    BY <1>2, <2>1 DEF IInv, Shape, FileShape, AuditRec
  <2>10. FileShape'
    BY <2>1, <2>9 DEF IInv, Shape, FileShape
  <2>11. Facts'
    BY <2>1, <2>9 DEF IInv, Facts, ReportFact, PromptFact, ApprovalFact, ExportFact,
         WaiversAreGranted, Bound, Clean, Trace
  <2>12. OpOK(a)'
    BY <2>1, <2>2, <2>3, <2>6, <2>8, <2>9
    DEF OpOK, ValidateOK, WaiveOK, ExportOK, PrepareOK, ApproveOK, Bound, Trace
  <2>13. ASSUME NEW b \in Actors, b # a PROVE OpOK(b)'
    <3>1. section # b
      BY <2>13, ReleaseAssumption DEF WritePrompt, SectionFree
    <3> QED
      BY <2>1, <2>8, <2>13, <3>1, Frame
  <2> QED
    BY <2>8, <2>10, <2>11, <2>12, <2>13 DEF IInv, Shape
<1> QED
  BY <1>1, <1>2

(* The event of a prompt is bound to the trace that the prompt embeds.     *)
LEMMA RecordPromptOK ==
    ASSUME IInv, NEW a \in Actors, RecordPrompt(a)
    PROVE  IInv'
<1>1. /\ Bound(op[a].made) /\ audit.prompt = op[a].made /\ trace = op[a].made.trace
  BY DEF RecordPrompt, At, IInv, OpOK, PrepareOK
<1>2. PICK now : now = [guide |-> op[a].made.guide, profile |-> profile, trace |-> trace]
  OBVIOUS
<1>3. PICK event : event = [prompt |-> audit.prompt, of |-> now]
  OBVIOUS
<1>4. PICK after : after = (audit.later \/ (audit.approval # None /\ ~Preserved(a, now)))
  OBVIOUS
<1>5. audit' = [audit EXCEPT !.prompted = event, !.later = after]
  BY <1>2, <1>3, <1>4 DEF RecordPrompt
<1>6. PICK old : old = audit
  OBVIOUS
<1>7. PICK new : new = [old EXCEPT !.prompted = event, !.later = after]
  OBVIOUS
<1>8. /\ new = [prompt |-> old.prompt, prompted |-> event, response |-> old.response,
                approved |-> old.approved, projection |-> old.projection,
                approval |-> old.approval, later |-> after]
  BY <1>6, <1>7 DEF IInv, Shape, FileShape, AuditRec
<1>9. /\ AuditRec' /\ audit'.prompted = event /\ audit'.prompt = audit.prompt
      /\ audit'.approved = audit.approved /\ audit'.projection = audit.projection
      /\ audit'.approval = audit.approval
  BY <1>5, <1>6, <1>7, <1>8 DEF AuditRec
<1>10. OpShape' /\ \A b \in Actors : OpOK(b)'
  BY <1>9, LeaveOK DEF RecordPrompt, reports
<1>11. FileShape'
  BY <1>9 DEF RecordPrompt, reports, IInv, Shape, FileShape
<1>12. PromptFact'
  BY <1>1, <1>2, <1>3, <1>9 DEF PromptFact, Bound, Trace
<1>13. Facts'
  BY <1>9, <1>12 DEF RecordPrompt, reports, export, IInv, Facts, ReportFact, ApprovalFact,
                     ExportFact, WaiversAreGranted, Clean
<1> QED
  BY <1>10, <1>11, <1>13 DEF IInv, Shape

LEMMA AnswerOK ==
    ASSUME IInv, Answer
    PROVE  IInv'
<1>1. /\ AuditRec' /\ audit'.prompted = audit.prompted /\ audit'.prompt = audit.prompt
      /\ audit'.approved = audit.approved /\ audit'.projection = audit.projection
      /\ audit'.approval = audit.approval
  BY DEF Answer, IInv, Shape, FileShape, AuditRec
<1>2. Shape'
  BY <1>1 DEF Answer, reports, locks, IInv, Shape, OpShape, FileShape, Rec
<1>3. Facts'
  BY <1>1 DEF Answer, reports, export, IInv, Facts, ReportFact, PromptFact, ApprovalFact, ExportFact,
         WaiversAreGranted, Bound, Clean, Trace
<1>4. ASSUME NEW b \in Actors PROVE OpOK(b)'
  BY <1>1, <1>4 DEF Answer, reports, locks, IInv, OpOK, ValidateOK, WaiveOK, ExportOK, PrepareOK, ApproveOK, Bound, Clean, Trace, Report
<1> QED
  BY <1>2, <1>3, <1>4 DEF IInv

LEMMA ReadResponseOK ==
    ASSUME IInv, NEW a \in Actors, ReadResponse(a)
    PROVE  IInv'
<1>1. CASE ~PromptCurrent
  BY <1>1, LeaveAll DEF ReadResponse, reports, export
<1>2. CASE PromptCurrent
  <2>1. /\ op' = [op EXCEPT ![a].at = "section", ![a].made = AuditInputs,
                            ![a].finding = audit.response]
        /\ profiling' = profiling \cup {a} /\ ProfileFree(a) /\ op[a].kind = "approve"
        /\ UNCHANGED <<approved, profile, report, trace, validated, waivers, sidecar, audit,
                       granted, section>>
    BY <1>2 DEF ReadResponse, At, reports, export
  <2>2. PICK n : n = op[a]
    OBVIOUS
  <2>3. Rec(n)
    BY <2>2 DEF IInv, Shape, OpShape
  <2>4. PICK o : o = [n EXCEPT !.at = "section", !.made = AuditInputs, !.finding = audit.response]
    OBVIOUS
  <2>5. Rec(o) /\ o.at = "section" /\ o.kind = n.kind
    BY <2>3, <2>4 DEF Rec
  <2>6. op' = [op EXCEPT ![a] = o]
    BY <2>1, <2>2, <2>4
  <2>7. OpShape' /\ op'[a] = o /\ \A b \in Actors : b # a => op'[b] = op[b]
    BY <2>1, <2>2, <2>5, <2>6, OpShapeOK DEF Places
  <2>8. FileShape' /\ Facts'
    BY <2>1, FactsStand DEF IInv, Shape, FileShape, AuditRec
  <2>9. OpOK(a)'
    BY <2>1, <2>2, <2>5, <2>7 DEF OpOK, ValidateOK, WaiveOK, ExportOK, PrepareOK, ApproveOK
  <2>10. ASSUME NEW b \in Actors, b # a PROVE OpOK(b)'
    BY <2>1, <2>7, <2>10, Frame
  <2> QED
    BY <2>7, <2>8, <2>9, <2>10 DEF IInv, Shape
<1> QED
  BY <1>1, <1>2

LEMMA BeginApprovalOK ==
    ASSUME IInv, NEW a \in Actors, BeginApproval(a)
    PROVE  IInv'
<1> DEFINE ready == PromptCurrent /\ AuditInputs = op[a].made /\ audit.response = op[a].finding
<1>1. CASE ~ready
  BY <1>1, LeaveAll DEF BeginApproval, reports, export
<1>2. CASE ready
  <2>1. /\ Move(a, "files") /\ section' = a /\ profiling' = profiling
        /\ op[a].kind = "approve" /\ section \in {None, a}
        /\ audit' = [audit EXCEPT !.later = audit.approval # None]
        /\ UNCHANGED <<approved, profile, report, trace, validated, waivers, sidecar, granted>>
    BY <1>2 DEF BeginApproval, At, SectionFree, reports, export
  <2>2. PICK o : Changes(a, o, "files")
    BY <2>1, MoveOK
  <2>3. OpShape' /\ op'[a] = o /\ \A b \in Actors : b # a => op'[b] = op[b]
    BY <2>1, <2>2, OpShapeOK DEF Changes, Places
  <2>4. /\ AuditRec' /\ audit'.prompted = audit.prompted /\ audit'.prompt = audit.prompt
        /\ audit'.approved = audit.approved /\ audit'.projection = audit.projection
        /\ audit'.approval = audit.approval
    BY <2>1 DEF IInv, Shape, FileShape, AuditRec
  <2>5. FileShape'
    BY <2>1, <2>4 DEF IInv, Shape, FileShape
  <2>6. Facts'
    BY <2>1, <2>4 DEF IInv, Facts, ReportFact, PromptFact, ApprovalFact, ExportFact,
         WaiversAreGranted, Bound, Clean, Trace
  <2>7. OpOK(a)'
    BY <2>1, <2>2, <2>3 DEF Changes, OpOK, ValidateOK, WaiveOK, ExportOK, PrepareOK, ApproveOK
  <2>8. ASSUME NEW b \in Actors, b # a PROVE OpOK(b)'
    BY <2>1, <2>3, <2>4, <2>8, Frame, ReleaseAssumption
  <2> QED
    BY <2>3, <2>5, <2>6, <2>7, <2>8 DEF IInv, Shape
<1> QED
  BY <1>1, <1>2

LEMMA WriteApprovedOK ==
    ASSUME IInv, NEW a \in Actors, WriteApproved(a)
    PROVE  IInv'
<1>1. PICK o : /\ Changes(a, o, "projection")
               /\ o.guide = op[a].guide /\ o.profile = op[a].profile
               /\ o.finding = op[a].finding /\ o.made = op[a].made
  BY MoveOK DEF WriteApproved
<1>7. /\ AuditRec' /\ audit'.approved = op[a].finding
      /\ audit'.projection = audit.projection /\ audit'.prompt = audit.prompt
      /\ audit'.prompted = audit.prompted /\ audit'.approval = audit.approval
  BY DEF WriteApproved, IInv, Shape, FileShape, AuditRec
<1>8. section = a /\ op[a].kind = "approve"
  BY DEF WriteApproved, At, IInv, OpOK, ApproveOK
<1>2. OpShape' /\ op'[a] = o /\ \A b \in Actors : b # a => op'[b] = op[b]
  BY <1>1, OpShapeOK DEF WriteApproved, Changes, At, Places, locks
<1>3. FileShape'
  BY <1>7 DEF WriteApproved, reports, IInv, Shape, FileShape
<1>4. Facts'
  BY <1>7 DEF WriteApproved, reports, export, IInv, Facts, ReportFact, PromptFact, ApprovalFact, ExportFact,
         WaiversAreGranted, Bound, Clean, Trace
<1>5. OpOK(a)'
  BY <1>1, <1>2, <1>7, <1>8 DEF WriteApproved, At, Changes, locks, IInv, OpOK, ValidateOK, WaiveOK, ExportOK, PrepareOK, ApproveOK
<1>6. ASSUME NEW b \in Actors, b # a PROVE OpOK(b)'
  BY <1>2, <1>6, <1>8, Frame DEF WriteApproved, locks
<1> QED
  BY <1>2, <1>3, <1>4, <1>5, <1>6 DEF IInv, Shape

LEMMA WriteProjectionOK ==
    ASSUME IInv, NEW a \in Actors, WriteProjection(a)
    PROVE  IInv'
<1>1. PICK o : /\ Changes(a, o, "event")
               /\ o.guide = op[a].guide /\ o.profile = op[a].profile
               /\ o.finding = op[a].finding /\ o.made = op[a].made
  BY MoveOK DEF WriteProjection
<1>7. /\ AuditRec' /\ audit'.projection = <<op[a].finding, op[a].made.guide>>
      /\ audit'.approved = audit.approved /\ audit'.prompt = audit.prompt
      /\ audit'.prompted = audit.prompted /\ audit'.approval = audit.approval
  BY DEF WriteProjection, IInv, Shape, FileShape, AuditRec
<1>8. section = a /\ op[a].kind = "approve"
  BY DEF WriteProjection, At, IInv, OpOK, ApproveOK
<1>2. OpShape' /\ op'[a] = o /\ \A b \in Actors : b # a => op'[b] = op[b]
  BY <1>1, OpShapeOK DEF WriteProjection, Changes, At, Places, locks
<1>3. FileShape'
  BY <1>7 DEF WriteProjection, reports, IInv, Shape, FileShape
<1>4. Facts'
  BY <1>7 DEF WriteProjection, reports, export, IInv, Facts, ReportFact, PromptFact, ApprovalFact, ExportFact,
         WaiversAreGranted, Bound, Clean, Trace
<1>5. OpOK(a)'
  BY <1>1, <1>2, <1>7, <1>8 DEF WriteProjection, At, Changes, locks, IInv, OpOK, ValidateOK, WaiveOK, ExportOK, PrepareOK, ApproveOK
<1>6. ASSUME NEW b \in Actors, b # a PROVE OpOK(b)'
  BY <1>2, <1>6, <1>8, Frame DEF WriteProjection, locks
<1> QED
  BY <1>2, <1>3, <1>4, <1>5, <1>6 DEF IInv, Shape

(* An approval names the projection that was made from its response and guide. *)
LEMMA RecordApprovalOK ==
    ASSUME IInv, NEW a \in Actors, RecordApproval(a)
    PROVE  IInv'
<1>1. /\ audit.approved = op[a].finding
      /\ audit.projection = <<op[a].finding, op[a].made.guide>>
  BY DEF RecordApproval, At, IInv, OpOK, ApproveOK
<1>2. PICK event : event = [prompt |-> audit.prompt, approved |-> audit.approved,
                            projection |-> audit.projection,
                            of |-> [guide |-> op[a].made.guide, profile |-> profile, trace |-> trace]]
  OBVIOUS
<1>3. event.projection = <<event.approved, event.of.guide>>
  BY <1>1, <1>2
<1>4. audit' = [audit EXCEPT !.later = FALSE, !.approval = event]
  BY <1>2 DEF RecordApproval
<1>5. PICK old : old = audit
  OBVIOUS
<1>6. PICK new : new = [old EXCEPT !.later = FALSE, !.approval = event]
  OBVIOUS
<1>7. new = [prompt |-> old.prompt, prompted |-> old.prompted, response |-> old.response,
             approved |-> old.approved, projection |-> old.projection,
             approval |-> event, later |-> FALSE]
  BY <1>5, <1>6 DEF IInv, Shape, FileShape, AuditRec
<1>8. /\ AuditRec' /\ audit'.approval = event /\ audit'.prompt = audit.prompt
      /\ audit'.approved = audit.approved /\ audit'.projection = audit.projection
      /\ audit'.prompted = audit.prompted
  BY <1>4, <1>5, <1>6, <1>7 DEF AuditRec
<1>9. OpShape' /\ \A b \in Actors : OpOK(b)'
  BY <1>8, LeaveOK DEF RecordApproval, reports
<1>10. FileShape'
  BY <1>8 DEF RecordApproval, reports, IInv, Shape, FileShape
<1>11. ApprovalFact'
  BY <1>3, <1>8 DEF ApprovalFact
<1>12. Facts'
  BY <1>8, <1>11 DEF RecordApproval, reports, export, IInv, Facts, ReportFact, PromptFact,
                     ExportFact, WaiversAreGranted, Clean, Bound, Trace
<1> QED
  BY <1>9, <1>10, <1>12 DEF IInv, Shape
-----------------------------------------------------------------------------
(* What is beside.                                                         *)
LEMMA OthersStand ==
    ASSUME IInv, approved' \in Guides, profile' \in Attached, op' = op,
           UNCHANGED <<reports, waivers, release, export, audit, locks, granted>>
    PROVE  IInv'
<1>1. Shape'
  BY DEF reports, locks, IInv, Shape, OpShape, FileShape, AuditRec, Rec
<1>2. Facts'
  BY FactsStand DEF reports, export
<1>3. ASSUME NEW b \in Actors PROVE OpOK(b)'
  BY <1>3 DEF reports, locks, IInv, OpOK, ValidateOK, WaiveOK, ExportOK, PrepareOK, ApproveOK, Bound, Clean, Trace, Report
<1> QED
  BY <1>1, <1>2, <1>3 DEF IInv

LEMMA DieOK ==
    ASSUME IInv, NEW P \in SUBSET Actors, Die(P)
    PROVE  IInv'
<1>1. OpShape'
  BY NoOpRec DEF Die, IInv, Shape, OpShape, Rec, NoOp, Places
<1>2. FileShape'
  BY DEF Die, reports, IInv, Shape, FileShape, AuditRec
<1>3. Facts'
  BY FactsStand DEF Die, reports, export
<1>4. ASSUME NEW b \in P PROVE OpOK(b)'
  <2>1. op'[b] = NoOp
    BY DEF Die
  <2>2. op'[b].kind = "none"
    BY <2>1 DEF NoOp
  <2> QED
    BY <2>2 DEF OpOK, ValidateOK, WaiveOK, ExportOK, PrepareOK, ApproveOK
<1>5. ASSUME NEW b \in Actors \ P PROVE OpOK(b)'
  <2>1. op'[b] = op[b] /\ (section = b => section' = b) /\ (b \in profiling => b \in profiling')
    BY <1>5 DEF Die
  <2> QED
    BY <1>5, <2>1 DEF Die, reports, IInv, OpOK, ValidateOK, WaiveOK, ExportOK, PrepareOK, ApproveOK, Bound, Clean, Trace, Report
<1> QED
  BY <1>1, <1>2, <1>3, <1>4, <1>5 DEF IInv, Shape

LEMMA StutterOK == IInv /\ UNCHANGED vars => IInv'
<1> SUFFICES ASSUME IInv, UNCHANGED vars PROVE IInv'
  OBVIOUS
<1>1. approved \in Guides /\ profile \in Attached
  BY DEF IInv, Shape, FileShape
<1> QED
  BY <1>1, OthersStand DEF vars

LEMMA StepOK ==
    ASSUME IInv, NEW a \in Actors, Step(a)
    PROVE  IInv'
BY ComputeOK, WriteReportOK, WriteTraceOK, RecordValidatedOK, SaveWaiverOK, DropWaiverOK,
   WriteFinalOK, RecordFinalizedOK, TakeProfileOK, RenderOK, WriteHtmlOK, WriteSidecarOK,
   WritePromptOK, RecordPromptOK, ReadResponseOK, BeginApprovalOK, WriteApprovedOK,
   WriteProjectionOK, RecordApprovalOK DEF Step

LEMMA NextOK == IInv /\ [Next]_vars => IInv'
<1> SUFFICES ASSUME IInv, [Next]_vars PROVE IInv'
  OBVIOUS
<1>1. ASSUME NEW a \in Actors, Refuse(a) PROVE IInv'
  BY <1>1, LeaveAll DEF Refuse, reports, export
<1>2. ASSUME NEW a \in Actors, NEW g \in Guides, Approve(a, g) PROVE IInv'
  BY <1>2, OthersStand DEF Approve, IInv, Shape, FileShape
<1>3. ASSUME NEW a \in Actors, NEW p \in Profiles, Attach(a, p) PROVE IInv'
  BY <1>3, OthersStand DEF Attach, Attached, IInv, Shape, FileShape
<1>4. ASSUME Die(Threads) \/ \E a \in Commands : Die({a}) PROVE IInv'
  BY <1>4, DieOK DEF Actors
<1> QED
  BY <1>1, <1>2, <1>3, <1>4, StartOK, StepOK, AnswerOK, StutterOK DEF Next
-----------------------------------------------------------------------------
(* What the invariant says of what reads as current.                       *)

\* A report is current when its latest event names the attached profile, so it
\* holds what validating the approved repair with that profile would find.
LEMMA ReportIsTrue == IInv => CurrentReportTrue
<1> SUFFICES ASSUME IInv, ReportCurrent PROVE report = Report(approved, profile)
  BY DEF CurrentReportTrue
<1>1. report \in Reports /\ profile \in Attached /\ validated[report] = profile
  BY DEF ReportCurrent, IInv, Shape, FileShape
<1>2. report.found = Found[approved][profile] /\ report.guide = approved
  BY <1>1, ReleaseAssumption DEF ReportCurrent, IInv, Facts, ReportFact
<1>3. PICK g \in Guides, p \in Attached : report = Report(g, p)
  BY <1>1 DEF Reports
<1> QED
  BY <1>2, <1>3 DEF Report

\* Two profiles have no trace in common, so a prompt whose event names the
\* inputs of today was made from them.
LEMMA PromptIsTrue == IInv => CurrentPromptIsAboutThis
<1> SUFFICES ASSUME IInv, PromptCurrent PROVE audit.prompt = AuditInputs
  BY DEF CurrentPromptIsAboutThis
<1>1. /\ audit.prompted.prompt = audit.prompt
      /\ audit.prompted.of = AuditInputs /\ profile # None
  BY DEF PromptCurrent, AuditReady
<1>2. /\ Bound(audit.prompt) /\ audit.prompt.guide = approved
      /\ audit.prompt.trace = Trace(approved, profile)
  BY <1>1 DEF PromptCurrent, AuditInputs, Binding, IInv, Facts, PromptFact
<1>3. audit.prompt.profile = profile
  BY <1>1, <1>2 DEF Bound, Trace
<1> QED
  BY <1>2, <1>3 DEF Bound, AuditInputs, Binding

\* An approval whose inputs are those of today names a projection of their guide.
LEMMA AuditIsTrue == IInv => CurrentAuditIsAboutThis
<1> SUFFICES ASSUME IInv, AuditState(AuditInputs) = "current"
             PROVE  /\ audit.projection = <<audit.approved, approved>>
                    /\ audit.approval.of = AuditInputs
  BY DEF CurrentAuditIsAboutThis
<1>1. /\ audit.approval # None
      /\ audit.approval = [prompt |-> audit.prompt, approved |-> audit.approved,
                           projection |-> audit.projection, of |-> AuditInputs]
  <2>1. audit.approval # None /\ ~audit.later
    BY DEF AuditState
  <2> QED
    BY <2>1 DEF AuditState
<1>2. /\ audit.approval.of = AuditInputs /\ audit.approval.approved = audit.approved
      /\ audit.approval.projection = audit.projection
  BY <1>1
<1>3. AuditInputs.guide = approved
  BY DEF AuditInputs, Binding
<1> QED
  BY <1>1, <1>2, <1>3 DEF IInv, Facts, ApprovalFact

LEMMA TypesHold == IInv => TypeOK
<1> SUFFICES ASSUME IInv PROVE TypeOK
  OBVIOUS
<1>1. Cardinality(profiling \cap Threads) <= 1
  <2>1. CASE profiling \cap Threads = {}
    BY <2>1, FS_EmptySet
  <2>2. CASE profiling \cap Threads # {}
    <3>1. PICK b : profiling \cap Threads = {b}
      BY <2>2 DEF IInv, Shape, OpShape
    <3>2. Cardinality({b}) = 1
      BY FS_Singleton
    <3> QED
      BY <3>1, <3>2
  <2> QED
    BY <2>1, <2>2
<1>2. ASSUME NEW a \in Actors
      PROVE  /\ op[a].at \in {"trace", "html", "sidecar", "projection"} => section = a
             /\ op[a].kind = "export" /\ op[a].at # "profile" => a \in profiling
  <2>1. <<op[a].kind, op[a].at>> \in Places /\ OpOK(a)
    BY DEF IInv, Shape, OpShape
  <2> QED
    BY <2>1 DEF Places, OpOK, ValidateOK, ExportOK, ApproveOK
<1> QED
  BY <1>1, <1>2 DEF TypeOK, IInv, Shape, FileShape

LEMMA CurrentFollows == IInv => CurrentIsTrue
BY ReportIsTrue, PromptIsTrue, AuditIsTrue, TypesHold DEF CurrentIsTrue

\* The sidecar of a current export names the document it lies beside, and its
\* report and waivers are those of today.
LEMMA GateFollows == IInv => GateIsHonest
<1> SUFFICES ASSUME IInv PROVE GateIsHonest
  OBVIOUS
<1>1. WaiversAreGranted
  BY DEF IInv, Facts
<1>2. ASSUME ExportCurrent PROVE html = final /\ GateOpen(final, profile)
  <2>1. PICK made : made = Quality
    OBVIOUS
  <2>2. made.report = Report(final, profile) /\ made.waived = Waived(final)
    BY <2>1 DEF Quality
  <2>3. sidecar # None /\ sidecar = [made EXCEPT !.html = html]
    BY <1>2, <2>1 DEF ExportCurrent
  <2>4. Clean(sidecar)
    BY <2>3 DEF IInv, Facts, ExportFact
  <2>5. made = [html |-> made.html, report |-> made.report, persisted |-> made.persisted,
               waived |-> made.waived, stale |-> made.stale, audit |-> made.audit,
               projection |-> made.projection, trace |-> made.trace]
    BY <2>1 DEF Quality
  <2>6. sidecar.html = html /\ sidecar.report = made.report /\ sidecar.waived = made.waived
    BY <2>3, <2>5
  <2>7. sidecar.report.found = Found[final][profile] /\ sidecar.report.guide = final
    BY <2>2, <2>6 DEF Report
  <2> QED
    BY <2>2, <2>4, <2>6, <2>7 DEF Clean, GateOpen
<1> QED
  BY <1>1, <1>2 DEF GateIsHonest, CurrentExportIsClean
-----------------------------------------------------------------------------
LEMMA Invariance == Spec => []IInv
BY InitOK, NextOK, PTL DEF Spec

\* What reads as current is about the approved repair and the attached profile
\* (report_state, audit_prompt_is_current, _public_audit_snapshot_locked).
THEOREM CurrentStaysTrue == Spec => []CurrentIsTrue
BY Invariance, CurrentFollows, PTL

\* Every waiver on file was given by a person for its guide, and what blocks a
\* document that reads as exported is waived today (export_state).
THEOREM GateStaysHonest == Spec => []GateIsHonest
BY Invariance, GateFollows, PTL

\* An operation that ends leaves the waivers of its guide, but for the one it
\* was asked to remove (_record_waiver, _current_waiver_items_locked).
LEMMA WaiverStep ==
    ASSUME IInv, Next, NEW a \in Actors, NEW f \in Waivable,
           op[a].kind \in {"waive", "unwaive"}, op'[a] = NoOp, deaths' = deaths,
           waivers # None, f \in waivers.found, waivers.guide = op[a].guide,
           waivers' # waivers, waivers' = None \/ f \notin waivers'.found
    PROVE  op[a].kind = "unwaive" /\ op[a].finding = f
<1>1. PICK b \in Actors : SaveWaiver(b) \/ DropWaiver(b)
  <2>1. CASE \E b \in Actors : Start(b)
    <3>1. PICK b \in Actors : Start(b)
      BY <2>1
    <3>2. UNCHANGED waivers
      BY <3>1, Zenon DEF Start, Validate, Waive, Unwaive, Finalize, Export, Prepare, ApproveAudit
    <3> QED
      BY <3>2
  <2>2. ASSUME NEW b \in Actors, Step(b) PROVE SaveWaiver(b) \/ DropWaiver(b)
    <3>1. CASE Compute(b) \/ WriteReport(b) \/ WriteTrace(b) \/ RecordValidated(b)
      BY <3>1 DEF Compute, WriteReport, WriteTrace, RecordValidated
    <3>2. CASE WriteFinal(b) \/ RecordFinalized(b)
      BY <3>2 DEF WriteFinal, RecordFinalized
    <3>3. CASE TakeProfile(b) \/ Render(b) \/ WriteHtml(b) \/ WriteSidecar(b)
      BY <3>3 DEF TakeProfile, Render, WriteHtml, WriteSidecar
    <3>4. CASE WritePrompt(b) \/ RecordPrompt(b)
      BY <3>4 DEF WritePrompt, RecordPrompt
    <3>5. CASE ReadResponse(b) \/ BeginApproval(b) \/ WriteApproved(b)
      BY <3>5 DEF ReadResponse, BeginApproval, WriteApproved
    <3>6. CASE WriteProjection(b) \/ RecordApproval(b)
      BY <3>6 DEF WriteProjection, RecordApproval
    <3> QED
      BY <2>2, <3>1, <3>2, <3>3, <3>4, <3>5, <3>6 DEF Step
  <2>3. CASE \E b \in Actors : Refuse(b)
    BY <2>3 DEF Refuse
  <2>4. CASE \E b \in Actors : (\E g \in Guides : Approve(b, g)) \/ (\E p \in Profiles : Attach(b, p))
    BY <2>4 DEF Approve, Attach
  <2>5. CASE Answer \/ Die(Threads) \/ \E b \in Commands : Die({b})
    BY <2>5 DEF Answer, Die
  <2> QED
    BY <2>1, <2>2, <2>3, <2>4, <2>5 DEF Next
<1>2. b = a
  <2>1. op[a] # NoOp
    BY DEF NoOp
  <2>2. b # a => op'[a] = op[a]
    BY <1>1 DEF SaveWaiver, DropWaiver, Leave, IInv, Shape, OpShape
  <2> QED
    BY <2>1, <2>2
<1>3. f \in Items(op[a].guide)
  BY DEF Items
<1>4. ASSUME SaveWaiver(a) PROVE FALSE
  <2>1. waivers'.found = Items(op[a].guide) \cup {op[a].finding} /\ waivers' # None
    <3>1. Items(op[a].guide) \cup {op[a].finding} \in SUBSET Waivable /\ op[a].guide \in Guides
      BY DEF Items, IInv, Shape, FileShape, OpOK, WaiveOK
    <3>2. waivers' = [guide |-> op[a].guide, found |-> Items(op[a].guide) \cup {op[a].finding}]
      BY <1>4 DEF SaveWaiver
    <3> QED
      BY <3>1, <3>2, NoFileAssumption
  <2> QED
    BY <2>1, <1>3
<1>5. DropWaiver(a)
  BY <1>1, <1>2, <1>4
<1>6. PICK items, rest : /\ items = Items(op[a].guide) /\ rest = items \ {op[a].finding}
                         /\ op[a].kind = "unwaive"
                         /\ waivers' = IF rest = items THEN waivers
                                       ELSE IF rest = {} THEN None
                                       ELSE [guide |-> op[a].guide, found |-> rest]
  BY <1>5 DEF DropWaiver, At
<1>7. rest # Items(op[a].guide) => f \notin rest
  <2>1. CASE rest = {}
    BY <2>1
  <2>2. CASE rest # {}
    <3>1. waivers' = [guide |-> op[a].guide, found |-> rest]
      BY <1>6, <2>2
    <3>2. waivers'.found = rest
      BY <3>1
    <3>3. rest \in SUBSET Waivable /\ op[a].guide \in Guides
      BY <1>6 DEF Items, IInv, Shape, FileShape, OpOK, WaiveOK
    <3> QED
      BY <1>6, <3>1, <3>2, <3>3, NoFileAssumption
  <2> QED
    BY <2>1, <2>2
<1> QED
  BY <1>3, <1>6, <1>7

THEOREM WaiversAreKept == Spec => WaiversStand
<1>1. IInv /\ [Next]_vars =>
        [\A a \in Actors, f \in Waivable :
          (/\ op[a].kind \in {"waive", "unwaive"} /\ op'[a] = NoOp /\ deaths' = deaths
           /\ waivers # None /\ f \in waivers.found /\ waivers.guide = op[a].guide
           /\ waivers' # waivers /\ (waivers' = None \/ f \notin waivers'.found)) =>
              op[a].kind = "unwaive" /\ op[a].finding = f]_vars
  BY WaiverStep
<1> QED
  BY <1>1, Invariance, PTL DEF Spec, WaiversStand
-----------------------------------------------------------------------------
(* Nobody is stuck. Locks are taken in one order: who has a profile lock    *)
(* waits for no other one, and a thread that has the section waits for      *)
(* nothing. A finalize of a thread has neither lock at its files.           *)
LockOrder ==
    /\ \A a \in Actors : op[a].at = "idle" => op[a] = NoOp
    /\ profiling \subseteq Actors /\ section \in Actors \cup {None}
    /\ \A a \in profiling : op[a].at \notin {"idle", "profile"}
    /\ section # None => op[section].at # "idle"
    /\ section \in Threads => /\ op[section].at \notin {"profile", "section"}
                             /\ op[section].kind # "finalize"

\* A step that moves the operation of a, and what it does with the locks.
Starts(a) ==
    /\ op[a] = NoOp /\ op'[a].at \in {"profile", "section", "files"}
    /\ profiling' = profiling
    /\ section' = section \/ (a \in Commands /\ section = None /\ section' = a)
Ends(a) ==
    /\ op'[a] = NoOp /\ profiling' = profiling \ {a}
    /\ section' = IF section = a THEN None ELSE section
TakesProfile(a) ==
    /\ op[a].at = "profile" /\ op'[a].at = "section" /\ op'[a].kind = op[a].kind
    /\ profiling' = profiling \cup {a} /\ section' = section
TakesSection(a) ==
    /\ op[a].at = "section" /\ SectionFree(a) /\ section' = a /\ profiling' = profiling
    /\ op'[a].at \in {"trace", "html", "event", "files"}
    /\ op'[a].kind = op[a].kind /\ op'[a].kind # "finalize"
GoesOn(a) ==
    /\ op[a].at \notin {"idle", "profile", "section"}
    /\ op'[a].at \notin {"idle", "profile"} /\ op'[a].kind = op[a].kind
    /\ op'[a].at = "section" => op[a].kind = "finalize"
    /\ UNCHANGED locks
MovesOne(a) ==
    /\ op' = [b \in Actors |-> op'[b]]
    /\ \A b \in Actors : b # a => op'[b] = op[b]
    /\ Starts(a) \/ Ends(a) \/ TakesProfile(a) \/ TakesSection(a) \/ GoesOn(a)

LEMMA OrderKept ==
    ASSUME LockOrder, NEW a \in Actors, MovesOne(a)
    PROVE  LockOrder'
<1>0. None \notin Actors /\ Threads \cap Commands = {} /\ Actors = Threads \cup Commands
  BY ReleaseAssumption DEF Actors
<1>1. NoOp.at = "idle" /\ NoOp.kind = "none"
  BY DEF NoOp
<1>2. \A b \in Actors : b # a => op'[b] = op[b]
  BY DEF MovesOne
<1>3. CASE Starts(a)
  BY <1>0, <1>1, <1>2, <1>3 DEF LockOrder, Starts
<1>4. CASE Ends(a)
  BY <1>0, <1>1, <1>2, <1>4 DEF LockOrder, Ends
<1>5. CASE TakesProfile(a)
  BY <1>0, <1>1, <1>2, <1>5 DEF LockOrder, TakesProfile
<1>6. CASE TakesSection(a)
  BY <1>0, <1>1, <1>2, <1>6 DEF LockOrder, TakesSection
<1>7. CASE GoesOn(a)
  BY <1>0, <1>1, <1>2, <1>7 DEF LockOrder, GoesOn, locks
<1> QED
  BY <1>3, <1>4, <1>5, <1>6, <1>7 DEF MovesOne

(* A step of Start, Step or Refuse is one of those.                         *)
LEMMA StartMoves ==
    ASSUME IInv, NEW a \in Actors, Start(a)
    PROVE  MovesOne(a)
<1>1. PICK o : Begin(a, o) /\ o.at \in {"profile", "section", "files"} /\ profiling' = profiling
  BY DEF Start, Validate, Waive, Unwaive, Finalize, Export, Prepare, ApproveAudit, NoOp
<1>2. op' = [op EXCEPT ![a] = o] /\ op = [b \in Actors |-> op[b]]
  BY <1>1 DEF Begin, IInv, Shape, OpShape
<1>3. Starts(a)
  BY <1>1, <1>2 DEF Begin, Starts, Guarded
<1> QED
  BY <1>2, <1>3 DEF MovesOne

LEMMA StepMoves ==
    ASSUME IInv, NEW a \in Actors, Step(a) \/ Refuse(a)
    PROVE  MovesOne(a)
<1>0. op = [b \in Actors |-> op[b]]
  BY DEF IInv, Shape, OpShape
<1>1. CASE Leave(a)
  BY <1>0, <1>1 DEF Leave, MovesOne, Ends
<1>2. CASE Compute(a)
  <2>1. op'[a].at = "section" /\ op'[a].kind = op[a].kind
    BY <1>0, <1>2 DEF Compute, IInv, Shape, OpShape, Rec
  <2> QED
    BY <1>0, <1>2, <2>1 DEF Compute, At, MovesOne, TakesProfile
<1>3. CASE WriteReport(a)
  <2>1. op'[a].at = "trace" /\ op'[a].kind = op[a].kind
    BY <1>0, <1>3, MoveOK DEF WriteReport, Changes
  <2> QED
    BY <1>0, <1>3, <2>1 DEF WriteReport, Move, At, MovesOne, TakesSection
<1>4. CASE TakeProfile(a)
  <2>1. op'[a].at = "section" /\ op'[a].kind = op[a].kind
    BY <1>0, <1>4, MoveOK DEF TakeProfile, Changes
  <2> QED
    BY <1>0, <1>4, <2>1 DEF TakeProfile, Move, At, MovesOne, TakesProfile
<1>5. CASE Render(a) /\ ~Leave(a)
  <2>1. op'[a].at = "html" /\ op'[a].kind = op[a].kind
    BY <1>0, <1>5, ZenonT(60) DEF Render, IInv, Shape, OpShape, Rec
  <2> QED
    BY <1>0, <1>5, <2>1 DEF Render, At, MovesOne, TakesSection
<1>6. CASE WritePrompt(a) /\ ~Leave(a)
  <2>1. op'[a].at = "event" /\ op'[a].kind = op[a].kind
    BY <1>0, <1>6, ZenonT(60) DEF WritePrompt, IInv, Shape, OpShape, Rec
  <2> QED
    BY <1>0, <1>6, <2>1 DEF WritePrompt, At, MovesOne, TakesSection
<1>7. CASE ReadResponse(a) /\ ~Leave(a)
  <2>1. op'[a].at = "section" /\ op'[a].kind = op[a].kind
    <3>1. PICK n : n = op[a]
      OBVIOUS
    <3>2. Rec(n)
      BY <3>1 DEF IInv, Shape, OpShape
    <3>3. op'[a] = [n EXCEPT !.at = "section", !.made = AuditInputs, !.finding = audit.response]
      BY <1>0, <1>7, <3>1 DEF ReadResponse
    <3> QED
      BY <3>1, <3>2, <3>3 DEF Rec
  <2> QED
    BY <1>0, <1>7, <2>1 DEF ReadResponse, At, MovesOne, TakesProfile
<1>8. CASE BeginApproval(a) /\ ~Leave(a)
  <2>1. op'[a].at = "files" /\ op'[a].kind = op[a].kind
    BY <1>0, <1>8, MoveOK DEF BeginApproval, Changes
  <2> QED
    BY <1>0, <1>8, <2>1 DEF BeginApproval, Move, At, MovesOne, TakesSection
<1>9. CASE WriteTrace(a) \/ WriteFinal(a) \/ WriteHtml(a) \/ WriteApproved(a) \/ WriteProjection(a)
  <2>1. PICK at \in {"event", "section", "sidecar", "projection"} :
          /\ Move(a, at) /\ UNCHANGED locks
          /\ op[a].at \in {"trace", "files", "html", "projection"}
          /\ at = "section" => op[a].kind = "finalize"
    BY <1>9 DEF WriteTrace, WriteFinal, WriteHtml, WriteApproved, WriteProjection, At
  <2>2. op'[a].at = at /\ op'[a].kind = op[a].kind
    BY <1>0, <2>1, MoveOK DEF Changes
  <2> QED
    BY <1>0, <2>1, <2>2 DEF Move, MovesOne, GoesOn
<1>10. CASE \/ RecordValidated(a) \/ SaveWaiver(a) \/ DropWaiver(a) \/ RecordFinalized(a)
            \/ WriteSidecar(a) \/ RecordPrompt(a) \/ RecordApproval(a) \/ Refuse(a)
  <2>1. Leave(a)
    BY <1>10 DEF RecordValidated, SaveWaiver, DropWaiver, RecordFinalized, WriteSidecar,
                 RecordPrompt, RecordApproval, Refuse
  <2> QED
    BY <1>1, <2>1
<1> QED
  BY <1>1, <1>2, <1>3, <1>4, <1>5, <1>6, <1>7, <1>8, <1>9, <1>10 DEF Step

LEMMA DieOrdered ==
    ASSUME IInv, LockOrder, NEW process \in SUBSET Actors, Die(process)
    PROVE  LockOrder'
<1>0. None \notin Actors /\ Threads \subseteq Actors
  BY ReleaseAssumption DEF Actors
<1>1. NoOp.at = "idle"
  BY DEF NoOp
<1>2. \A b \in Actors : op'[b] = IF b \in process THEN NoOp ELSE op[b]
  BY DEF Die
<1>3. profiling' = profiling \ process /\ section' = IF section \in process THEN None ELSE section
  BY DEF Die
<1> QED
  BY <1>0, <1>1, <1>2, <1>3 DEF LockOrder

LEMMA OrderInvariance == Spec => []LockOrder
<1>1. Init => LockOrder
  BY DEF Init, LockOrder, NoOp, Actors
<1>2. IInv /\ LockOrder /\ [Next]_vars => LockOrder'
  <2> SUFFICES ASSUME IInv, LockOrder, [Next]_vars PROVE LockOrder'
    OBVIOUS
  <2>1. CASE UNCHANGED <<op, locks>>
    BY <2>1 DEF LockOrder, locks
  <2>2. CASE UNCHANGED vars
    BY <2>1, <2>2 DEF vars
  <2>3. CASE \E a \in Actors : Start(a) \/ Step(a) \/ Refuse(a)
    BY <2>3, StartMoves, StepMoves, OrderKept
  <2>4. CASE \E a \in Actors : (\E g \in Guides : Approve(a, g)) \/ (\E p \in Profiles : Attach(a, p))
    BY <2>1, <2>4 DEF Approve, Attach
  <2>5. CASE Answer
    BY <2>1, <2>5 DEF Answer
  <2>6. CASE Die(Threads) \/ \E a \in Commands : Die({a})
    BY <2>6, DieOrdered DEF Actors
  <2> QED
    BY <2>2, <2>3, <2>4, <2>5, <2>6 DEF Next
<1> QED
  BY <1>1, <1>2, Invariance, PTL DEF Spec

\* While an operation is under way, one of them waits for nobody: the locks of
\* validating, exporting and approving an audit are taken in one order
\* (_profile_generation_lock, then the section), by threads and commands alike.
THEOREM LocksNeverBlockAll == Spec => []NobodyIsStuck
<1>1. ASSUME LockOrder
      PROVE  NobodyIsStuck
  <2> SUFFICES ASSUME NEW a \in Actors, op[a] # NoOp PROVE \E b \in Actors : CanGoOn(b)
    BY DEF NobodyIsStuck
  <2>0. /\ NoOp.at = "idle" /\ op[a].at # "idle"
        /\ None \notin Actors /\ Threads \subseteq Actors /\ Actors = Threads \cup Commands
    BY <1>1, ReleaseAssumption DEF NoOp, LockOrder, Actors
  <2>1. CASE section # None
    <3>1. section \in Actors /\ op[section] # NoOp
      BY <1>1, <2>0, <2>1 DEF LockOrder
    <3>2. op[section].at = "profile" => ProfileFree(section)
      BY <1>1 DEF LockOrder, ProfileFree
    <3> QED
      BY <3>1, <3>2 DEF CanGoOn, SectionFree
  <2>2. CASE section = None /\ (op[a].at = "profile" => ProfileFree(a))
    BY <1>1, <2>2 DEF CanGoOn, SectionFree
  <2>3. CASE section = None /\ op[a].at = "profile" /\ ~ProfileFree(a)
    <3>1. PICK b \in Threads : b \in profiling
      BY <2>3 DEF ProfileFree
    <3>2. b \in Actors /\ op[b] # NoOp /\ op[b].at # "profile"
      BY <1>1, <2>0, <3>1 DEF LockOrder
    <3> QED
      BY <2>3, <3>2 DEF CanGoOn, SectionFree
  <2> QED
    BY <2>1, <2>2, <2>3
<1> QED
  BY <1>1, OrderInvariance, PTL

\* Whichever operations are under way and whoever holds the locks, one waits for
\* no lock, and each that waits for none is at a place where its code goes on:
\* none is left at a place without a step (validate_and_gate, _export_guide_v1,
\* _approve_personalization_audit and the others).
THEOREM OneCanGoOn == Spec => []OneIsDue
<1>1. ASSUME IInv, LockOrder, NEW a \in Actors, CanGoOn(a)
      PROVE  StepIsDue(a)
  <2>1. <<op[a].kind, op[a].at>> \in Places
    BY <1>1 DEF IInv, Shape, OpShape
  <2>2. CASE <<op[a].kind, op[a].at>> = <<"none", "idle">>
    <3>1. op[a] = NoOp
      BY <1>1, <2>2 DEF LockOrder
    <3> QED BY <1>1, <3>1 DEF CanGoOn
  <2> QED
    BY <1>1, <2>1, <2>2 DEF Places, CanGoOn, StepIsDue
<1>2. IInv /\ LockOrder /\ NobodyIsStuck => OneIsDue
  BY <1>1 DEF OneIsDue
<1> QED
  BY <1>2, Invariance, OrderInvariance, LocksNeverBlockAll, PTL
=============================================================================
