----------------------------- MODULE RunStages -----------------------------
(***************************************************************************)
(* The stages of one interactive-guide run (education_pipeline/runs.py,    *)
(* runs_reports.py, runs_finalize.py, stage_graph.py): prompts that embed  *)
(* approved sources, responses, approvals bound to the hashes of their     *)
(* sources, validation reports, the final guide, and the next action.      *)
(*                                                                         *)
(* A text stands for its bytes and for their hash. An operation is a       *)
(* request of the daemon, a command line or a provider job; between two of *)
(* its steps on the run's files other operations may come, because the     *)
(* guards of a request are not held while it works.                        *)
(***************************************************************************)
EXTENDS Naturals

CONSTANTS
    Stages,      \* stages with a prompt of their own and the draft
    Sources,     \* Sources[s]: the approved stages embedded in the prompt of s
    Rank,        \* Rank[s]: the position of s in the order of the pipeline
    Draft,       \* the stage without sources, judged by the draft report
    Late,        \* the fact check, which runs of an earlier version do not have
    Repair,      \* the last stage, the source of the final guide
    Texts,       \* what a response may say
    Requests,    \* mutating calls of the daemon's HTTP API
    Reviewer,    \* the request of the person who follows the next action
    Commands,    \* command lines, processes of their own
    Workers,     \* the daemon's job threads
    None,
    MaxMeddling, \* operations that are not the next action
    MaxBreaks    \* operations that end in the middle

Actors == Requests \cup Commands \cup Workers

ASSUME StagesAssumption ==
    /\ Sources \in [Stages -> SUBSET Stages]
    /\ Rank \in [Stages -> Nat]
    /\ \A s \in Stages : \A u \in Sources[s] : Rank[u] < Rank[s]
    /\ {Draft, Late, Repair} \subseteq Stages
    /\ Sources[Draft] = {}
    /\ Sources[Repair] # {}
    /\ Sources[Late] # {}
    /\ None \notin Texts \cup Actors
    /\ None \notin [Stages -> Texts \cup {None}]
    /\ Requests \cap Commands = {}
    /\ Workers \cap (Requests \cup Commands) = {}
    /\ Reviewer \in Requests
    /\ MaxMeddling \in Nat /\ MaxBreaks \in Nat

Derived == {s \in Stages : Sources[s] # {}}

Hash == Texts \cup {None}
Embedding == [Stages -> Hash]           \* None: not a source, or absent
Record == Embedding \cup {None}

VARIABLES
    prompt,      \* prompt[s]: what the prompt file of s embeds
    recorded,    \* recorded[s]: the source hashes of the latest prompt_written
    response,    \* response[s]: the response file
    approved,    \* approved[s]: the approved file
    bound,       \* bound[s]: the source hashes of the latest response_approved
    reported,    \* reported[s]: the text the report of phase s was computed from
    finalJson,   \* the text final/guide.json was made from
    finalMd,     \* the text final/guide.md was made from
    finalized,   \* the source hash of the latest finalized event
    holder,      \* the command that holds the workspace lock
    op,          \* op[a]: the operation a is in the middle of
    answers,     \* history: what the prompt embedded that response[s] answers
    built,       \* history: the same for approved[s]
    orderly,     \* history: one operation at a time, none cut off, and no
                 \* approval of a response that answers an earlier prompt
    meddling,    \* bound: operations left that are not the next action
    breaks       \* bound: operations left to be cut off

files == <<prompt, response, approved, finalJson, finalMd>>
events == <<recorded, bound, reported, finalized>>
history == <<answers, built, orderly>>
vars == <<files, events, holder, op, history, meddling, breaks>>

-----------------------------------------------------------------------------
(* What the files say.                                                     *)

Sourced(s) == [u \in Stages |-> IF u \in Sources[s] THEN approved[u] ELSE None]

\* The walk over the recorded hashes stops at the first that is absent.
StaleBy(s, said, now) ==
    \E u \in Sources[s] :
        /\ said[u] # None
        /\ said[u] # now[u]
        /\ \A v \in Sources[s] : Rank[v] < Rank[u] => said[v] # None

Stale(s) == bound[s] # None /\ StaleBy(s, bound[s], approved)
Settled(s) == approved[s] # None /\ ~Stale(s)

Reported(s) == approved[s] # None /\ reported[s] = approved[s]

\* Mutant: final files and an event are taken for a finalized run.
FinalizedOnce == finalJson # None /\ finalMd # None /\ finalized # None

Finalized ==
    /\ finalJson # None /\ finalMd # None
    /\ finalized # None /\ finalized = approved[Repair]

PromptOutdated(s) == recorded[s] = None \/ recorded[s] # Sourced(s)

-----------------------------------------------------------------------------
(* The next action.                                                        *)

\* Mutant: a repair that went stale still excuses the missing fact check.
ExcusedAnyway == approved[Repair] # None /\ approved[Late] = None

Excused == Settled(Repair) /\ approved[Late] = None

Waiting == {s \in Derived : ~Settled(s) /\ ~(s = Late /\ Excused)}

PendingAction(s) ==
    CASE prompt[s] = None /\ s # Draft -> "prompt"
      [] response[s] = None -> "save"
      [] OTHER -> "approve"

RebuildAction(s) == IF PromptOutdated(s) THEN "prompt" ELSE "save"

StageAction(s) == IF approved[s] = None THEN PendingAction(s) ELSE RebuildAction(s)

Next1(do, s) == [do |-> do, stage |-> s]

NextAction ==
    IF approved[Draft] = None THEN Next1(PendingAction(Draft), Draft)
    ELSE IF ~Reported(Draft) THEN Next1("validate", Draft)
    ELSE IF Waiting # {}
         THEN LET s == CHOOSE s \in Waiting : \A u \in Waiting : Rank[s] <= Rank[u]
              IN  Next1(StageAction(s), s)
    ELSE IF ~Reported(Repair) THEN Next1("validate", Repair)
    ELSE IF Finalized THEN Next1("done", Repair)
    ELSE Next1("finalize", Repair)

-----------------------------------------------------------------------------
(* Beginning an operation.                                                 *)

Idle == [kind |-> "idle", stage |-> Draft, at |-> "idle",
         text |-> None, basis |-> None, over |-> FALSE]

Running(s) == \E w \in Workers : op[w] # Idle /\ op[w].stage = s
Busy == \E w \in Workers : op[w] # Idle

Alone == \A b \in Actors : op[b] = Idle

\* The next action is free; anything else is meddling.
Charge(a, next) ==
    IF a \notin Commands /\ next THEN UNCHANGED meddling
    ELSE meddling > 0 /\ meddling' = meddling - 1

Begin(a, kind, s, at, basis, over) ==
    /\ op[a] = Idle
    /\ op' = [op EXCEPT ![a] = [kind |-> kind, stage |-> s, at |-> at,
                                text |-> None, basis |-> basis, over |-> over]]
    /\ UNCHANGED <<files, events, answers, built, breaks>>

\* A request looks for active jobs and goes on; a command does so while it
\* holds the workspace lock, and keeps the lock until it is done.
Guard(a) ==
    /\ ~Busy
    /\ a \in Commands => holder = None
    /\ holder' = IF a \in Commands THEN a ELSE holder

Advance(a, s) ==
    /\ Guard(a)
    /\ NextAction = Next1("prompt", s)
    /\ Charge(a, a = Reviewer)
    /\ orderly' = (orderly /\ Alone)
    /\ Begin(a, "prompt", s, "asked", None, prompt[s] # None)

Save(a, s) ==
    /\ a \in Requests \ {Reviewer}
    /\ Guard(a)
    /\ Charge(a, FALSE)
    /\ orderly' = (orderly /\ Alone)
    /\ Begin(a, "save", s, "asked", prompt[s], response[s] # None)

\* The reviewer approves when that is the next action, and again when a stale
\* stage has been run anew.
Reapproval(s) ==
    /\ NextAction = Next1("save", s)
    /\ approved[s] # None
    /\ answers[s] = prompt[s]

Approve(a, s) ==
    /\ Guard(a)
    /\ response[s] # None
    /\ a \in Commands => approved[s] = None
    /\ a = Reviewer => NextAction = Next1("approve", s) \/ Reapproval(s)
    /\ Charge(a, a = Reviewer)
    /\ orderly' = (orderly /\ Alone /\ answers[s] = prompt[s])
    /\ Begin(a, "approve", s, "asked", None, approved[s] # None)

\* validate has no guard on the command line, and looks only for jobs of the
\* stage it judges in the daemon.
Validate(a, s) ==
    /\ s \in {Draft, Repair}
    /\ a \in Requests => ~Running(s)
    /\ a = Reviewer => NextAction = Next1("validate", s)
    /\ Charge(a, a = Reviewer)
    /\ orderly' = (orderly /\ Alone)
    /\ UNCHANGED holder
    /\ Begin(a, "validate", s, "asked", None, TRUE)

Finalize(a) ==
    /\ Guard(a)
    /\ a \in Commands => finalJson = None /\ finalMd = None
    /\ a = Reviewer => NextAction = Next1("finalize", Repair)
    /\ Charge(a, a = Reviewer)
    /\ orderly' = (orderly /\ Alone)
    /\ Begin(a, "finalize", Repair, "asked", None, finalJson # None \/ finalMd # None)

\* Mutant: a job is admitted without the workspace lock.
AdmitUnlocked(w, s) ==
    /\ ~Running(s)
    /\ Charge(w, NextAction = Next1("save", s))
    /\ orderly' = (orderly /\ Alone)
    /\ UNCHANGED holder
    /\ Begin(w, "run", s, "queued", None, response[s] # None)

\* A job is admitted under the workspace lock, for the next action or for a
\* stage that was named.
Admit(w, s) ==
    /\ holder = None
    /\ ~Running(s)
    /\ Charge(w, NextAction = Next1("save", s))
    /\ orderly' = (orderly /\ Alone)
    /\ UNCHANGED holder
    /\ Begin(w, "run", s, "queued", None, response[s] # None)

-----------------------------------------------------------------------------
(* The steps of an operation.                                              *)

At(a, kinds, at) == op[a].kind \in kinds /\ op[a].at = at

Go(a, at, text, basis) ==
    /\ op' = [op EXCEPT ![a].at = at, ![a].text = text, ![a].basis = basis]
    /\ UNCHANGED <<holder, orderly, meddling, breaks>>

Finish(a) ==
    /\ op' = [op EXCEPT ![a] = Idle]
    /\ holder' = IF holder = a THEN None ELSE holder
    /\ UNCHANGED <<orderly, meddling, breaks>>

\* Events are appended under the workspace lock.
MayAppend(a) == holder \in {None, a}

Ready(s) ==
    /\ \A u \in Sources[s] : Settled(u)
    /\ Reported(Draft)

Compile(a) ==
    LET s == op[a].stage
    IN  /\ At(a, {"prompt"}, "asked")
        /\ IF Ready(s)
           THEN Go(a, "compiled", None, Sourced(s))
           ELSE Finish(a)
        /\ UNCHANGED <<files, events, answers, built>>

WritePrompt(a) ==
    LET s == op[a].stage
    IN  /\ At(a, {"prompt"}, "compiled")
        /\ IF prompt[s] = None \/ op[a].over
           THEN prompt' = [prompt EXCEPT ![s] = op[a].basis] /\ Go(a, "written", None, None)
           ELSE UNCHANGED prompt /\ Finish(a)
        /\ UNCHANGED <<response, approved, finalJson, finalMd, events, answers, built>>

RecordPrompt(a) ==
    LET s == op[a].stage
    IN  /\ At(a, {"prompt"}, "written")
        /\ MayAppend(a)
        /\ recorded' = [recorded EXCEPT ![s] = Sourced(s)]
        /\ Finish(a)
        /\ UNCHANGED <<files, bound, reported, finalized, answers, built>>

\* The provider is given the prompt file as it is when the job starts.
Open(w) ==
    LET s == op[w].stage
    IN  /\ At(w, {"run"}, "queued")
        /\ holder = None
        /\ IF s = Draft \/ prompt[s] # None
           THEN Go(w, "asked", None, prompt[s])
           ELSE Finish(w)
        /\ UNCHANGED <<files, events, answers, built>>

\* Replacing a response appends an event before the file is written.
SaveResponse(a) ==
    LET s == op[a].stage
    IN  /\ At(a, {"save", "run"}, "asked")
        /\ response[s] # None => MayAppend(a)
        /\ \/ /\ response[s] = None \/ op[a].over
              /\ \E t \in Texts : response' = [response EXCEPT ![s] = t]
              /\ answers' = [answers EXCEPT ![s] = op[a].basis]
           \/ /\ response[s] # None /\ ~op[a].over
              /\ UNCHANGED <<response, answers>>
        /\ Finish(a)
        /\ UNCHANGED <<prompt, approved, finalJson, finalMd, events, built>>

ReadResponse(a) ==
    LET s == op[a].stage
    IN  /\ At(a, {"approve"}, "asked")
        /\ Go(a, "read", response[s], answers[s])
        /\ UNCHANGED <<files, events, answers, built>>

WriteApproved(a) ==
    LET s == op[a].stage
    IN  /\ At(a, {"approve"}, "read")
        /\ IF approved[s] = None \/ op[a].over
           THEN /\ approved' = [approved EXCEPT ![s] = op[a].text]
                /\ built' = [built EXCEPT ![s] = op[a].basis]
                /\ Go(a, IF s \in Derived THEN "written" ELSE "bound", None, None)
           ELSE UNCHANGED <<approved, built>> /\ Finish(a)
        /\ UNCHANGED <<prompt, response, finalJson, finalMd, events, answers>>

BindSources(a) ==
    /\ At(a, {"approve"}, "written")
    /\ Go(a, "bound", None, recorded[op[a].stage])
    /\ UNCHANGED <<files, events, answers, built>>

\* Mutant: the approval is bound to the sources as they are by now.
RecordApprovalNow(a) ==
    /\ At(a, {"approve"}, "bound")
    /\ MayAppend(a)
    /\ bound' = IF op[a].stage \in Derived
                THEN [bound EXCEPT ![op[a].stage] = Sourced(op[a].stage)] ELSE bound
    /\ Finish(a)
    /\ UNCHANGED <<files, recorded, reported, finalized, answers, built>>

\* A source without a hash in the prompt's event is hashed as it stands now.
RecordApproval(a) ==
    LET s == op[a].stage
        said == op[a].basis
    IN  /\ At(a, {"approve"}, "bound")
        /\ MayAppend(a)
        /\ bound' = IF s \in Derived
                    THEN [bound EXCEPT ![s] =
                            [u \in Stages |-> IF said # None /\ said[u] # None
                                              THEN said[u] ELSE Sourced(s)[u]]]
                    ELSE bound
        /\ Finish(a)
        /\ UNCHANGED <<files, recorded, reported, finalized, answers, built>>

\* The daemon's requests judge one at a time.
Judge(a) ==
    LET s == op[a].stage
    IN  /\ At(a, {"validate"}, "asked")
        /\ a \in Requests => \A b \in Requests : op[b].at # "judged"
        /\ IF approved[s] # None THEN Go(a, "judged", approved[s], None) ELSE Finish(a)
        /\ UNCHANGED <<files, events, answers, built>>

Report(a) ==
    /\ At(a, {"validate"}, "judged")
    /\ MayAppend(a)
    /\ reported' = [reported EXCEPT ![op[a].stage] = op[a].text]
    /\ Finish(a)
    /\ UNCHANGED <<files, recorded, bound, finalized, answers, built>>

Assemble(a) ==
    /\ At(a, {"finalize"}, "asked")
    /\ IF Reported(Repair) /\ (op[a].over \/ (finalJson = None /\ finalMd = None))
       THEN Go(a, "assembled", approved[Repair], None)
       ELSE Finish(a)
    /\ UNCHANGED <<files, events, answers, built>>

WriteJson(a) ==
    /\ At(a, {"finalize"}, "assembled")
    /\ finalJson' = op[a].text
    /\ Go(a, "json", op[a].text, None)
    /\ UNCHANGED <<prompt, response, approved, finalMd, events, answers, built>>

WriteMarkdown(a) ==
    /\ At(a, {"finalize"}, "json")
    /\ finalMd' = op[a].text
    /\ Go(a, "markdown", None, None)
    /\ UNCHANGED <<prompt, response, approved, finalJson, events, answers, built>>

RecordFinal(a) ==
    /\ At(a, {"finalize"}, "markdown")
    /\ MayAppend(a)
    /\ finalized' = approved[Repair]
    /\ Finish(a)
    /\ UNCHANGED <<files, recorded, bound, reported, answers, built>>

\* The process dies, the lock is not to be had, a write fails, a provider
\* does not answer. A report whose event is missing counts for nothing.
Torn(a) == op[a].at \in {"written", "bound", "json", "markdown"}

Break(a) ==
    /\ op[a] # Idle
    /\ breaks > 0
    /\ breaks' = breaks - 1
    /\ op' = [op EXCEPT ![a] = Idle]
    /\ holder' = IF holder = a THEN None ELSE holder
    /\ orderly' = (orderly /\ ~Torn(a))
    /\ \/ UNCHANGED reported
       \/ /\ op[a].at = "judged" /\ MayAppend(a)
          /\ reported' = [reported EXCEPT ![op[a].stage] = None]
    /\ UNCHANGED <<files, recorded, bound, finalized, answers, built, meddling>>

-----------------------------------------------------------------------------
(* A new run, one that has come to the repair, one that has come to the    *)
(* end, and one of an earlier version, without a fact check. A draft may   *)
(* have been written anew since it was approved.                           *)

Beginnings == {{}, Stages \ {Repair}, Stages, Stages \ {Late}}

Init ==
    \E done \in Beginnings, redraft \in Texts :
        LET t == CHOOSE t \in Texts : TRUE
            text == [s \in Stages |-> IF s \in done THEN t ELSE None]
            basis == [s \in Stages |->
                        IF s \in done /\ s \in Derived
                        THEN [u \in Stages |-> IF u \in Sources[s] THEN text[u] ELSE None]
                        ELSE None]
        IN  /\ response = [text EXCEPT ![Draft] = IF Draft \in done THEN redraft ELSE None]
            /\ approved = text
            /\ prompt = basis /\ recorded = basis /\ bound = basis
            /\ answers = basis /\ built = basis
            /\ reported = [s \in Stages |-> IF s = Draft THEN text[s] ELSE None]
            /\ finalJson = None /\ finalMd = None /\ finalized = None
            /\ holder = None
            /\ op = [a \in Actors |-> Idle]
            /\ orderly = TRUE
            /\ meddling = MaxMeddling /\ breaks = MaxBreaks

Asked(a) ==
    \/ \E s \in Derived : Advance(a, s)
    \/ \E s \in Stages : Save(a, s) \/ Approve(a, s) \/ Validate(a, s)
    \/ Finalize(a)

Step(a) ==
    \/ Compile(a) \/ WritePrompt(a) \/ RecordPrompt(a)
    \/ Open(a) \/ SaveResponse(a)
    \/ ReadResponse(a) \/ WriteApproved(a) \/ BindSources(a) \/ RecordApproval(a)
    \/ Judge(a) \/ Report(a)
    \/ Assemble(a) \/ WriteJson(a) \/ WriteMarkdown(a) \/ RecordFinal(a)

Next ==
    \/ \E a \in Requests \cup Commands : Asked(a)
    \/ \E w \in Workers, s \in Stages : Admit(w, s)
    \/ \E a \in Actors : Step(a) \/ Break(a)

Spec == Init /\ [][Next]_vars

\* The reviewer goes on with the next action, running jobs for the responses,
\* and reapproves what has been run anew.
Followed ==
    LET next == NextAction
        s == next.stage
    IN  CASE next.do = "prompt" -> Advance(Reviewer, s)
          [] next.do = "save" -> \E w \in Workers : Admit(w, s)
          [] next.do = "approve" -> Approve(Reviewer, s)
          [] next.do = "validate" -> Validate(Reviewer, s)
          [] next.do = "finalize" -> Finalize(Reviewer)
          [] next.do = "done" -> FALSE

Reapproved ==
    LET s == NextAction.stage
    IN  Reapproval(s) /\ Approve(Reviewer, s)

FairSpec ==
    /\ Spec
    /\ WF_vars(Step(Reviewer))
    /\ WF_vars(\E a \in Actors \ {Reviewer} : Step(a))
    /\ WF_vars(Followed)
    /\ SF_vars(Reapproved)

-----------------------------------------------------------------------------
(* Properties.                                                             *)

Ats == {"idle", "asked", "queued", "compiled", "written", "read", "bound", "judged",
        "assembled", "json", "markdown"}

TypeOK ==
    /\ prompt \in [Stages -> Record] /\ recorded \in [Stages -> Record]
    /\ bound \in [Stages -> Record]
    /\ answers \in [Stages -> Record] /\ built \in [Stages -> Record]
    /\ response \in Embedding /\ approved \in Embedding /\ reported \in Embedding
    /\ finalJson \in Hash /\ finalMd \in Hash /\ finalized \in Hash
    /\ holder \in Commands \cup {None}
    /\ op \in [Actors -> [kind : {"idle", "prompt", "save", "run", "approve", "validate",
                                  "finalize"},
                          stage : Stages, at : Ats, text : Hash, basis : Record,
                          over : BOOLEAN]]
    /\ orderly \in BOOLEAN
    /\ meddling \in Nat /\ breaks \in Nat

Engaged(kind, s, ats) ==
    \E a \in Actors : op[a].kind = kind /\ op[a].stage = s /\ op[a].at \in ats

Approving(s) == Engaged("approve", s, {"written", "bound"})

\* An approved stage that was made from superseded sources reads as stale, and
\* one that reads as stale was not made from the sources that are approved.
StaleIsTrue ==
    orderly => \A s \in Derived :
        approved[s] # None /\ ~Approving(s) =>
            /\ built[s] # None /\ StaleBy(s, built[s], approved) => Stale(s)
            /\ Stale(s) => \E u \in Sources[s] : built[s] = None \/ built[s][u] # approved[u]

\* A run that is finalized has the guide of the approved repair.
FinalIsApproved ==
    orderly /\ Finalized /\ ~Engaged("finalize", Repair, Ats) =>
        finalJson = approved[Repair] /\ finalMd = approved[Repair]

\* A command never works on a run while a job of it is active.
CommandsSpared == holder # None => ~Busy

\* What an operation that works alone has found or written so far still is so.
InHand(a) ==
    LET s == op[a].stage
        kind == op[a].kind
        at == op[a].at
    IN  /\ kind = "prompt" /\ at = "compiled" => op[a].basis = Sourced(s)
        /\ kind = "prompt" /\ at = "written" => prompt[s] = Sourced(s)
        /\ kind = "approve" /\ at = "asked" => response[s] # None /\ answers[s] = prompt[s]
        /\ kind = "approve" /\ at = "read" => op[a].text # None /\ op[a].basis = prompt[s]
        /\ kind = "approve" /\ at \in {"written", "bound"} =>
               approved[s] # None /\ (s \in Derived => built[s] = prompt[s])
        /\ kind = "approve" /\ at = "bound" /\ s \in Derived => op[a].basis = recorded[s]
        /\ kind = "finalize" => s = Repair
        /\ kind = "finalize" /\ at \in {"assembled", "json"} => op[a].text = approved[Repair]
        /\ kind = "finalize" /\ at = "json" => finalJson = approved[Repair]
        /\ kind = "finalize" /\ at = "markdown" =>
               finalJson = approved[Repair] /\ finalMd = approved[Repair]

\* A hash that an event recorded is that of a stage that stays approved.
Known(said) == said # None => \A u \in Stages : said[u] # None => approved[u] # None

\* The binding of an approval keeps every hash of the prompt it was made from.
Keeps(binding, made) ==
    made # None =>
        /\ binding # None
        /\ \A u \in Stages : made[u] # None => binding[u] = made[u]

\* While the work is orderly one operation is under way, an event says what the
\* prompt of its stage embeds, an approval is bound to what its text was made
\* from, and the final files are those of the event.
StagesInv ==
    orderly =>
        /\ \A a, b \in Actors : op[a] # Idle /\ op[b] # Idle => a = b
        /\ \A a \in Actors : InHand(a)
        /\ \A s \in Stages : /\ Known(recorded[s]) /\ Known(bound[s])
                             /\ Engaged("prompt", s, {"written"}) \/ recorded[s] = prompt[s]
        /\ \A s \in Derived : Approving(s) \/ Keeps(bound[s], built[s])
        /\ \/ finalized = None
           \/ Engaged("finalize", Repair, {"json", "markdown"})
           \/ finalJson = finalized /\ finalMd = finalized

\* Whatever happened, following the next action completes the run.
Converges == <>[](NextAction.do = "done")
=============================================================================
