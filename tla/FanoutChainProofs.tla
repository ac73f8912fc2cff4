------------------------- MODULE FanoutChainProofs -------------------------
(***************************************************************************)
(* Proofs about FanoutChain. ChainInv is inductive; its parts are proved   *)
(* one lemma each, from the typing lemma up.                               *)
(***************************************************************************)
EXTENDS FanoutChain, FiniteSetTheorems, WellFoundedInduction, TLAPS

USE DEF Jobs, Units, Terminal, Outcome

\* The steps of an attempt that end it or move it without saving a job.
Quiet(f) == Guard(f) \/ Status(f) \/ Admit(f) \/ Check(f) \/ Select(f)

\* The typing of the fields EndWith touches.
LEMMA EndTypes ==
    ASSUME TypeOK, NEW f \in Attempts, NEW outcome \in Outcome,
           NEW saved \in BOOLEAN, EndWith(f, outcome, saved)
    PROVE  /\ pc' \in [Attempts -> {"idle", "guard", "status", "admit", "check",
                                    "select", "fanout", "answered"}]
           /\ kind' \in [Attempts -> {"none", "continue", "jobs", "hook"}]
           /\ force' \in [Attempts -> BOOLEAN]
           /\ want' \in [Attempts -> SUBSET Modules]
           /\ before' \in [Attempts -> SUBSET Units]
           /\ todo' \in [Attempts -> SUBSET Units]
           /\ cont' \in [Jobs -> {"none"} \cup Outcome]
           /\ chain' \in Jobs \cup {NoJob}
BY DEF TypeOK, EndWith

\* The units an attempt selects are units.
LEMMA SelectedUnits ==
    ASSUME TypeOK, NEW f \in Attempts
    PROVE  Selected(f) \in SUBSET Units
BY DEF TypeOK, Selected, Drafted

LEMMA Typing == TypeOK /\ [Next]_vars => TypeOK'
<1> SUFFICES ASSUME TypeOK, [Next]_vars PROVE TypeOK'
  OBVIOUS
<1>1. ASSUME NEW f \in Attempts, Continue(f) PROVE TypeOK'
  BY <1>1, ChainAssumption DEF TypeOK, Continue, Goto, disk
<1>2. ASSUME NEW f \in Attempts, NEW form \in Forms, PostJobs(f, form[1], form[2])
      PROVE  TypeOK'
  <2>1. form[1] \in BOOLEAN /\ form[2] \in SUBSET Modules
    BY ChainAssumption
  <2> QED BY <1>2, <2>1, ChainAssumption DEF TypeOK, PostJobs, Goto, disk
<1>3. ASSUME NEW f \in Attempts, Quiet(f) PROVE TypeOK'
  <2>1. \A b \in BOOLEAN : (Batch(f) # {}) \in BOOLEAN
    OBVIOUS
  <2>2. CASE Guard(f)
    BY <2>2, EndTypes DEF TypeOK, Guard, Goto, End
  <2>3. CASE Status(f)
    BY <2>3, EndTypes DEF TypeOK, Status, Goto, End
  <2>4. CASE Admit(f)
    <3>1. CASE Chained(f) /\ Drafted = Units
      BY <2>4, <3>1, EndTypes DEF TypeOK, Admit, End
    <3>2. CASE ~(Chained(f) /\ Drafted = Units)
      <4>1. Drafted \in SUBSET Units
        BY DEF Drafted
      <4> QED BY <2>4, <3>2, <4>1 DEF TypeOK, Admit, Goto
    <3> QED BY <3>1, <3>2
  <2>5. CASE Check(f)
    BY <2>5, EndTypes DEF TypeOK, Check, Goto, End
  <2>6. CASE Select(f)
    BY <2>6, EndTypes, SelectedUnits DEF TypeOK, Select, Goto, End
  <2> QED BY <1>3, <2>2, <2>3, <2>4, <2>5, <2>6 DEF Quiet
<1>4. ASSUME NEW f \in Attempts, NEW u \in Units, Save(f, u) PROVE TypeOK'
  <2>1. CASE Collides(u)
    BY <1>4, <2>1, EndTypes DEF TypeOK, Save, End
  <2>2. CASE ~Collides(u) /\ todo[f] = {u}
    <3>1. record' \in [Jobs -> {"none", "queued", "landed"} \cup Terminal]
      BY <1>4, <2>2 DEF TypeOK, Save
    <3>2. EndWith(f, "started", TRUE)
      BY <1>4, <2>2 DEF Save
    <3> QED BY <1>4, <3>1, <3>2, EndTypes DEF TypeOK, Save
  <2>3. CASE ~Collides(u) /\ todo[f] # {u}
    <3>1. record' \in [Jobs -> {"none", "queued", "landed"} \cup Terminal]
      BY <1>4, <2>3 DEF TypeOK, Save
    <3>2. todo' \in [Attempts -> SUBSET Units]
      BY <1>4, <2>3 DEF TypeOK, Save
    <3> QED BY <1>4, <2>3, <3>1, <3>2 DEF TypeOK, Save
  <2> QED BY <2>1, <2>2, <2>3
<1>5. ASSUME NEW f \in Attempts, NEW u \in Units, Run(f, u) PROVE TypeOK'
  <2>1. CASE Ingest(f, u)
    <3>1. record' \in [Jobs -> {"none", "queued", "landed"} \cup Terminal]
      <4>1. record' \in {[record EXCEPT ![<<f, u>>] = "landed"],
                        [record EXCEPT ![<<f, u>>] = "failed"]}
        BY <2>1 DEF Ingest
      <4> QED BY <4>1 DEF TypeOK
    <3>2. draftedBy' \in [Units -> Attempts \cup {NoAttempt}] /\ due' \in SUBSET Jobs
      <4>1. draftedBy' \in {draftedBy, [draftedBy EXCEPT ![u] = f]}
        BY <2>1 DEF Ingest
      <4>2. due' \in {due, due \cup {<<f, u>>}}
        BY <2>1 DEF Ingest
      <4> QED BY <4>1, <4>2 DEF TypeOK
    <3> QED BY <2>1, <3>1, <3>2 DEF TypeOK, Ingest, NoteEnd, attempts
  <2>2. CASE Fail(f, u)
    BY <2>2 DEF TypeOK, Fail, NoteEnd, attempts
  <2>3. CASE Finish(f, u)
    BY <2>3 DEF TypeOK, Finish, attempts
  <2> QED BY <1>5, <2>1, <2>2, <2>3 DEF Run
<1>6. ASSUME NEW j \in Jobs, Hook(j) PROVE TypeOK'
  <2>1. CASE HookReturns(j)
    BY <2>1 DEF TypeOK, HookReturns, attempts, disk
  <2>2. CASE HookFailed(j)
    BY <2>2 DEF TypeOK, HookFailed, attempts
  <2>3. ASSUME NEW f \in Attempts, HookContinues(j, f) PROVE TypeOK'
    BY <2>3 DEF TypeOK, HookContinues, disk, Goto
  <2> QED BY <1>6, <2>1, <2>2, <2>3 DEF Hook
<1>7. CASE UNCHANGED vars
  BY <1>7 DEF TypeOK, vars, attempts, disk
<1> QED BY <1>1, <1>2, <1>3, <1>4, <1>5, <1>6, <1>7 DEF Next, Step, Quiet

-----------------------------------------------------------------------------
\* What the groups of steps do.

\* The end of an attempt moves the chain's job to those that have continued
\* and touches no other attempt.
LEMMA EndEffect ==
    ASSUME TypeOK, NEW f \in Attempts, NEW outcome \in Outcome \ {"failed"},
           NEW saved \in BOOLEAN, EndWith(f, outcome, saved)
    PROVE  /\ pc'[f] = IF saved THEN "answered" ELSE "idle"
           /\ \A g \in Attempts \ {f} : pc'[g] = pc[g] /\ todo'[g] = todo[g]
           /\ \A j \in Jobs : cont'[j] # "none" \/ chain' = j
                               => cont[j] # "none" \/ chain = j
           /\ \A j \in Jobs : cont'[j] # cont[j] => chain = j /\ cont'[j] # "failed"
           /\ \A j \in Jobs : chain' = j => chain = j
<1>1. /\ pc'[f] = IF saved THEN "answered" ELSE "idle"
      /\ \A g \in Attempts \ {f} : pc'[g] = pc[g] /\ todo'[g] = todo[g]
  BY DEF TypeOK, EndWith
<1>2. CASE kind[f] = "hook"
  <2>1. cont' = [cont EXCEPT ![chain] = outcome] /\ chain' = NoJob
    BY <1>2 DEF EndWith
  <2>2. \A j \in Jobs : cont'[j] # cont[j] => chain = j /\ cont'[j] = outcome
    BY <2>1 DEF TypeOK
  <2>3. NoJob \notin Jobs
    BY ChainAssumption
  <2> QED BY <1>1, <2>1, <2>2, <2>3
<1>3. CASE kind[f] # "hook"
  <2>1. UNCHANGED <<cont, chain>>
    BY <1>3 DEF EndWith
  <2> QED BY <1>1, <2>1
<1> QED BY <1>2, <1>3

\* A quiet step saves nothing and leaves the other attempts alone; the slot is
\* free again only when the attempt is over.
LEMMA QuietEffect ==
    ASSUME TypeOK, Fresh, NEW f \in Attempts, Quiet(f)
    PROVE  /\ UNCHANGED <<record, due, draftedBy>>
           /\ pc[f] \notin {"fanout", "answered"} /\ pc'[f] # "answered"
           /\ \A g \in Attempts \ {f} : pc'[g] = pc[g] /\ todo'[g] = todo[g]
           /\ todo'[f] \in SUBSET Units
           /\ \A j \in Jobs : cont'[j] # "none" \/ chain' = j
                               => cont[j] # "none" \/ chain = j
           /\ \A j \in Jobs : cont'[j] # cont[j] => chain = j /\ cont'[j] # "failed"
           /\ \A j \in Jobs : chain' = j => chain = j
<1>0. TypeOK'
  <2>1. [Next]_vars
    BY DEF Next, Step, Quiet
  <2> QED BY <2>1, Typing
<1>1. pc[f] \in {"guard", "status", "admit", "check", "select"}
  BY DEF Quiet, Guard, Status, Admit, Check, Select
<1>2. Batch(f) = {}
  BY <1>1 DEF Fresh, Batch
<1>3. UNCHANGED <<record, due, draftedBy>>
  BY DEF Quiet, Guard, Status, Admit, Check, Select
<1>4. CASE \E outcome \in Outcome \ {"failed"} : End(f, outcome)
  <2>1. PICK outcome \in Outcome \ {"failed"} : EndWith(f, outcome, FALSE)
    BY <1>2, <1>4 DEF End
  <2> QED BY <2>1, <1>0, <1>1, <1>3, EndEffect DEF TypeOK
<1>5. CASE /\ \E l \in {"status", "admit", "check", "select", "fanout"} : Goto(f, l)
           /\ UNCHANGED <<cont, chain>>
           /\ \A g \in Attempts \ {f} : todo'[g] = todo[g]
  BY <1>0, <1>1, <1>3, <1>5 DEF TypeOK, Goto
<1>6. \/ \E outcome \in Outcome \ {"failed"} : End(f, outcome)
      \/ /\ \E l \in {"status", "admit", "check", "select", "fanout"} : Goto(f, l)
         /\ UNCHANGED <<cont, chain>>
         /\ \A g \in Attempts \ {f} : todo'[g] = todo[g]
  <2>1. CASE Guard(f)
    BY <2>1 DEF Guard
  <2>2. CASE Status(f)
    BY <2>2 DEF Status
  <2>3. CASE Admit(f)
    BY <2>3 DEF Admit
  <2>4. CASE Check(f)
    BY <2>4 DEF Check
  <2>5. CASE Select(f)
    BY <2>5 DEF Select, TypeOK
  <2> QED BY <2>1, <2>2, <2>3, <2>4, <2>5 DEF Quiet
<1> QED BY <1>4, <1>5, <1>6

\* Saving a job: either the attempt is refused, or a record that had no job
\* becomes queued and nothing of its unit was live.
LEMMA SaveEffect ==
    ASSUME TypeOK, Fresh, NEW f \in Attempts, NEW u \in Units, Save(f, u)
    PROVE  /\ UNCHANGED <<due, draftedBy>>
           /\ pc[f] = "fanout" /\ record[<<f, u>>] = "none"
           /\ record' = record \/ ~Collides(u)
           /\ record'[<<f, u>>] \in {"none", "queued"}
           /\ \A j \in Jobs : j # <<f, u>> => record'[j] = record[j]
           /\ \A g \in Attempts \ {f} : pc'[g] = pc[g] /\ todo'[g] = todo[g]
           /\ pc'[f] = "fanout" => todo'[f] = todo[f] \ {u}
           /\ pc'[f] \notin {"fanout", "answered"} =>
                  record' = record /\ Batch(f) = {}
           /\ \A j \in Jobs : cont'[j] # "none" \/ chain' = j
                               => cont[j] # "none" \/ chain = j
           /\ \A j \in Jobs : cont'[j] # cont[j] => chain = j /\ cont'[j] # "failed"
           /\ \A j \in Jobs : chain' = j => chain = j
<1>1. pc[f] = "fanout" /\ record[<<f, u>>] = "none" /\ UNCHANGED <<due, draftedBy>>
  BY DEF Save, Fresh
<1>a. /\ record'[<<f, u>>] \in {"none", "queued"}
      /\ \A j \in Jobs : j # <<f, u>> => record'[j] = record[j]
  <2>1. record' \in {record, [record EXCEPT ![<<f, u>>] = "queued"]}
    BY DEF Save
  <2> QED BY <1>1, <2>1 DEF TypeOK
<1>2. CASE Collides(u)
  <2>1. EndWith(f, "refused", Batch(f) # {}) /\ record' = record
    BY <1>2 DEF Save, End
  <2>2. (Batch(f) # {}) \in BOOLEAN /\ "refused" \in Outcome \ {"failed"}
    OBVIOUS
  <2> HIDE DEF Outcome
  <2> QED BY <1>1, <1>a, <2>1, <2>2, EndEffect
<1>3. CASE ~Collides(u) /\ todo[f] = {u}
  <2>1. EndWith(f, "started", TRUE)
        /\ record' = [record EXCEPT ![<<f, u>>] = "queued"]
    BY <1>3 DEF Save
  <2>2. "started" \in Outcome \ {"failed"}
    OBVIOUS
  <2> HIDE DEF Outcome
  <2> QED BY <1>1, <1>a, <1>3, <2>1, <2>2, EndEffect
<1>4. CASE ~Collides(u) /\ todo[f] # {u}
  BY <1>1, <1>a, <1>4 DEF Save, TypeOK
<1> QED BY <1>2, <1>3, <1>4

\* What saving a job leaves alone.
LEMMA SaveOthers ==
    ASSUME TypeOK, Fresh, NEW f \in Attempts, NEW u \in Units, Save(f, u)
    PROVE  /\ \A j \in Jobs : j # <<f, u>> => record'[j] = record[j]
           /\ \A g \in Attempts \ {f} : pc'[g] = pc[g]
<1>1. \A j \in Jobs : j # <<f, u>> => record'[j] = record[j]
  BY SaveEffect, ZenonT(60)
<1>2. \A g \in Attempts \ {f} : pc'[g] = pc[g] /\ todo'[g] = todo[g]
  BY SaveEffect, Zenon
<1> QED BY <1>1, <1>2

\* Running a job: a live record moves on, and only a terminal one is due.
LEMMA RunEffect ==
    ASSUME TypeOK, NEW f \in Attempts, NEW u \in Units, Run(f, u)
    PROVE  /\ UNCHANGED <<pc, todo, cont, chain>>
           /\ pc[f] = "answered" \/ early' \/ record[<<f, u>>] = "landed"
           /\ record[<<f, u>>] \in {"queued", "landed"}
           /\ record'[<<f, u>>] \in {"landed", "failed", "succeeded"}
           /\ \A j \in Jobs : j # <<f, u>> => record'[j] = record[j]
           /\ due' \in {due, due \cup {<<f, u>>}}
           /\ record'[<<f, u>>] = "landed" => due' = due
<1>0. <<f, u>> \in Jobs
  OBVIOUS
<1>1. CASE Ingest(f, u)
  <2>0. pc[f] = "answered" \/ early'
    BY <1>1 DEF Ingest, NoteEnd
  <2>1. CASE draftedBy[u] = NoAttempt \/ force[f]
    BY <1>0, <1>1, <2>0, <2>1 DEF TypeOK, Ingest, attempts
  <2>2. CASE ~(draftedBy[u] = NoAttempt \/ force[f])
    BY <1>0, <1>1, <2>0, <2>2 DEF TypeOK, Ingest, attempts
  <2> QED BY <2>1, <2>2
<1>2. CASE Fail(f, u)
  BY <1>0, <1>2 DEF TypeOK, Fail, NoteEnd, attempts
<1>3. CASE Finish(f, u)
  BY <1>0, <1>3 DEF TypeOK, Finish, attempts
<1> QED BY <1>1, <1>2, <1>3 DEF Run

\* A hook saves no job record. It takes the chain lock, or records a failure,
\* only for a job whose batch may continue.
LEMMA HookEffect ==
    ASSUME TypeOK, NEW j \in Jobs, Hook(j)
    PROVE  /\ UNCHANGED <<record, draftedBy, todo>>
           /\ j \in due /\ due' \in SUBSET due
           /\ chain = NoJob
           /\ \A g \in Attempts : pc'[g] = pc[g] \/ (pc[g] = "idle" /\ pc'[g] = "guard")
           /\ \/ UNCHANGED <<cont, chain>>
              \/ /\ MayContinue(j[1]) /\ Failed(j[1])
                 /\ cont' = [cont EXCEPT ![j] = "failed"] /\ chain' = chain
              \/ /\ MayContinue(j[1]) /\ ~Failed(j[1])
                 /\ cont' = cont /\ chain' = j
<1>1. CASE HookReturns(j)
  BY <1>1 DEF HookReturns, attempts, disk
<1>2. CASE HookFailed(j)
  BY <1>2 DEF HookFailed, attempts
<1>3. ASSUME NEW f \in Attempts, HookContinues(j, f)
      PROVE  /\ UNCHANGED <<record, draftedBy, todo>>
             /\ j \in due /\ due' \in SUBSET due
             /\ chain = NoJob
             /\ \A g \in Attempts : pc'[g] = pc[g] \/ (pc[g] = "idle" /\ pc'[g] = "guard")
             /\ MayContinue(j[1]) /\ ~Failed(j[1])
             /\ cont' = cont /\ chain' = j
  BY <1>3 DEF HookContinues, disk, Goto, Free, TypeOK
<1> QED BY <1>1, <1>2, <1>3 DEF Hook

\* A request only takes a free slot.
LEMMA RequestEffect ==
    ASSUME TypeOK, NEW f \in Attempts,
           Continue(f) \/ \E form \in Forms : PostJobs(f, form[1], form[2])
    PROVE  /\ UNCHANGED <<record, draftedBy, todo, due, cont, chain>>
           /\ \A g \in Attempts : pc'[g] = pc[g]
                                \/ (pc[g] = "idle" /\ pc'[g] \in {"guard", "admit"})
BY DEF TypeOK, Continue, PostJobs, Goto, Free, disk

\* Next, by group.
LEMMA Groups ==
    ASSUME [Next]_vars
    PROVE  \/ \E f \in Attempts : \/ Continue(f)
                               \/ \E form \in Forms : PostJobs(f, form[1], form[2])
           \/ \E f \in Attempts : Quiet(f)
           \/ \E f \in Attempts, u \in Units : Save(f, u)
           \/ \E f \in Attempts, u \in Units : Run(f, u)
           \/ \E j \in Jobs : Hook(j)
           \/ UNCHANGED vars
BY DEF Next, Step, Quiet

\* An early end is never forgotten.
LEMMA EarlyStays == [Next]_vars /\ ~early' => ~early
<1> SUFFICES ASSUME [Next]_vars, early PROVE early'
  OBVIOUS
<1>1. ASSUME NEW f \in Attempts,
             Continue(f) \/ \E form \in Forms : PostJobs(f, form[1], form[2])
      PROVE  early'
  BY <1>1 DEF Continue, PostJobs
<1>2. ASSUME NEW f \in Attempts, Quiet(f) PROVE early'
  BY <1>2 DEF Quiet, Guard, Status, Admit, Check, Select
<1>3. ASSUME NEW f \in Attempts, NEW u \in Units, Save(f, u) PROVE early'
  BY <1>3 DEF Save
<1>4. ASSUME NEW f \in Attempts, NEW u \in Units, Run(f, u) PROVE early'
  BY <1>4 DEF Run, Ingest, Fail, Finish, NoteEnd
<1>5. ASSUME NEW j \in Jobs, Hook(j) PROVE early'
  BY <1>5 DEF Hook, HookReturns, HookFailed, HookContinues
<1>6. CASE UNCHANGED vars
  BY <1>6 DEF vars
<1> QED BY <1>1, <1>2, <1>3, <1>4, <1>5, <1>6, Groups

-----------------------------------------------------------------------------
\* The parts of the invariant.

LEMMA FreshKept == TypeOK /\ Fresh /\ [Next]_vars => Fresh'
<1> SUFFICES ASSUME TypeOK, Fresh, [Next]_vars PROVE Fresh'
  OBVIOUS
<1>0. TypeOK'
  BY Typing
<1>1. ASSUME NEW f \in Attempts,
             Continue(f) \/ \E form \in Forms : PostJobs(f, form[1], form[2])
      PROVE  Fresh'
  BY <1>1, RequestEffect DEF Fresh
<1>2. ASSUME NEW f \in Attempts, Quiet(f) PROVE Fresh'
  BY <1>2, QuietEffect DEF Fresh
<1>3. ASSUME NEW f \in Attempts, NEW u \in Units, Save(f, u) PROVE Fresh'
  <2>0. \A j \in Jobs : j # <<f, u>> => record'[j] = record[j]
    BY <1>3, SaveEffect, ZenonT(60)
  <2>1. \A g \in Attempts \ {f} : \A v \in Units : record'[<<g, v>>] = record[<<g, v>>]
    BY <2>0
  <2>2. \A v \in Units \ {u} : record'[<<f, v>>] = record[<<f, v>>]
    BY <2>0
  <2>3. pc'[f] \notin {"fanout", "answered"} =>
            \A v \in Units : record'[<<f, v>>] = "none"
    <3>0. pc'[f] \notin {"fanout", "answered"} => record' = record /\ Batch(f) = {}
      BY <1>3, SaveEffect
    <3>1. SUFFICES ASSUME record' = record, Batch(f) = {}, NEW v \in Units
                   PROVE  record[<<f, v>>] = "none"
      BY <3>0
    <3>2. <<f, v>> \in Jobs /\ <<f, v>>[1] = f
      OBVIOUS
    <3> QED BY <3>1, <3>2 DEF Batch
  <2>4. pc'[f] = "fanout" => \A v \in todo'[f] : record'[<<f, v>>] = "none"
    <3>1. SUFFICES ASSUME pc'[f] = "fanout", NEW v \in todo'[f]
                   PROVE  record'[<<f, v>>] = "none"
      OBVIOUS
    <3>2. todo'[f] = todo[f] \ {u} /\ pc[f] = "fanout"
      BY <1>3, <3>1, SaveEffect
    <3>3. v \in todo[f] /\ v \in Units /\ v # u
      BY <3>2 DEF TypeOK
    <3> QED BY <2>2, <3>2, <3>3 DEF Fresh
  <2>5. \A g \in Attempts \ {f} : pc'[g] = pc[g] /\ todo'[g] = todo[g]
    BY <1>3, SaveEffect
  <2>6. \A g \in Attempts : todo[g] \in SUBSET Units
    BY DEF TypeOK
  <2> QED BY <2>1, <2>3, <2>4, <2>5, <2>6 DEF Fresh
<1>4. ASSUME NEW f \in Attempts, NEW u \in Units, Run(f, u) PROVE Fresh'
  <2>1. \A g \in Attempts, v \in Units :
            record[<<g, v>>] = "none" => record'[<<g, v>>] = "none"
    <3> SUFFICES ASSUME NEW g \in Attempts, NEW v \in Units, record[<<g, v>>] = "none"
                 PROVE  record'[<<g, v>>] = "none"
      OBVIOUS
    <3>1. <<g, v>> \in Jobs
      OBVIOUS
    <3>2. <<g, v>> # <<f, u>>
      BY <1>4, RunEffect
    <3> QED BY <1>4, <3>1, <3>2, RunEffect
  <2>2. UNCHANGED <<pc, todo>>
    BY <1>4, RunEffect
  <2>3. \A g \in Attempts : todo[g] \in SUBSET Units
    BY DEF TypeOK
  <2> QED BY <2>1, <2>2, <2>3 DEF Fresh
<1>5. ASSUME NEW j \in Jobs, Hook(j) PROVE Fresh'
  BY <1>5, HookEffect DEF Fresh
<1>6. CASE UNCHANGED vars
  BY <1>6 DEF Fresh, vars, attempts, disk
<1> QED BY <1>1, <1>2, <1>3, <1>4, <1>5, <1>6, Groups

LEMMA OneLiveKept ==
    TypeOK /\ Fresh /\ OneLivePerUnit /\ [Next]_vars => OneLivePerUnit'
<1> SUFFICES ASSUME TypeOK, Fresh, OneLivePerUnit, [Next]_vars PROVE OneLivePerUnit'
  OBVIOUS
<1>1. CASE record' = record
  BY <1>1 DEF OneLivePerUnit, Live
<1>2. ASSUME NEW f \in Attempts, NEW u \in Units, Save(f, u), record' # record
      PROVE  OneLivePerUnit'
  <2>1. ~Collides(u)
    BY <1>2, SaveEffect
  <2>2. \A k \in Live : k[2] # u
    BY <2>1 DEF Collides
  <2>3. Live' \subseteq Live \cup {<<f, u>>}
    <3>1. \A j \in Jobs : j # <<f, u>> => record'[j] = record[j]
      BY <1>2, SaveEffect, ZenonT(60)
    <3> QED BY <3>1 DEF Live
  <2>4. <<f, u>>[2] = u
    OBVIOUS
  <2> QED BY <2>2, <2>3, <2>4 DEF OneLivePerUnit
<1>3. ASSUME NEW f \in Attempts, NEW u \in Units, Run(f, u) PROVE OneLivePerUnit'
  <2>1. Live' \subseteq Live
    BY <1>3, RunEffect DEF Live, TypeOK
  <2> QED BY <2>1 DEF OneLivePerUnit
<1> QED BY <1>1, <1>2, <1>3, Groups, RequestEffect, QuietEffect, HookEffect
        DEF vars, disk

LEMMA SettledKept == TypeOK /\ Fresh /\ Settled /\ [Next]_vars => Settled'
<1> SUFFICES ASSUME TypeOK, Fresh, Settled, [Next]_vars PROVE Settled'
  OBVIOUS
<1>1. ASSUME NEW f \in Attempts,
             Continue(f) \/ \E form \in Forms : PostJobs(f, form[1], form[2])
      PROVE  Settled'
  BY <1>1, RequestEffect DEF Settled
<1>2. ASSUME NEW f \in Attempts, Quiet(f) PROVE Settled'
  BY <1>2, QuietEffect DEF Settled
<1>3. ASSUME NEW f \in Attempts, NEW u \in Units, Save(f, u) PROVE Settled'
  <2>1. \A j \in Jobs : j # <<f, u>> => record'[j] = record[j]
    BY <1>3, SaveEffect, ZenonT(60)
  <2>2. record[<<f, u>>] = "none"
    BY <1>3, SaveEffect
  <2>3. \A j \in Jobs : record[j] \in Terminal => record'[j] = record[j]
    BY <2>1, <2>2
  <2>4. \A j \in Jobs : cont'[j] # "none" \/ chain' = j
                     => cont[j] # "none" \/ chain = j
    BY <1>3, SaveEffect
  <2>5. due' = due
    BY <1>3, SaveEffect
  <2> QED BY <2>3, <2>4, <2>5 DEF Settled
<1>4. ASSUME NEW f \in Attempts, NEW u \in Units, Run(f, u) PROVE Settled'
  <2>1. due' \in {due, due \cup {<<f, u>>}}
    BY <1>4, RunEffect
  <2>2. \A j \in Jobs : record[j] \in Terminal => record'[j] = record[j]
    BY <1>4, RunEffect
  <2>3. <<f, u>> \in due' => <<f, u>> \in due \/ record'[<<f, u>>] \in Terminal
    BY <1>4, RunEffect
  <2> QED BY <1>4, <2>1, <2>2, <2>3, RunEffect DEF Settled
<1>5. ASSUME NEW j \in Jobs, Hook(j) PROVE Settled'
  <2>1. \A k \in Jobs : cont'[k] # cont[k] => k = j
    BY <1>5, HookEffect DEF TypeOK
  <2> QED BY <1>5, <2>1, HookEffect DEF Settled
<1>6. CASE UNCHANGED vars
  BY <1>6 DEF Settled, vars, attempts, disk
<1> QED BY <1>1, <1>2, <1>3, <1>4, <1>5, <1>6, Groups

LEMMA ContinuedKept ==
    TypeOK /\ Fresh /\ Settled /\ ContinuedOnce /\ [Next]_vars => ContinuedOnce'
<1> SUFFICES ASSUME TypeOK, Fresh, Settled, ContinuedOnce, [Next]_vars
             PROVE  ContinuedOnce'
  OBVIOUS
<1> DEFINE Spoken(j) == cont[j] # "none" \/ chain = j
<1>1. CASE \A j \in Jobs : cont'[j] # "none" \/ chain' = j => Spoken(j)
  BY <1>1 DEF ContinuedOnce
<1>2. ASSUME NEW j \in Jobs, Hook(j) PROVE ContinuedOnce'
  <2>1. CASE UNCHANGED <<cont, chain>>
    BY <1>1, <2>1
  <2>2. CASE MayContinue(j[1])
    <3>1. \A k \in Jobs : k[1] = j[1] => cont[k] = "none"
      BY <2>2 DEF MayContinue, Batch, Settled
    <3>2. chain = NoJob /\ NoJob \notin Jobs
      BY <1>2, HookEffect, ChainAssumption
    <3>3. \A k \in Jobs : cont'[k] # "none" \/ chain' = k => k = j \/ cont[k] # "none"
      BY <1>2, <3>2, HookEffect DEF TypeOK
    <3> QED BY <3>1, <3>3 DEF ContinuedOnce
  <2> QED BY <1>2, <2>1, <2>2, HookEffect
<1> QED BY <1>1, <1>2, Groups, RequestEffect, QuietEffect, SaveEffect, RunEffect
        DEF vars, disk

\* A saved batch whose jobs are all terminal no longer changes.
LEMMA BatchStable ==
    ASSUME TypeOK, Fresh, [Next]_vars, NEW f \in Attempts, pc[f] = "answered",
           \A k \in Batch(f) : record[k] \in Terminal
    PROVE  /\ pc'[f] = "answered"
           /\ \A k \in Jobs : k[1] = f => record'[k] = record[k]
           /\ Batch(f)' = Batch(f)
           /\ Failed(f)' = Failed(f)
<1>1. /\ pc'[f] = "answered"
      /\ \A k \in Jobs : k[1] = f => record'[k] = record[k]
  <2>1. ASSUME NEW g \in Attempts,
               Continue(g) \/ \E form \in Forms : PostJobs(g, form[1], form[2])
        PROVE  <1>1!:
    BY <2>1, RequestEffect
  <2>2. ASSUME NEW g \in Attempts, Quiet(g) PROVE <1>1!:
    <3>1. g # f
      BY <2>2, QuietEffect
    <3> QED BY <2>2, <3>1, QuietEffect
  <2>3. ASSUME NEW g \in Attempts, NEW u \in Units, Save(g, u) PROVE <1>1!:
    <3>1. pc[g] = "fanout"
      BY <2>3, SaveEffect
    <3>2. \A k \in Jobs : k # <<g, u>> => record'[k] = record[k]
      BY <2>3, SaveOthers
    <3>3. \A h \in Attempts \ {g} : pc'[h] = pc[h]
      BY <2>3, SaveOthers
    <3> QED BY <3>1, <3>2, <3>3
  <2>4. ASSUME NEW g \in Attempts, NEW u \in Units, Run(g, u) PROVE <1>1!:
    <3>1. pc' = pc /\ record[<<g, u>>] \in {"queued", "landed"}
      BY <2>4, RunEffect
    <3>2. \A k \in Jobs : k # <<g, u>> => record'[k] = record[k]
      BY <2>4, RunEffect
    <3>3. \A k \in Jobs : k[1] = f => record[k] \in Terminal \cup {"none"}
      BY DEF Batch
    <3> QED BY <3>1, <3>2, <3>3
  <2>5. ASSUME NEW j \in Jobs, Hook(j) PROVE <1>1!:
    BY <2>5, HookEffect
  <2>6. CASE UNCHANGED vars
    BY <2>6 DEF vars, attempts, disk
  <2> QED BY <2>1, <2>2, <2>3, <2>4, <2>5, <2>6, Groups
<1>2. Batch(f)' = Batch(f)
  BY <1>1 DEF Batch
<1>3. \A k \in Batch(f) : record'[k] = record[k]
  BY <1>1 DEF Batch
<1>4. Failed(f)' = Failed(f)
  BY <1>2, <1>3 DEF Failed
<1> QED BY <1>1, <1>2, <1>4

LEMMA UnhurriedKept ==
    TypeOK /\ Fresh /\ Settled /\ Unhurried /\ [Next]_vars => Unhurried'
<1> SUFFICES ASSUME TypeOK, Fresh, Settled, Unhurried, [Next]_vars, ~early'
             PROVE  Unhurried'
  BY DEF Unhurried
<1>0. ~early
  BY EarlyStays
<1> DEFINE Far(f, u) == record[<<f, u>>] \in {"landed"} \cup Terminal
<1>1. ASSUME NEW f \in Attempts, NEW u \in Units, Far(f, u)'
      PROVE  pc'[f] = "answered"
  <2>0. \A g \in Attempts, v \in Units : Far(g, v) => pc[g] = "answered"
    BY <1>0 DEF Unhurried
  <2>1. CASE pc'[f] = pc[f] /\ record'[<<f, u>>] = record[<<f, u>>]
    BY <1>1, <2>0, <2>1
  <2>2. ASSUME NEW g \in Attempts,
               Continue(g) \/ \E form \in Forms : PostJobs(g, form[1], form[2])
        PROVE  pc'[f] = "answered"
    BY <1>1, <2>0, <2>2, RequestEffect
  <2>3. ASSUME NEW g \in Attempts, Quiet(g) PROVE pc'[f] = "answered"
    <3>1. record' = record /\ pc[g] \notin {"answered"}
          /\ \A h \in Attempts \ {g} : pc'[h] = pc[h]
      BY <2>3, QuietEffect
    <3> QED BY <1>1, <2>0, <3>1
  <2>4. ASSUME NEW g \in Attempts, NEW v \in Units, Save(g, v)
        PROVE  pc'[f] = "answered"
    <3>1. pc[g] = "fanout" /\ record'[<<g, v>>] \in {"none", "queued"}
      BY <2>4, SaveEffect
    <3>2. \A k \in Jobs : k # <<g, v>> => record'[k] = record[k]
      BY <2>4, SaveOthers
    <3>3. \A h \in Attempts \ {g} : pc'[h] = pc[h]
      BY <2>4, SaveOthers
    <3> QED BY <1>1, <2>0, <3>1, <3>2, <3>3
  <2>5. ASSUME NEW g \in Attempts, NEW v \in Units, Run(g, v)
        PROVE  pc'[f] = "answered"
    <3>1. pc' = pc /\ (pc[g] = "answered" \/ record[<<g, v>>] = "landed")
      BY <2>5, RunEffect
    <3>2. pc[g] = "answered"
      BY <2>0, <3>1
    <3>3. \A k \in Jobs : k # <<g, v>> => record'[k] = record[k]
      BY <2>5, RunEffect
    <3> QED BY <1>1, <2>0, <3>1, <3>2, <3>3
  <2>6. ASSUME NEW j \in Jobs, Hook(j) PROVE pc'[f] = "answered"
    BY <1>1, <2>0, <2>6, HookEffect
  <2>7. CASE UNCHANGED vars
    BY <2>1, <2>7 DEF vars, attempts, disk
  <2> QED BY <2>2, <2>3, <2>4, <2>5, <2>6, <2>7, Groups
<1>2. ASSUME NEW j \in Jobs, chain' = j
      PROVE  (~Failed(j[1]) /\ \A k \in Batch(j[1]) : record[k] \in Terminal)'
  <2>1. CASE chain = j
    <3>1. record[j] \in Terminal
      BY <2>1 DEF Settled
    <3>2. pc[j[1]] = "answered"
      BY <1>0, <3>1 DEF Unhurried
    <3>3. ~Failed(j[1]) /\ \A k \in Batch(j[1]) : record[k] \in Terminal
      BY <1>0, <2>1 DEF Unhurried
    <3>4. /\ \A k \in Jobs : k[1] = j[1] => record'[k] = record[k]
          /\ Batch(j[1])' = Batch(j[1]) /\ Failed(j[1])' = Failed(j[1])
      BY <3>2, <3>3, BatchStable
    <3>5. \A k \in Batch(j[1]) : record'[k] = record[k]
      BY <3>4 DEF Batch
    <3> QED BY <3>3, <3>4, <3>5
  <2>2. CASE chain # j
    <3>1. PICK i \in Jobs : Hook(i)
      <4>1. (\A k \in Jobs : chain' = k => chain = k) \/ \E i \in Jobs : Hook(i)
        BY Groups, RequestEffect, QuietEffect, SaveEffect, RunEffect DEF vars
      <4> QED BY <1>2, <2>2, <4>1
    <3>2. record' = record /\ i = j /\ MayContinue(j[1]) /\ ~Failed(j[1])
      BY <1>2, <2>2, <3>1, HookEffect
    <3> QED BY <3>2 DEF MayContinue, Failed, Batch
  <2> QED BY <2>1, <2>2
<1> QED BY <1>1, <1>2 DEF Unhurried

LEMMA FromLastKept ==
    /\ TypeOK /\ Fresh /\ Settled /\ Unhurried /\ ChainFromLast
    /\ ~early' /\ [Next]_vars
    => ChainFromLast'
<1> SUFFICES ASSUME TypeOK, Fresh, Settled, Unhurried, ChainFromLast, ~early',
                    [Next]_vars, NEW j \in Jobs, cont'[j] # "none"
             PROVE  (/\ pc[j[1]] = "answered"
                     /\ \A k \in Batch(j[1]) : record[k] \in Terminal
                     /\ (cont[j] = "failed") <=> Failed(j[1]))'
  BY DEF ChainFromLast
<1>0. ~early
  BY EarlyStays
<1>1. /\ pc[j[1]] = "answered"
      /\ \A k \in Batch(j[1]) : record[k] \in Terminal
      /\ (cont'[j] = "failed") <=> Failed(j[1])
  <2>1. CASE cont'[j] = cont[j]
    BY <2>1 DEF ChainFromLast
  <2>2. CASE cont'[j] # cont[j] /\ chain = j /\ cont'[j] # "failed"
    BY <1>0, <2>2 DEF Unhurried, Settled
  <2>3. ASSUME NEW i \in Jobs, Hook(i), cont'[j] # cont[j]
        PROVE  <1>1!:
    <3>1. MayContinue(i[1]) /\ Failed(i[1]) /\ cont' = [cont EXCEPT ![i] = "failed"]
      BY <2>3, HookEffect
    <3>2. i = j /\ cont'[j] = "failed"
      BY <2>3, <3>1 DEF TypeOK
    <3>3. record[j] \in Terminal
      BY <2>3, <3>2, HookEffect DEF Settled
    <3>4. pc[j[1]] = "answered"
      BY <1>0, <3>3 DEF Unhurried
    <3> QED BY <3>1, <3>2, <3>4 DEF MayContinue
  <2>4. \/ cont'[j] = cont[j]
        \/ chain = j /\ cont'[j] # "failed"
        \/ \E i \in Jobs : Hook(i)
    BY Groups, RequestEffect, QuietEffect, SaveEffect, RunEffect DEF vars, disk
  <2> QED BY <2>1, <2>2, <2>3, <2>4
<1>2. /\ pc'[j[1]] = "answered"
      /\ \A k \in Jobs : k[1] = j[1] => record'[k] = record[k]
      /\ Batch(j[1])' = Batch(j[1]) /\ Failed(j[1])' = Failed(j[1])
  BY <1>1, BatchStable
<1>3. \A k \in Batch(j[1]) : record'[k] = record[k]
  BY <1>2 DEF Batch
<1> QED BY <1>1, <1>2, <1>3

-----------------------------------------------------------------------------
\* The invariant and what follows from it.

LEMMA Initially == Init => ChainInv
<1>1. Init => TypeOK
  <2>1. Init => early \in BOOLEAN
    BY DEF Init
  <2> QED BY <2>1, ChainAssumption DEF Init, TypeOK
<1> QED
  BY <1>1, ChainAssumption
  DEF Init, ChainInv, OneLivePerUnit, ContinuedOnce, Fresh, Settled, Unhurried,
      LastUnlessEarly, ChainFromLast, Live, Batch

\* ChainInv is an invariant for any number of modules, requests and slots,
\* whether or not jobs may end while their fan-out is being saved.
THEOREM ChainInvariance == Spec => []ChainInv
<1>1. ChainInv /\ [Next]_vars => ChainInv'
  BY Typing, FreshKept, OneLiveKept, SettledKept, ContinuedKept, UnhurriedKept,
     FromLastKept, EarlyStays DEF ChainInv, LastUnlessEarly
<1> QED BY <1>1, Initially, PTL DEF Spec

\* No two live jobs draft the same unit, whatever requests and hooks race.
THEOREM NoDoubleDraft == Spec => []OneLivePerUnit
<1>1. ChainInv => OneLivePerUnit
  BY DEF ChainInv
<1> QED BY <1>1, ChainInvariance, PTL

\* A batch continues its run at most once.
THEOREM ContinuesOnce == Spec => []ContinuedOnce
<1>1. ChainInv => ContinuedOnce
  BY DEF ChainInv
<1> QED BY <1>1, ChainInvariance, PTL

\* When no job ends before its fan-out is saved, a batch continues from its
\* last job and reports its failures: an early end is the only thing that can
\* break what continue_after_job promises.
THEOREM FromLast == Spec => []LastUnlessEarly
<1>1. ChainInv => LastUnlessEarly
  BY DEF ChainInv
<1> QED BY <1>1, ChainInvariance, PTL

-----------------------------------------------------------------------------
\* What a step does to the fields of its attempt, and to those of no other.

Others(f) ==
    \A g \in Attempts \ {f} :
        /\ pc'[g] = pc[g] /\ kind'[g] = kind[g] /\ force'[g] = force[g]
        /\ want'[g] = want[g] /\ before'[g] = before[g] /\ todo'[g] = todo[g]

\* A free slot is taken; a chained attempt has no force and names no module.
Started(f) ==
    /\ pc[f] = "idle" /\ pc'[f] \notin {"idle", "fanout", "answered"}
    /\ before'[f] = before[f] /\ todo'[f] = todo[f]
    /\ Chained(f)' => force'[f] = force[f] /\ want'[f] = want[f]

\* The attempt is over: it stays as it is, or its slot is free again. A hook
\* writes its outcome to the job that holds the chain lock.
Ended(f) ==
    /\ pc[f] \notin {"idle", "answered"}
    /\ want'[f] = {} /\ todo'[f] = {}
    /\ \/ /\ pc'[f] = "answered"
          /\ kind'[f] = kind[f] /\ force'[f] = force[f] /\ before'[f] = before[f]
       \/ /\ pc'[f] = "idle" /\ Batch(f) = {} /\ record' = record
          /\ kind'[f] = "none" /\ ~force'[f] /\ before'[f] = {}
    /\ \/ kind[f] # "hook" /\ UNCHANGED <<cont, chain>>
       \/ /\ kind[f] = "hook" /\ chain' = NoJob
          /\ \E outcome \in Outcome :
                 /\ cont' = [cont EXCEPT ![chain] = outcome]
                 /\ outcome = "stalled" => pc[f] = "status" /\ Stalled(f)

\* The attempt goes on.
Moved(f) ==
    /\ pc[f] \notin {"idle", "answered"} /\ pc'[f] \notin {"idle", "answered"}
    /\ kind'[f] = kind[f] /\ force'[f] = force[f] /\ want'[f] = want[f]
    /\ UNCHANGED <<cont, chain>>
    /\ \/ pc[f] = "admit" /\ before'[f] = Drafted /\ todo'[f] = todo[f]
          /\ pc'[f] # "fanout"
       \/ before'[f] = before[f] /\ todo'[f] = todo[f]
          /\ pc[f] # "fanout" /\ pc'[f] # "fanout"
       \/ before'[f] = before[f] /\ todo'[f] \subseteq todo[f]
          /\ pc[f] = "fanout" /\ pc'[f] = "fanout"
       \/ before'[f] = before[f] /\ todo'[f] = Selected(f)
          /\ pc[f] = "select" /\ pc'[f] = "fanout"

LEMMA StartShape ==
    ASSUME TypeOK, NEW f \in Attempts,
           \/ Continue(f)
           \/ \E form \in Forms : PostJobs(f, form[1], form[2])
           \/ \E j \in Jobs : HookContinues(j, f)
    PROVE  Started(f) /\ Others(f) /\ UNCHANGED <<record, draftedBy, cont>>
<1>1. CASE Continue(f)
  BY <1>1 DEF TypeOK, Continue, Goto, Free, disk, Started, Others
<1>2. CASE \E form \in Forms : PostJobs(f, form[1], form[2])
  BY <1>2 DEF TypeOK, PostJobs, Goto, Free, disk, Started, Others, Chained
<1>3. CASE \E j \in Jobs : HookContinues(j, f)
  BY <1>3 DEF TypeOK, HookContinues, Goto, Free, disk, Started, Others
<1> QED BY <1>1, <1>2, <1>3

LEMMA EndShape ==
    ASSUME TypeOK, NEW f \in Attempts, NEW outcome \in Outcome,
           NEW saved \in BOOLEAN, EndWith(f, outcome, saved),
           pc[f] \notin {"idle", "answered"},
           outcome = "stalled" => pc[f] = "status" /\ Stalled(f),
           ~saved => Batch(f) = {} /\ record' = record
    PROVE  Ended(f) /\ Others(f)
<1>1. Others(f)
  BY DEF TypeOK, EndWith, Others
<1>2. /\ want'[f] = {} /\ todo'[f] = {}
      /\ saved => /\ pc'[f] = "answered" /\ kind'[f] = kind[f]
                  /\ force'[f] = force[f] /\ before'[f] = before[f]
      /\ ~saved => /\ pc'[f] = "idle" /\ kind'[f] = "none"
                   /\ ~force'[f] /\ before'[f] = {}
  BY DEF TypeOK, EndWith
<1>3. \/ kind[f] # "hook" /\ UNCHANGED <<cont, chain>>
      \/ kind[f] = "hook" /\ chain' = NoJob /\ cont' = [cont EXCEPT ![chain] = outcome]
  BY DEF EndWith
<1> HIDE DEF Outcome
<1> QED BY <1>1, <1>2, <1>3 DEF Ended

LEMMA StepShape ==
    ASSUME TypeOK, Fresh, NEW f \in Attempts, Step(f)
    PROVE  /\ Others(f) /\ (Ended(f) \/ Moved(f)) /\ UNCHANGED <<draftedBy, due>>
           /\ \/ record' = record
              \/ /\ pc[f] = "fanout"
                 /\ \E u \in todo[f] : /\ record[<<f, u>>] = "none"
                                       /\ record' = [record EXCEPT ![<<f, u>>] = "queued"]
<1>0. \A g \in Attempts : todo[g] \subseteq Units
  BY DEF TypeOK
<1>1. ASSUME NEW outcome \in Outcome, End(f, outcome), record' = record,
             pc[f] \notin {"idle", "answered"},
             outcome = "stalled" => pc[f] = "status" /\ Stalled(f)
      PROVE  Others(f) /\ Ended(f)
  <2>1. EndWith(f, outcome, Batch(f) # {}) /\ (Batch(f) # {}) \in BOOLEAN
    BY <1>1 DEF End
  <2> HIDE DEF Outcome
  <2> QED BY <1>1, <2>1, EndShape
<1>2. CASE Guard(f)
  BY <1>1, <1>2 DEF Guard, Goto, TypeOK, Others, Moved
<1>3. CASE Status(f)
  BY <1>1, <1>3 DEF Status, Goto, TypeOK, Others, Moved
<1>4. CASE Admit(f)
  BY <1>1, <1>4 DEF Admit, Goto, TypeOK, Others, Moved
<1>5. CASE Check(f)
  BY <1>1, <1>5 DEF Check, Goto, TypeOK, Others, Moved
<1>6. CASE Select(f)
  BY <1>1, <1>6 DEF Select, Goto, TypeOK, Others, Moved
<1>7. ASSUME NEW u \in Units, Save(f, u)
      PROVE  /\ Others(f) /\ (Ended(f) \/ Moved(f)) /\ UNCHANGED <<draftedBy, due>>
             /\ \/ record' = record
                \/ /\ pc[f] = "fanout"
                   /\ \E v \in todo[f] : /\ record[<<f, v>>] = "none"
                                         /\ record' = [record EXCEPT ![<<f, v>>] = "queued"]
  <2>1. /\ pc[f] = "fanout" /\ u \in todo[f] /\ record[<<f, u>>] = "none"
        /\ UNCHANGED <<draftedBy, due>>
    BY <1>7 DEF Save, Fresh
  <2>2. CASE Collides(u)
    BY <1>1, <1>7, <2>1, <2>2 DEF Save
  <2>3. CASE ~Collides(u) /\ todo[f] = {u}
    <3>1. EndWith(f, "started", TRUE) /\ record' = [record EXCEPT ![<<f, u>>] = "queued"]
      BY <1>7, <2>3 DEF Save
    <3>2. "started" \in Outcome
      OBVIOUS
    <3>3. Ended(f) /\ Others(f)
      BY <2>1, <3>1, <3>2, EndShape
    <3> QED BY <2>1, <3>1, <3>3
  <2>4. CASE ~Collides(u) /\ todo[f] # {u}
    BY <1>7, <2>1, <2>4, SMTT(60) DEF Save, TypeOK, Others, Moved
  <2> QED BY <2>2, <2>3, <2>4
<1>8. CASE Quiet(f)
  BY <1>2, <1>3, <1>4, <1>5, <1>6, <1>8 DEF Quiet, Guard, Status, Admit, Check, Select
<1> QED BY <1>7, <1>8 DEF Step, Quiet

\* What a chained attempt chooses has no response when it chooses.
LEMMA SelectsMissing ==
    ASSUME NEW f \in Attempts, ~force[f], want[f] = {}
    PROVE  Selected(f) \cap Drafted = {}
BY DEF Selected

\* A running job changes the fields of no attempt, and gives its unit a response
\* only when there is none or it may replace it.
LEMMA RunShape ==
    ASSUME TypeOK, NEW f \in Attempts, NEW u \in Units, Run(f, u)
    PROVE  /\ UNCHANGED <<attempts, cont, chain>>
           /\ \A j \in Jobs : j # <<f, u>> => record'[j] = record[j]
           /\ \A v \in Units \ {u} : draftedBy'[v] = draftedBy[v]
           /\ record[<<f, u>>] \in {"queued", "landed"}
           /\ \/ /\ record'[<<f, u>>] = "landed" /\ draftedBy'[u] = f
                 /\ draftedBy[u] = NoAttempt \/ force[f]
              \/ record'[<<f, u>>] = "failed" /\ draftedBy'[u] = draftedBy[u]
              \/ /\ record[<<f, u>>] = "landed" /\ record'[<<f, u>>] = "succeeded"
                 /\ draftedBy'[u] = draftedBy[u]
<1>0. <<f, u>> \in Jobs
  OBVIOUS
<1>1. CASE Ingest(f, u)
  <2>1. CASE draftedBy[u] = NoAttempt \/ force[f]
    BY <1>0, <1>1, <2>1 DEF TypeOK, Ingest
  <2>2. CASE ~(draftedBy[u] = NoAttempt \/ force[f])
    BY <1>0, <1>1, <2>2 DEF TypeOK, Ingest
  <2> QED BY <2>1, <2>2
<1>2. CASE Fail(f, u)
  BY <1>0, <1>2 DEF TypeOK, Fail
<1>3. CASE Finish(f, u)
  BY <1>0, <1>3 DEF TypeOK, Finish
<1> QED BY <1>1, <1>2, <1>3 DEF Run

\* The groups of Next, by their shape.
LEMMA Shapes ==
    ASSUME TypeOK, Fresh, [Next]_vars
    PROVE  \/ \E f \in Attempts : /\ Started(f) /\ Others(f)
                                  /\ UNCHANGED <<record, draftedBy, cont>>
           \/ \E f \in Attempts : Step(f)
           \/ \E f \in Attempts, u \in Units : Run(f, u)
           \/ UNCHANGED <<attempts, record, draftedBy>>
<1>1. ASSUME NEW j \in Jobs, Hook(j)
      PROVE  \/ \E f \in Attempts : HookContinues(j, f)
             \/ UNCHANGED <<attempts, record, draftedBy>>
  BY <1>1 DEF Hook, HookReturns, HookFailed, disk
<1>2. UNCHANGED vars => UNCHANGED <<attempts, record, draftedBy>>
  BY DEF vars, disk
<1> QED BY <1>1, <1>2, StartShape DEF Next

LEMMA GainingKept == TypeOK /\ Fresh /\ Gaining /\ [Next]_vars => Gaining'
<1> SUFFICES ASSUME TypeOK, Fresh, Gaining, [Next]_vars PROVE Gaining'
  OBVIOUS
<1>0. /\ NoAttempt \notin Attempts
      /\ draftedBy \in [Units -> Attempts \cup {NoAttempt}]
      /\ record \in [Jobs -> {"none", "queued", "landed"} \cup Terminal]
      /\ \A f \in Attempts : todo[f] \subseteq Units /\ before[f] \subseteq Units
      /\ \A f \in Attempts, u \in Units : <<f, u>> \in Jobs
      /\ \A f, g \in Attempts, u, v \in Units : <<f, u>> = <<g, v>> => f = g /\ u = v
  BY ChainAssumption DEF TypeOK
<1>1. ASSUME NEW f \in Attempts, Started(f), Others(f),
             UNCHANGED <<record, draftedBy, cont>>
      PROVE  Gaining'
  <2>1. /\ \A u \in Units : record[<<f, u>>] = "none" /\ draftedBy[u] # f
        /\ todo[f] = {}
    BY <1>1 DEF Started, Fresh, Gaining
  <2>2. Drafted' = Drafted
    BY <1>1 DEF Drafted
  <2>3. \A g \in Attempts \ {f} : Chained(g)' = Chained(g)
    BY <1>1 DEF Others, Chained
  <2>4. \A g \in Attempts :
            /\ pc'[g] = "idle" \/ Chained(g)' => ~force'[g] /\ want'[g] = {}
            /\ pc'[g] # "fanout" => todo'[g] = {}
            /\ before'[g] \subseteq Drafted'
    BY <1>1, <2>2, <2>3 DEF Started, Others, Gaining
  <2>5. \A g \in Attempts, u \in Units :
            Chained(g)' /\ (u \in todo'[g] \/ record'[<<g, u>>] # "none") =>
                u \notin before'[g]
    BY <1>1, <2>1, <2>3 DEF Started, Others, Gaining
  <2>6. \A u \in Units : draftedBy[u] # NoAttempt =>
            force'[draftedBy[u]] = force[draftedBy[u]]
    <3> SUFFICES ASSUME NEW u \in Units, draftedBy[u] # NoAttempt
                 PROVE  force'[draftedBy[u]] = force[draftedBy[u]]
      OBVIOUS
    <3>1. draftedBy[u] \in Attempts
      BY <1>0
    <3>2. draftedBy[u] # f
      BY <2>1
    <3> QED BY <1>1, <3>1, <3>2 DEF Others
  <2>7. \A g \in Attempts, u \in Units :
            /\ draftedBy'[u] = g => record'[<<g, u>>] # "none"
            /\ record'[<<g, u>>] \in {"landed", "succeeded"} /\ draftedBy'[u] # g =>
                   draftedBy'[u] # NoAttempt /\ force'[draftedBy'[u]]
    <3> TAKE g \in Attempts, u \in Units
    <3>1. draftedBy'[u] = draftedBy[u] /\ record'[<<g, u>>] = record[<<g, u>>]
      BY <1>1
    <3>2. /\ draftedBy[u] = g => record[<<g, u>>] # "none"
          /\ record[<<g, u>>] \in {"landed", "succeeded"} /\ draftedBy[u] # g =>
                 draftedBy[u] # NoAttempt /\ force[draftedBy[u]]
      BY DEF Gaining
    <3> QED BY <2>6, <3>1, <3>2
  <2> QED BY <2>4, <2>5, <2>7 DEF Gaining
<1>2. ASSUME NEW f \in Attempts, Step(f)
      PROVE  Gaining'
  <2>1. Others(f) /\ (Ended(f) \/ Moved(f)) /\ UNCHANGED draftedBy
    BY <1>2, StepShape
  <2>2. Drafted' = Drafted
    BY <2>1 DEF Drafted
  <2>3. \A g \in Attempts \ {f} : Chained(g)' = Chained(g)
    BY <2>1 DEF Others, Chained
  <2>4. Chained(f)' => Chained(f)
    BY <2>1 DEF Ended, Moved, Chained
  <2>5. \A g \in Attempts, u \in Units :
            \/ record'[<<g, u>>] = record[<<g, u>>]
            \/ /\ g = f /\ pc[f] = "fanout" /\ u \in todo[f]
               /\ record[<<g, u>>] = "none" /\ record'[<<g, u>>] = "queued"
    <3>1. CASE record' = record
      BY <3>1
    <3>2. ASSUME NEW v \in todo[f], pc[f] = "fanout", record[<<f, v>>] = "none",
                 record' = [record EXCEPT ![<<f, v>>] = "queued"]
          PROVE  \A g \in Attempts, u \in Units :
                     \/ record'[<<g, u>>] = record[<<g, u>>]
                     \/ /\ g = f /\ pc[f] = "fanout" /\ u \in todo[f]
                        /\ record[<<g, u>>] = "none" /\ record'[<<g, u>>] = "queued"
      <4>1. v \in Units
        BY <1>0
      <4>2. record'[<<f, v>>] = "queued" /\ \A j \in Jobs \ {<<f, v>>} : record'[j] = record[j]
        BY <1>0, <3>2, <4>1
      <4> QED BY <1>0, <3>2, <4>1, <4>2
    <3> QED BY <1>2, <3>1, <3>2, StepShape
  <2>6. \A g \in Attempts :
            /\ pc'[g] = "idle" \/ Chained(g)' => ~force'[g] /\ want'[g] = {}
            /\ pc'[g] # "fanout" => todo'[g] = {}
            /\ before'[g] \subseteq Drafted'
    <3>1. /\ pc'[f] = "idle" \/ Chained(f)' => ~force'[f] /\ want'[f] = {}
          /\ pc'[f] # "fanout" => todo'[f] = {}
          /\ before'[f] \subseteq Drafted'
      BY <2>1, <2>2, <2>4 DEF Ended, Moved, Gaining
    <3> QED BY <2>1, <2>2, <2>3, <3>1 DEF Others, Gaining
  <2>7. \A u \in Units :
            Chained(f)' /\ (u \in todo'[f] \/ record'[<<f, u>>] # "none") =>
                u \notin before'[f]
    <3> SUFFICES ASSUME NEW u \in Units, Chained(f)',
                        u \in todo'[f] \/ record'[<<f, u>>] # "none"
                 PROVE  u \notin before'[f]
      OBVIOUS
    <3>1. /\ u \in todo[f] \/ record[<<f, u>>] # "none" => u \notin before[f]
          /\ ~force[f] /\ want[f] = {} /\ before[f] \subseteq Drafted
      BY <2>4 DEF Gaining
    <3>2. u \in todo[f] => pc[f] = "fanout"
      BY DEF Gaining
    <3>3. CASE pc[f] = "admit"
      <4>1. record'[<<f, u>>] = "none"
        BY <2>5, <3>3 DEF Fresh
      <4>2. todo'[f] = {}
        BY <2>1, <3>3 DEF Ended, Moved, Gaining
      <4> QED BY <4>1, <4>2
    <3>4. CASE pc[f] # "admit" /\ u \in Selected(f)
      <4>1. u \notin Drafted
        BY <3>1, <3>4, SelectsMissing
      <4>2. before'[f] \subseteq Drafted
        BY <2>2, <2>6
      <4> QED BY <4>1, <4>2
    <3>5. CASE pc[f] # "admit" /\ u \notin Selected(f)
      <4>1. u \in todo'[f] => u \in todo[f]
        BY <2>1, <3>5 DEF Ended, Moved
      <4>2. before'[f] \subseteq before[f]
        BY <2>1, <3>5 DEF Ended, Moved
      <4> QED BY <2>5, <3>1, <4>1, <4>2
    <3> QED BY <3>3, <3>4, <3>5
  <2>8. \A g \in Attempts, u \in Units :
            Chained(g)' /\ (u \in todo'[g] \/ record'[<<g, u>>] # "none") =>
                u \notin before'[g]
    BY <2>1, <2>3, <2>5, <2>7 DEF Others, Gaining
  <2>9. \A u \in Units : draftedBy[u] # NoAttempt =>
            force'[draftedBy[u]] = force[draftedBy[u]]
    <3>1. ASSUME NEW u \in Units, draftedBy[u] = f
          PROVE  force'[f] = force[f]
      <4>1. <<f, u>> \in Batch(f)
        BY <1>0, <3>1 DEF Gaining, Batch
      <4> QED BY <2>1, <4>1 DEF Ended, Moved
    <3> QED BY <1>0, <2>1, <3>1 DEF Others
  <2>10. \A g \in Attempts, u \in Units :
             /\ draftedBy'[u] = g => record'[<<g, u>>] # "none"
             /\ record'[<<g, u>>] \in {"landed", "succeeded"} /\ draftedBy'[u] # g =>
                    draftedBy'[u] # NoAttempt /\ force'[draftedBy'[u]]
    <3> TAKE g \in Attempts, u \in Units
    <3>1. draftedBy'[u] = draftedBy[u]
      BY <2>1
    <3>2. \/ record'[<<g, u>>] = record[<<g, u>>]
          \/ record'[<<g, u>>] = "queued"
      BY <2>5
    <3>3. /\ draftedBy[u] = g => record[<<g, u>>] # "none"
          /\ record[<<g, u>>] \in {"landed", "succeeded"} /\ draftedBy[u] # g =>
                 draftedBy[u] # NoAttempt /\ force[draftedBy[u]]
      BY DEF Gaining
    <3> QED BY <2>9, <3>1, <3>2, <3>3
  <2> QED BY <2>6, <2>8, <2>10 DEF Gaining
<1>3. ASSUME NEW f \in Attempts, NEW u \in Units, Run(f, u)
      PROVE  Gaining'
  <2>1. /\ UNCHANGED attempts
        /\ \A g \in Attempts, v \in Units :
               g # f \/ v # u => record'[<<g, v>>] = record[<<g, v>>]
        /\ \A v \in Units \ {u} : draftedBy'[v] = draftedBy[v]
        /\ record[<<f, u>>] # "none" /\ record'[<<f, u>>] # "none"
        /\ draftedBy'[u] \in {draftedBy[u], f}
    BY <1>0, <1>3, RunShape
  <2>2. Drafted \subseteq Drafted'
    BY <1>0, <2>1 DEF Drafted
  <2>3. \A g \in Attempts :
            /\ pc'[g] = "idle" \/ Chained(g)' => ~force'[g] /\ want'[g] = {}
            /\ pc'[g] # "fanout" => todo'[g] = {}
            /\ before'[g] \subseteq Drafted'
    BY <2>1, <2>2 DEF Gaining, Chained, attempts
  <2>4. \A g \in Attempts, v \in Units :
            /\ Chained(g)' /\ (v \in todo'[g] \/ record'[<<g, v>>] # "none") =>
                   v \notin before'[g]
            /\ draftedBy'[v] = g => record'[<<g, v>>] # "none"
    <3> TAKE g \in Attempts, v \in Units
    <3>1. /\ kind' = kind /\ todo' = todo /\ before' = before
          /\ Chained(g)' = Chained(g)
      BY <2>1 DEF Chained, attempts
    <3>2. /\ Chained(g) /\ (v \in todo[g] \/ record[<<g, v>>] # "none") =>
                 v \notin before[g]
          /\ draftedBy[v] = g => record[<<g, v>>] # "none"
      BY DEF Gaining
    <3>3. CASE g = f /\ v = u
      BY <2>1, <3>1, <3>2, <3>3
    <3>4. CASE ~(g = f /\ v = u)
      <4>1. record'[<<g, v>>] = record[<<g, v>>]
        BY <2>1, <3>4
      <4>2. draftedBy'[v] = g => draftedBy[v] = g
        BY <2>1, <3>4
      <4> QED BY <3>1, <3>2, <4>1, <4>2
    <3> QED BY <3>3, <3>4
  <2>5. \A g \in Attempts, v \in Units :
            record'[<<g, v>>] \in {"landed", "succeeded"} /\ draftedBy'[v] # g =>
                draftedBy'[v] # NoAttempt /\ force'[draftedBy'[v]]
    <3> SUFFICES ASSUME NEW g \in Attempts, NEW v \in Units,
                        record'[<<g, v>>] \in {"landed", "succeeded"},
                        draftedBy'[v] # g
                 PROVE  draftedBy'[v] # NoAttempt /\ force[draftedBy'[v]]
      BY <2>1 DEF attempts
    <3>1. CASE v # u
      BY <2>1, <3>1 DEF Gaining
    <3>2. CASE v = u /\ draftedBy'[u] = draftedBy[u]
      <4>1. record[<<g, v>>] \in {"landed", "succeeded"}
        BY <1>0, <1>3, <2>1, <3>2, RunShape
      <4> QED BY <3>2, <4>1 DEF Gaining
    <3>3. CASE v = u /\ draftedBy'[u] # draftedBy[u]
      <4>1. /\ draftedBy'[u] = f /\ g # f
            /\ draftedBy[u] = NoAttempt \/ force[f]
        BY <1>3, <2>1, <3>3, RunShape
      <4>2. record[<<g, u>>] \in {"landed", "succeeded"}
        BY <2>1, <3>3, <4>1
      <4>3. draftedBy[u] # NoAttempt
        BY <1>0, <4>2 DEF Gaining
      <4> QED BY <1>0, <3>3, <4>1, <4>3
    <3> QED BY <3>1, <3>2, <3>3
  <2> QED BY <2>3, <2>4, <2>5 DEF Gaining
<1>4. CASE UNCHANGED <<attempts, record, draftedBy>>
  BY <1>4 DEF Gaining, Chained, Drafted, attempts
<1> QED BY <1>1, <1>2, <1>3, <1>4, Shapes

\* A hook that holds the chain lock is the only one, and its job stays as it is.
LEMMA HoldingKept ==
    TypeOK /\ Fresh /\ Settled /\ Holding /\ [Next]_vars => Holding'
<1> SUFFICES ASSUME TypeOK, Fresh, Settled, Holding, [Next]_vars PROVE Holding'
  OBVIOUS
<1>0. /\ NoJob \notin Jobs
      /\ chain \in Jobs \cup {NoJob}
      /\ record \in [Jobs -> {"none", "queued", "landed"} \cup Terminal]
      /\ \A j \in Jobs : j[1] \in Attempts /\ j[2] \in Units /\ j = <<j[1], j[2]>>
  BY ChainAssumption DEF TypeOK
<1>1. \A j \in Jobs : record[j] # "none" => pc[j[1]] \in {"fanout", "answered"}
                                            /\ j \in Batch(j[1])
  BY <1>0 DEF Fresh, Batch
<1>2. chain # NoJob => /\ chain \in Jobs /\ record[chain] = "succeeded"
                       /\ Chained(chain[1])
  BY <1>0 DEF Holding
<1>3. ASSUME NEW f \in Attempts,
             Continue(f) \/ \E form \in Forms : PostJobs(f, form[1], form[2])
      PROVE  Holding'
  <2>1. /\ UNCHANGED <<record, chain>> /\ pc[f] = "idle" /\ kind'[f] # "hook"
        /\ Others(f)
    BY <1>3, StartShape DEF Continue, PostJobs, disk, Free, TypeOK
  <2>2. chain # NoJob => Chained(chain[1])'
    BY <1>0, <1>1, <1>2, <2>1 DEF Others, Chained
  <2>3. \A g \in Attempts : Hooked(g)' => Hooked(g)
    BY <2>1 DEF Others, Hooked
  <2> QED BY <1>2, <2>1, <2>2, <2>3 DEF Holding
<1>4. ASSUME NEW f \in Attempts, NEW j \in Jobs, HookContinues(j, f)
      PROVE  Holding'
  <2>1. Others(f)
    BY <1>4, StartShape
  <2>2. /\ record' = record /\ chain' = j /\ chain = NoJob /\ pc[f] = "idle"
        /\ j \in due /\ Chained(j[1]) /\ MayContinue(j[1]) /\ ~Failed(j[1])
    BY <1>4 DEF HookContinues, disk, Free
  <2>3. record[j] \in Terminal
    BY <2>2 DEF Settled
  <2>4. j \in Batch(j[1]) /\ j[1] # f /\ j[1] \in Attempts
    BY <1>0, <1>1, <2>2, <2>3
  <2>5. record[j] = "succeeded"
    BY <2>2, <2>3, <2>4 DEF Failed
  <2>6. Chained(j[1])'
    BY <2>1, <2>2, <2>4 DEF Others, Chained
  <2>7. \A g \in Attempts : ~Hooked(g)
    BY <2>2 DEF Holding
  <2>8. \A g \in Attempts : Hooked(g)' => g = f
    BY <2>1, <2>7 DEF Others, Hooked
  <2> QED BY <1>0, <2>2, <2>5, <2>6, <2>8 DEF Holding
<1>5. ASSUME NEW f \in Attempts, Step(f)
      PROVE  Holding'
  <2>1. Others(f) /\ (Ended(f) \/ Moved(f))
    BY <1>5, StepShape
  <2>2. \A g \in Attempts : Hooked(g)' => Hooked(g)
    BY <2>1 DEF Others, Ended, Moved, Hooked
  <2>3. chain' = chain \/ (Hooked(f) /\ ~Hooked(f)' /\ chain' = NoJob)
    BY <2>1 DEF Ended, Moved, Hooked
  <2>4. chain # NoJob => record'[chain] = record[chain]
    <3> SUFFICES ASSUME chain # NoJob PROVE record'[chain] = record[chain]
      OBVIOUS
    <3>1. CASE record' = record
      BY <3>1
    <3>2. ASSUME NEW u \in todo[f], record[<<f, u>>] = "none",
                 record' = [record EXCEPT ![<<f, u>>] = "queued"]
          PROVE  record'[chain] = record[chain]
      BY <1>0, <1>2, <3>2
    <3> QED BY <1>5, <3>1, <3>2, StepShape
  <2>5. chain # NoJob => kind'[chain[1]] = kind[chain[1]]
    <3> SUFFICES ASSUME chain # NoJob PROVE kind'[chain[1]] = kind[chain[1]]
      OBVIOUS
    <3>1. chain[1] \in Attempts /\ Batch(chain[1]) # {}
      BY <1>0, <1>1, <1>2
    <3> QED BY <2>1, <3>1 DEF Others, Ended, Moved
  <2>6. chain' # NoJob => record'[chain'] = "succeeded" /\ Chained(chain[1])'
    <3> SUFFICES ASSUME chain' # NoJob
                 PROVE  record'[chain'] = "succeeded" /\ Chained(chain[1])'
      OBVIOUS
    <3>1. chain' = chain
      BY <2>3
    <3>2. kind'[chain'[1]] \in {"continue", "hook"}
      BY <1>2, <2>5, <3>1 DEF Chained
    <3> QED BY <1>2, <2>4, <3>1, <3>2 DEF Chained
  <2>7. \A g \in Attempts : Hooked(g)' => chain' # NoJob
    BY <2>2, <2>3 DEF Holding
  <2> QED BY <2>2, <2>6, <2>7 DEF Holding
<1>6. ASSUME NEW f \in Attempts, NEW u \in Units, Run(f, u)
      PROVE  Holding'
  <2>1. UNCHANGED <<attempts, chain>>
    BY <1>6, RunShape
  <2>2. chain # NoJob => record'[chain] = record[chain]
    BY <1>2, <1>6, RunShape
  <2>3. \A g \in Attempts : Hooked(g)' = Hooked(g) /\ Chained(g)' = Chained(g)
    BY <2>1 DEF Hooked, Chained, attempts
  <2> QED BY <1>0, <1>2, <2>1, <2>2, <2>3 DEF Holding, Chained, attempts
<1>7. ASSUME NEW j \in Jobs, HookReturns(j) \/ HookFailed(j)
      PROVE  Holding'
  BY <1>7 DEF HookReturns, HookFailed, Holding, Hooked, Chained, attempts, disk
<1>8. CASE UNCHANGED vars
  BY <1>8 DEF vars, Holding, Hooked, Chained, attempts, disk
<1> QED BY <1>3, <1>4, <1>5, <1>6, <1>7, <1>8 DEF Next, Hook

\* The hook's loop never finds what its batch started from: the batch has added
\* the unit of the job that holds the chain lock.
LEMMA NeverStalled ==
    ASSUME TypeOK, Gaining, Holding, NEW f \in Attempts, pc[f] = "status"
    PROVE  ~Stalled(f)
<1> SUFFICES ASSUME Stalled(f) PROVE FALSE
  OBVIOUS
<1>1. chain # NoJob
  BY DEF Holding, Hooked, Stalled
<1>2. /\ chain \in Jobs /\ record[chain] = "succeeded" /\ Chained(chain[1])
      /\ chain[1] \in Attempts /\ chain[2] \in Units /\ chain = <<chain[1], chain[2]>>
  BY <1>1 DEF TypeOK, Holding
<1>3. chain[2] \notin before[chain[1]] /\ before[chain[1]] \subseteq Drafted
  BY <1>2 DEF Gaining
<1>4. chain[2] \in Drafted
  <2>1. record[<<chain[1], chain[2]>>] \in {"landed", "succeeded"}
    BY <1>2
  <2>2. draftedBy[chain[2]] # chain[1] => draftedBy[chain[2]] # NoAttempt
    BY <1>2, <2>1 DEF Gaining
  <2>3. chain[1] # NoAttempt
    BY <1>2, ChainAssumption
  <2> QED BY <1>2, <2>2, <2>3 DEF Drafted
<1>5. IsFiniteSet(Drafted)
  <2>1. IsFiniteSet(Modules \cup {Skeleton})
    BY ChainAssumption, FS_AddElement
  <2>2. Drafted \in SUBSET (Modules \cup {Skeleton})
    BY DEF Drafted
  <2> QED BY <2>1, <2>2, FS_Subset
<1>6. Cardinality(before[chain[1]]) = Cardinality(Drafted)
  BY DEF Stalled
<1> QED BY <1>3, <1>4, <1>5, <1>6, FS_Subset

LEMMA NoFalseStallKept ==
    TypeOK /\ Fresh /\ Gaining /\ Holding /\ NoFalseStall /\ [Next]_vars => NoFalseStall'
<1> SUFFICES ASSUME TypeOK, Fresh, Gaining, Holding, NoFalseStall, [Next]_vars
             PROVE  NoFalseStall'
  OBVIOUS
<1>1. ASSUME NEW f \in Attempts, Step(f)
      PROVE  NoFalseStall'
  <2>1. Ended(f) \/ Moved(f)
    BY <1>1, StepShape
  <2>2. CASE cont' = cont
    BY <2>2 DEF NoFalseStall
  <2>3. ASSUME NEW outcome \in Outcome, cont' = [cont EXCEPT ![chain] = outcome],
               outcome = "stalled" => pc[f] = "status" /\ Stalled(f)
        PROVE  NoFalseStall'
    <3>1. outcome # "stalled"
      BY <2>3, NeverStalled
    <3> HIDE DEF Outcome
    <3> QED BY <2>3, <3>1 DEF NoFalseStall, TypeOK
  <2> QED BY <2>1, <2>2, <2>3 DEF Ended, Moved
<1>2. ASSUME NEW j \in Jobs, HookFailed(j)
      PROVE  NoFalseStall'
  BY <1>2 DEF HookFailed, NoFalseStall, TypeOK
<1>3. ASSUME cont' = cont
      PROVE  NoFalseStall'
  BY <1>3 DEF NoFalseStall
<1>4. \/ \E f \in Attempts : Step(f)
      \/ \E j \in Jobs : HookFailed(j)
      \/ cont' = cont
  BY StartShape, RunShape DEF Next, Hook, HookReturns, disk, vars
<1> QED BY <1>1, <1>2, <1>3, <1>4

\* What the invariant of the outcomes says holds in every reachable state.
LEMMA OutcomeInvariance == Spec => []OutcomeInv
<1>1. Init => OutcomeInv
  BY ChainAssumption
     DEF Init, OutcomeInv, Gaining, Holding, OutcomesStand, NoFalseStall, SuccessStands,
         Chained, Hooked, Drafted
<1>3. ChainInv /\ OutcomeInv /\ [Next]_vars => OutcomeInv'
  <2> SUFFICES ASSUME ChainInv, OutcomeInv, [Next]_vars PROVE OutcomeInv'
    OBVIOUS
  <2>1. Gaining' /\ Holding' /\ NoFalseStall'
    BY GainingKept, HoldingKept, NoFalseStallKept DEF ChainInv, OutcomeInv, OutcomesStand
  <2>2. SuccessStands'
    BY <2>1 DEF Gaining, SuccessStands
  <2> QED BY <2>1, <2>2 DEF OutcomeInv, OutcomesStand
<1> QED BY <1>1, <1>3, ChainInvariance, PTL DEF Spec

\* No continuation is refused as a stall after a fan-out that succeeded, and no
\* fan-out undoes the response of a succeeded job without force, for any number
\* of modules, requests and slots and with early ends.
THEOREM OutcomesHold == Spec => []OutcomesStand
<1>1. OutcomeInv => OutcomesStand
  BY DEF OutcomeInv
<1> QED BY <1>1, OutcomeInvariance, PTL

-----------------------------------------------------------------------------
\* The chain lock.

\* A step within an attempt keeps its kind, ends the attempt, or leaves it under
\* way with units to save if it fans out.
LEMMA StepServed ==
    ASSUME TypeOK, Fresh, Served, NEW f \in Attempts, Step(f), pc'[f] = "fanout"
    PROVE  todo'[f] # {} /\ (todo'[f] = {Skeleton} \/ todo'[f] \subseteq Modules)
<1>1. Ended(f) \/ Moved(f)
  BY StepShape
<1>2. pc[f] \in {"fanout", "select"}
  BY <1>1 DEF Ended, Moved
<1>3. CASE pc[f] = "select"
  <2>1. Select(f)
    BY <1>3 DEF Step, Guard, Status, Admit, Check, Save
  <2>2. Selected(f) # {} /\ todo' = [todo EXCEPT ![f] = Selected(f)]
    <3>1. CASE Selected(f) = {}
      <4>1. EndWith(f, "refused", Batch(f) # {})
        BY <2>1, <3>1 DEF Select, End
      <4>2. pc'[f] # "fanout"
        BY <4>1 DEF EndWith, TypeOK
      <4> QED BY <4>2
    <3>2. CASE Selected(f) # {}
      BY <2>1, <3>2 DEF Select
    <3> QED BY <3>1, <3>2
  <2>3. want[f] \subseteq Modules
    BY DEF TypeOK
  <2>4. Selected(f) = {Skeleton} \/ Selected(f) \subseteq Modules
    BY <2>2, <2>3 DEF Selected
  <2> QED BY <2>2, <2>4 DEF TypeOK
<1>4. CASE pc[f] = "fanout"
  <2>1. PICK u \in Units : Save(f, u)
    BY <1>4 DEF Step, Guard, Status, Admit, Check, Select
  <2>2. u \in todo[f] /\ todo[f] # {u} /\ todo' = [todo EXCEPT ![f] = @ \ {u}]
    <3>1. ASSUME NEW outcome, NEW saved \in BOOLEAN, EndWith(f, outcome, saved)
          PROVE  FALSE
      BY <3>1 DEF EndWith, TypeOK
    <3>2. ~Collides(u)
      BY <2>1, <3>1 DEF Save, End
    <3>3. todo[f] # {u}
      BY <2>1, <3>1, <3>2 DEF Save
    <3> QED BY <2>1, <3>2, <3>3 DEF Save
  <2>3. todo[f] = {Skeleton} \/ todo[f] \subseteq Modules
    BY <1>4 DEF Served
  <2> QED BY <2>2, <2>3 DEF TypeOK
<1> QED BY <1>2, <1>3, <1>4

\* Whoever holds the lock stays under way until it frees it.
LEMMA ServedKept == TypeOK /\ Fresh /\ Served /\ [Next]_vars => Served'
<1> SUFFICES ASSUME TypeOK, Fresh, Served, [Next]_vars PROVE Served'
  OBVIOUS
<1> USE DEF Served
<1>1. ASSUME NEW f \in Attempts, Started(f), Others(f), UNCHANGED chain
      PROVE  Served'
  <2>1. \A g \in Attempts : Hooked(g) => Hooked(g)'
    BY <1>1 DEF Started, Others, Hooked
  <2>2. \A g \in Attempts : pc'[g] = "fanout" => pc[g] = "fanout" /\ todo'[g] = todo[g]
    BY <1>1 DEF Started, Others
  <2> QED BY <1>1, <2>1, <2>2
<1>2. ASSUME NEW f \in Attempts, NEW j \in Jobs, HookContinues(j, f)
      PROVE  Served'
  <2>1. Started(f) /\ Others(f)
    BY <1>2, StartShape
  <2>2. Hooked(f)'
    BY <1>2, <2>1 DEF HookContinues, TypeOK, Started, Hooked
  <2>3. \A g \in Attempts : pc'[g] = "fanout" => pc[g] = "fanout" /\ todo'[g] = todo[g]
    BY <2>1 DEF Started, Others
  <2> QED BY <2>2, <2>3
<1>3. ASSUME NEW f \in Attempts, Step(f)
      PROVE  Served'
  <2>1. Others(f) /\ (Ended(f) \/ Moved(f))
    BY <1>3, StepShape
  <2>2. chain' # NoJob => chain' = chain /\ (kind[f] = "hook" => Moved(f))
    BY <2>1 DEF Ended, Moved
  <2>3. ASSUME chain' # NoJob, NEW g \in Attempts, Hooked(g)
        PROVE  Hooked(g)'
    BY <2>1, <2>2, <2>3 DEF Others, Moved, Hooked
  <2>4. chain' # NoJob => \E g \in Attempts : Hooked(g)'
    BY <2>2, <2>3
  <2>5. ASSUME NEW g \in Attempts, pc'[g] = "fanout"
        PROVE  todo'[g] # {} /\ (todo'[g] = {Skeleton} \/ todo'[g] \subseteq Modules)
    <3>1. CASE g = f
      BY <1>3, <2>5, <3>1, StepServed
    <3>2. CASE g # f
      BY <2>1, <2>5, <3>2 DEF Others
    <3> QED BY <3>1, <3>2
  <2> QED BY <2>4, <2>5
<1>4. ASSUME UNCHANGED <<attempts, chain>>
      PROVE  Served'
  BY <1>4 DEF attempts, Hooked
<1>5. \/ \E f \in Attempts : Started(f) /\ Others(f) /\ UNCHANGED chain
      \/ \E f \in Attempts, j \in Jobs : HookContinues(j, f)
      \/ \E f \in Attempts : Step(f)
      \/ UNCHANGED <<attempts, chain>>
  <2>1. ASSUME NEW f \in Attempts,
               Continue(f) \/ \E form \in Forms : PostJobs(f, form[1], form[2])
        PROVE  Started(f) /\ Others(f) /\ UNCHANGED chain
    BY <2>1, StartShape DEF Continue, PostJobs
  <2>2. ASSUME NEW f \in Attempts, NEW u \in Units, Run(f, u)
        PROVE  UNCHANGED <<attempts, chain>>
    BY <2>2, RunShape
  <2>3. ASSUME NEW j \in Jobs, HookReturns(j) \/ HookFailed(j)
        PROVE  UNCHANGED <<attempts, chain>>
    BY <2>3 DEF HookReturns, HookFailed
  <2>4. UNCHANGED vars => UNCHANGED <<attempts, chain>>
    BY DEF vars
  <2> QED BY <2>1, <2>2, <2>3, <2>4 DEF Next, Hook
<1> QED BY <1>1, <1>2, <1>3, <1>4, <1>5

LEMMA ServedInvariance == Spec => []Served
<1>1. Init => Served
  BY DEF Init, Served
<1>2. ChainInv /\ Served /\ [Next]_vars => Served'
  BY ServedKept DEF ChainInv
<1> QED BY <1>1, <1>2, ChainInvariance, PTL DEF Spec

\* A set of modules has a first one.
LEMMA FirstUnit ==
    ASSUME NEW T, T # {}, T = {Skeleton} \/ T \subseteq Modules
    PROVE  \E u \in T : \A v \in T \ {u} : u < v
<1>1. CASE T = {Skeleton}
  BY <1>1
<1>2. CASE T \subseteq Modules
  <2> DEFINE R == {p \in Nat \X Nat : p[1] < p[2]}
  <2>1. IsWellFoundedOn(R, Nat)
    BY NatLessThanWellFounded DEF OpToRel
  <2>2. \A x, y \in Nat : y < x => <<y, x>> \in R
    BY DEF R
  <2>3. T \subseteq Nat
    BY <1>2, ChainAssumption
  <2> HIDE DEF R
  <2>4. PICK u \in T : \A v \in T : ~ (<<v, u>> \in R)
    BY <2>1, <2>3, WFMin
  <2>5. ASSUME NEW v \in T \ {u} PROVE u < v
    <3>1. u \in Nat /\ v \in Nat /\ ~ (v < u) /\ u # v
      BY <2>2, <2>3, <2>4
    <3> QED BY <3>1
  <2> QED BY <2>5
<1> QED BY <1>1, <1>2

\* While the chain lock is taken the continuation that took it is under way and
\* has its next step, whichever refusals end other attempts: no hook waits for a
\* lock that nobody will free.
THEOREM LockIsServed == Spec => []LockGoesOn
<1>1. Served => LockGoesOn
  <2> SUFFICES ASSUME Served, chain # NoJob
               PROVE  \E f \in Attempts :
                          /\ Hooked(f)
                          /\ pc[f] = "fanout" => \E u \in todo[f] : \A v \in todo[f] \ {u} : u < v
    BY DEF LockGoesOn
  <2>1. PICK f \in Attempts : Hooked(f)
    BY DEF Served
  <2>2. pc[f] = "fanout" => \E u \in todo[f] : \A v \in todo[f] \ {u} : u < v
    BY FirstUnit DEF Served
  <2> QED BY <2>1, <2>2
<1> QED BY <1>1, ServedInvariance, PTL

-----------------------------------------------------------------------------
\* No chained fan-out is forgotten.

\* A fan-out whose continuation somebody still owes or has recorded.
Over(f) == Chained(f) /\ Batch(f) # {} /\ \A j \in Batch(f) : record[j] \in Terminal
Owed(f) == \E j \in Batch(f) : j \in due \/ chain = j \/ cont[j] # "none"

\* A job that a run makes terminal is due.
LEMMA RunIsDue ==
    ASSUME TypeOK, NEW f \in Attempts, NEW u \in Units, Run(f, u)
    PROVE  /\ record'[<<f, u>>] # "none"
           /\ record'[<<f, u>>] \in Terminal => <<f, u>> \in due'
           /\ due \subseteq due'
<1>0. <<f, u>> \in Jobs
  OBVIOUS
<1>1. CASE Ingest(f, u)
  <2>1. CASE draftedBy[u] = NoAttempt \/ force[f]
    BY <1>0, <1>1, <2>1 DEF TypeOK, Ingest
  <2>2. CASE ~(draftedBy[u] = NoAttempt \/ force[f])
    BY <1>0, <1>1, <2>2 DEF TypeOK, Ingest
  <2> QED BY <2>1, <2>2
<1>2. CASE Fail(f, u)
  BY <1>0, <1>2 DEF TypeOK, Fail
<1>3. CASE Finish(f, u)
  BY <1>0, <1>3 DEF TypeOK, Finish
<1> QED BY <1>1, <1>2, <1>3 DEF Run

\* A hook gives up a job only to the chain lock, to its record, or to a job of
\* its batch that is not over or has continued.
LEMMA HookOwes ==
    ASSUME TypeOK, Fresh, NEW j \in Jobs, Hook(j),
           NEW f \in Attempts, Over(f)', Over(f) => Owed(f)
    PROVE  Owed(f)'
<1>0. NoJob \notin Jobs /\ \A k \in Batch(f) : k \in Jobs /\ k[1] = f
  BY ChainAssumption DEF Batch
<1>1. record' = record /\ due' = due \ {j} /\ chain = NoJob
  BY DEF Hook, HookReturns, HookFailed, HookContinues, disk
<1>2. Batch(f)' = Batch(f)
  BY <1>1 DEF Batch
<1>3. CASE HookReturns(j)
  <2>1. UNCHANGED <<kind, cont, chain>>
    BY <1>3 DEF HookReturns, attempts, disk
  <2>2. Over(f)
    BY <1>1, <1>2, <2>1 DEF Over, Chained
  <2>3. PICK k \in Batch(f) : k \in due \/ chain = k \/ cont[k] # "none"
    BY <2>2 DEF Owed
  <2>4. CASE k # j \/ cont[k] # "none"
    BY <1>0, <1>1, <1>2, <2>1, <2>3, <2>4 DEF Owed
  <2>5. CASE k = j
    <3>1. ~MayContinue(f)
      BY <1>0, <1>3, <2>2, <2>5 DEF HookReturns, Over
    <3>2. PICK i \in Batch(f) : cont[i] # "none"
      BY <2>2, <3>1 DEF MayContinue, Over
    <3> QED BY <1>2, <2>1, <3>2 DEF Owed
  <2> QED BY <2>4, <2>5
<1>4. CASE HookFailed(j)
  <2>1. UNCHANGED <<kind, chain>> /\ cont' = [cont EXCEPT ![j] = "failed"]
    BY <1>4 DEF HookFailed, attempts
  <2>2. cont'[j] = "failed" /\ \A k \in Jobs : cont[k] # "none" => cont'[k] # "none"
    BY <2>1 DEF TypeOK
  <2>3. Over(f)
    BY <1>1, <1>2, <2>1 DEF Over, Chained
  <2>4. PICK k \in Batch(f) : k \in due \/ chain = k \/ cont[k] # "none"
    BY <2>3 DEF Owed
  <2>5. k \in due' \/ cont'[k] # "none"
    BY <1>0, <1>1, <2>2, <2>4
  <2> QED BY <1>2, <2>5 DEF Owed
<1>5. ASSUME NEW g \in Attempts, HookContinues(j, g)
      PROVE  Owed(f)'
  <2>1. Started(g) /\ Others(g) /\ cont' = cont /\ chain' = j
    BY <1>5, StartShape DEF HookContinues
  <2>2. f # g
    <3>1. \A u \in Units : record[<<g, u>>] = "none"
      BY <2>1 DEF Fresh, Started
    <3>2. Batch(f) # {}
      BY <1>2 DEF Over
    <3> QED BY <3>1, <3>2 DEF Batch
  <2>3. Over(f)
    BY <1>1, <1>2, <2>1, <2>2 DEF Over, Chained, Others
  <2>4. PICK k \in Batch(f) : k \in due \/ chain = k \/ cont[k] # "none"
    BY <2>3 DEF Owed
  <2>5. k \in due' \/ chain' = k \/ cont'[k] # "none"
    BY <1>0, <1>1, <2>1, <2>4
  <2> QED BY <1>2, <2>5 DEF Owed
<1> QED BY <1>3, <1>4, <1>5 DEF Hook

\* The end of a hook's attempt replaces the chain lock by a continuation.
LEMMA StepOwes ==
    ASSUME TypeOK, Fresh, Holding, NEW g \in Attempts, Step(g),
           NEW f \in Attempts, Over(f)', Over(f) => Owed(f)
    PROVE  Owed(f)'
<1>1. Others(g) /\ (Ended(g) \/ Moved(g)) /\ due' = due
  BY StepShape
<1>2. Chained(f)'
  BY DEF Over
<1>3. Chained(f)
  BY <1>1, <1>2 DEF Others, Ended, Moved, Chained
<1>4. \A u \in Units : <<f, u>> \in Jobs => record'[<<f, u>>] = record[<<f, u>>]
  <2>1. CASE record' = record
    BY <2>1
  <2>2. ASSUME NEW u \in todo[g], record' = [record EXCEPT ![<<g, u>>] = "queued"]
        PROVE  f # g
    <3>1. u \in Units
      BY DEF TypeOK
    <3>2. record'[<<g, u>>] = "queued" /\ <<g, u>> \in Jobs
      BY <2>2, <3>1 DEF TypeOK
    <3>3. ~(<<g, u>> \in Batch(f)')
      BY <3>2 DEF Over
    <3> QED BY <3>2, <3>3 DEF Batch
  <2>3. ASSUME NEW u \in todo[g], record' = [record EXCEPT ![<<g, u>>] = "queued"],
               NEW v \in Units
        PROVE  record'[<<f, v>>] = record[<<f, v>>]
    BY <2>2, <2>3 DEF TypeOK
  <2> QED BY <2>1, <2>3, StepShape
<1>5. \A j \in Jobs : j[1] = f => record'[j] = record[j]
  <2> SUFFICES ASSUME NEW j \in Jobs, j[1] = f PROVE record'[j] = record[j]
    OBVIOUS
  <2>1. j[2] \in Units /\ j = <<f, j[2]>>
    OBVIOUS
  <2> QED BY <1>4, <2>1
<1>6. Batch(f)' = Batch(f)
  BY <1>5 DEF Batch
<1>7. \A j \in Batch(f) : j \in Jobs /\ record'[j] = record[j]
  BY <1>5 DEF Batch
<1>8. Over(f)
  BY <1>3, <1>6, <1>7 DEF Over
<1>9. PICK k \in Batch(f) : k \in due \/ chain = k \/ cont[k] # "none"
  BY <1>8 DEF Owed
<1>10. chain' = k \/ cont'[k] # "none" \/ k \in due'
  <2>1. CASE UNCHANGED <<cont, chain>>
    BY <1>1, <1>9, <2>1
  <2>2. ASSUME NEW outcome \in Outcome, cont' = [cont EXCEPT ![chain] = outcome]
        PROVE  k \in due' \/ cont'[k] # "none"
    <3>1. outcome # "none"
      OBVIOUS
    <3> HIDE DEF Outcome
    <3>2. DOMAIN cont = Jobs
      BY DEF TypeOK
    <3>3. cont'[k] = IF k = chain THEN outcome ELSE cont[k]
      BY <1>7, <2>2, <3>2
    <3> QED BY <1>1, <1>9, <3>1, <3>3
  <2> QED BY <1>1, <2>1, <2>2 DEF Ended, Moved
<1> QED BY <1>6, <1>10 DEF Owed

LEMMA OwedKept ==
    TypeOK /\ Fresh /\ Holding /\ NeverForgotten /\ [Next]_vars => NeverForgotten'
<1> SUFFICES ASSUME TypeOK, Fresh, Holding, NeverForgotten, [Next]_vars,
                    NEW f \in Attempts, Over(f)'
             PROVE  Owed(f)'
  BY DEF NeverForgotten, Over, Owed
<1>0. Over(f) => Owed(f)
  BY DEF NeverForgotten, Over, Owed
<1>1. ASSUME NEW g \in Attempts,
             Continue(g) \/ \E form \in Forms : PostJobs(g, form[1], form[2])
      PROVE  Owed(f)'
  <2>1. Started(g) /\ Others(g) /\ UNCHANGED <<record, cont, chain, due>>
    BY <1>1, StartShape DEF Continue, PostJobs
  <2>2. Batch(f)' = Batch(f)
    BY <2>1 DEF Batch
  <2>3. f # g
    <3>1. \A u \in Units : record[<<g, u>>] = "none"
      BY <2>1 DEF Fresh, Started
    <3>2. Batch(f) # {}
      BY <2>2 DEF Over
    <3> QED BY <3>1, <3>2 DEF Batch
  <2>4. Over(f)
    BY <2>1, <2>2, <2>3 DEF Over, Chained, Others
  <2> QED BY <1>0, <2>1, <2>2, <2>4 DEF Owed
<1>2. ASSUME NEW g \in Attempts, Step(g)
      PROVE  Owed(f)'
  BY <1>0, <1>2, StepOwes
<1>3. ASSUME NEW g \in Attempts, NEW u \in Units, Run(g, u)
      PROVE  Owed(f)'
  <2>1. /\ UNCHANGED <<attempts, cont, chain>>
        /\ \A j \in Jobs : j # <<g, u>> => record'[j] = record[j]
    BY <1>3, RunShape, ZenonT(60)
  <2>2. /\ record'[<<g, u>>] # "none" /\ <<g, u>> \in Jobs
        /\ record'[<<g, u>>] \in Terminal => <<g, u>> \in due'
        /\ due \subseteq due'
    BY <1>3, RunIsDue
  <2>3. CASE f = g
    <3>1. <<g, u>> \in Batch(f)'
      BY <2>2, <2>3 DEF Batch
    <3>2. <<g, u>> \in due'
      BY <2>2, <3>1 DEF Over
    <3> QED BY <3>1, <3>2 DEF Owed
  <2>4. CASE f # g
    <3>1. \A j \in Jobs : j[1] = f => record'[j] = record[j]
      BY <2>1, <2>4
    <3>2. Batch(f)' = Batch(f) /\ \A j \in Batch(f) : record'[j] = record[j]
      BY <3>1 DEF Batch
    <3>3. Over(f)
      BY <2>1, <3>2 DEF Over, Chained, attempts
    <3> QED BY <1>0, <2>1, <2>2, <3>2, <3>3 DEF Owed
  <2> QED BY <2>3, <2>4
<1>4. ASSUME NEW j \in Jobs, Hook(j)
      PROVE  Owed(f)'
  BY <1>0, <1>4, HookOwes
<1>5. CASE UNCHANGED vars
  BY <1>0, <1>5 DEF vars, attempts, disk, Over, Owed, Batch, Chained
<1> QED BY <1>1, <1>2, <1>3, <1>4, <1>5 DEF Next

\* Every chained fan-out whose jobs are over has a continuation on one of its
\* records or somebody who owes it one, in whatever order its jobs end and their
\* hooks run: what ChainContinues needs, with fairness, to come true.
THEOREM ChainIsRemembered == Spec => []NeverForgotten
<1>1. Init => NeverForgotten
  BY DEF Init, NeverForgotten, Batch
<1>2. ChainInv /\ OutcomeInv /\ NeverForgotten /\ [Next]_vars => NeverForgotten'
  BY OwedKept DEF ChainInv, OutcomeInv
<1> QED BY <1>1, <1>2, ChainInvariance, OutcomeInvariance, PTL DEF Spec
=============================================================================
