---------------------------- MODULE CourseQueue ----------------------------
(***************************************************************************)
(* The course queue and the loop it repeats: `queue run` drives every      *)
(* pending course to its next judgment point (education_pipeline/cli.py,   *)
(* course_queue.py) with run_until_judgment over the store and a job       *)
(* runner that blocks (orchestrate.py), while `queue add` and              *)
(* `queue remove` edit the file, people judge and rework the runs, and the *)
(* daemon runs the jobs.                                                   *)
(*                                                                         *)
(* A run is the position it has reached in the actions of its course; what *)
(* the stages do is RunStages. A block of the workspace lock is one step   *)
(* (WorkspaceLock). The queue file is a sequence of entries.               *)
(***************************************************************************)
EXTENDS Naturals, Sequences, FiniteSets, SequencesExt

CONSTANTS
    Topics,      \* courses with a run
    Path,        \* Path[t]: the next actions of the run of t, in order
    Stuck,       \* courses and positions whose machine step does not clear the action
    Drivers,     \* `queue run` processes
    Editors,     \* `queue add` and `queue remove` processes
    MaxSteps,    \* MAX_STEPS of the loop
    Absent,      \* absent
    MaxEdits,    \* bound: edits of the queue
    MaxFaults    \* bound: deaths, unreachable daemons, failed jobs, reworks

Machine  == {"write_prompt", "assemble", "validate"}
Judgment == {"approve", "resolve_findings", "finalize", "done"}
Kinds    == Judgment \cup {"manual", "plan_unreadable", "unfinished", "failed"}

ASSUME QueueAssumption ==
    /\ IsFiniteSet(Topics)
    /\ \A t \in Topics : Path[t] \in Seq(Machine \cup Judgment \cup {"save_response"})
    /\ \A t \in Topics : Len(Path[t]) > 0 /\ Path[t][Len(Path[t])] = "done"
    /\ MaxSteps \in Nat \ {0} /\ MaxEdits \in Nat /\ MaxFaults \in Nat
    /\ Absent \notin Topics \cup Nat \cup Kinds
    /\ Drivers \cap Editors = {}

VARIABLES
    at,       \* at[t]: the position of the run of t
    archived, \* the archived courses
    job,      \* job[t]: who waits for the active job of t, or Absent
    file,     \* queue/courses.json
    pc,       \* pc[p]: where a process is
    todo,     \* todo[d]: the topics of the pass that are left, its own first
    seen,     \* seen[d]: the position its loop believes the run to be at
    taken,    \* taken[d]: the iterations its loop has begun
    stop,     \* stop[d]: where its loop stopped
    edited,   \* edited[e]: the edited queue that an editor is about to save
    edits, faults

runs      == <<at, archived, job>>
loops     == <<seen, taken, stop>>
spent     == <<edits, faults>>
queueVars == <<runs, file, pc, todo, loops, edited, spent>>

\* The next action of the run of t, and what the others abbreviate.
Next_(t)   == Path[t][at[t]]
Topic(d)   == Head(todo[d])
Fault      == faults < MaxFaults /\ faults' = faults + 1 /\ UNCHANGED edits
Forget(d)  == /\ seen' = [seen EXCEPT ![d] = Absent] /\ taken' = [taken EXCEPT ![d] = 0]
              /\ stop' = [stop EXCEPT ![d] = Absent]
Goto(p, l) == pc' = [pc EXCEPT ![p] = l]

QueueInit ==
    /\ at = [t \in Topics |-> 1] /\ archived = {} /\ job = [t \in Topics |-> Absent]
    /\ file = <<>>
    /\ pc = [p \in Drivers \cup Editors |-> "idle"]
    /\ todo = [d \in Drivers |-> <<>>]
    /\ seen = [d \in Drivers |-> Absent] /\ taken = [d \in Drivers |-> 0]
    /\ stop = [d \in Drivers |-> Absent]
    /\ edited = [e \in Editors |-> Absent]
    /\ edits = 0 /\ faults = 0

-----------------------------------------------------------------------------
\* The queue (course_queue.py): pure transitions of a sequence of entries.

Entry(t, status, kind) == [topic |-> t, status |-> status, stop |-> kind]
Queued(q) == {q[i].topic : i \in DOMAIN q}

\* Mutant: a course that is queued is queued again.
AddAnyway(q, t) == Append(q, Entry(t, "queued", Absent))

\* add_entry: at the end, or again where it stands.
AddEntry(q, t) ==
    IF t \notin Queued(q) THEN Append(q, Entry(t, "queued", Absent))
    ELSE [i \in DOMAIN q |-> IF q[i].topic = t THEN Entry(t, "queued", Absent) ELSE q[i]]

RemoveEntry(q, t) == RemoveAt(q, CHOOSE i \in DOMAIN q : q[i].topic = t)

\* mark_running keeps the stop of an earlier pass, mark_stopped sets it.
MarkRunning(q, t) == [i \in DOMAIN q |-> IF q[i].topic = t THEN Entry(t, "running", q[i].stop) ELSE q[i]]
MarkStopped(q, t, k) == [i \in DOMAIN q |-> IF q[i].topic = t THEN Entry(t, "stopped", k) ELSE q[i]]

\* Mutant: a course that was interrupted is nobody's any more.
PendingQueued(q) == {i \in DOMAIN q : q[i].status = "queued"}

Pending(q) == {i \in DOMAIN q : q[i].status # "stopped"}

\* The k-th smallest of a set of positions.
Nth(S, k) == CHOOSE i \in S : Cardinality({j \in S : j <= i}) = k

\* `queue add` and `queue remove` read the file and write it back, without the
\* workspace lock.
LoadForEdit(e) ==
    /\ pc[e] = "idle" /\ edits < MaxEdits /\ edits' = edits + 1
    /\ \E t \in Topics :
          \/ edited' = [edited EXCEPT ![e] = AddEntry(file, t)]
          \/ t \in Queued(file) /\ edited' = [edited EXCEPT ![e] = RemoveEntry(file, t)]
    /\ Goto(e, "save")
    /\ UNCHANGED <<runs, file, todo, loops, faults>>

SaveEdit(e) ==
    /\ pc[e] = "save"
    /\ file' = edited[e]
    /\ edited' = [edited EXCEPT ![e] = Absent]
    /\ Goto(e, "idle")
    /\ UNCHANGED <<runs, todo, loops, spent>>

-----------------------------------------------------------------------------
\* `queue run`: the pending list is taken once, up front; every transition is
\* applied to the file as it stands.

Begin(d) ==
    /\ pc[d] = "idle" /\ Pending(file) # {}
    /\ todo' = [todo EXCEPT ![d] = [k \in 1..Cardinality(Pending(file)) |->
                    file[Nth(Pending(file), k)].topic]]
    /\ Goto(d, "take")
    /\ UNCHANGED <<runs, file, loops, edited, spent>>

\* A course that was removed meanwhile is skipped.
Take(d) ==
    /\ pc[d] = "take"
    /\ IF todo[d] = <<>>
       THEN Goto(d, "idle") /\ UNCHANGED <<todo, file>>
       ELSE IF Topic(d) \notin Queued(file)
       THEN todo' = [todo EXCEPT ![d] = Tail(@)] /\ UNCHANGED <<pc, file>>
       ELSE file' = MarkRunning(file, Topic(d)) /\ Goto(d, "connect") /\ UNCHANGED todo
    /\ UNCHANGED <<runs, loops, edited, spent>>

\* A daemon that cannot be reached ends the whole pass: the entry stays running.
Connect(d) ==
    /\ pc[d] = "connect"
    /\ \/ Goto(d, "loop") /\ UNCHANGED <<todo, spent>>
       \/ Fault /\ Goto(d, "idle") /\ todo' = [todo EXCEPT ![d] = <<>>]
    /\ UNCHANGED <<runs, file, loops, edited>>

\* Mutant: the pass writes back the queue it has in memory, which holds the
\* courses it has still to drive.
FinishFromMemory(d) ==
    /\ pc[d] = "finish"
    /\ file' = [i \in DOMAIN todo[d] |-> IF i = 1 THEN Entry(todo[d][1], "stopped", stop[d])
                                                  ELSE Entry(todo[d][i], "queued", Absent)]
    /\ todo' = [todo EXCEPT ![d] = Tail(@)]
    /\ Forget(d)
    /\ Goto(d, "take")
    /\ UNCHANGED <<runs, edited, spent>>

Finish(d) ==
    /\ pc[d] = "finish"
    /\ file' = MarkStopped(file, Topic(d), stop[d])
    /\ todo' = [todo EXCEPT ![d] = Tail(@)]
    /\ Forget(d)
    /\ Goto(d, "take")
    /\ UNCHANGED <<runs, edited, spent>>

-----------------------------------------------------------------------------
\* run_until_judgment.

StopWith(d, kind) == stop' = [stop EXCEPT ![d] = kind] /\ Goto(d, "finish")

Iteration(d) == taken' = [taken EXCEPT ![d] = @ + 1]

OutOfSteps(d) ==
    /\ pc[d] = "loop" /\ taken[d] = MaxSteps
    /\ StopWith(d, "unfinished")
    /\ UNCHANGED <<runs, file, todo, seen, taken, edited, spent>>

Inside(d) == pc[d] = "loop" /\ taken[d] < MaxSteps

ReadStatus(d) ==
    /\ Inside(d) /\ seen[d] = Absent
    /\ seen' = [seen EXCEPT ![d] = at[Topic(d)]]
    /\ UNCHANGED <<runs, file, pc, todo, taken, stop, edited, spent>>

Sees(d, actions) == Inside(d) /\ seen[d] # Absent /\ Path[Topic(d)][seen[d]] \in actions

\* _guarded_mutation: the archive and the jobs, under the workspace lock.
Barred(t) == t \in archived \/ job[t] # Absent

\* advance does whatever machine step the run is on by now, finalizing too.
Advanced(t) == IF Next_(t) \in Machine \cup {"finalize"} /\ <<t, at[t]>> \notin Stuck
               THEN [at EXCEPT ![t] = @ + 1] ELSE at

Writes == {"write_prompt", "assemble"}

Advance(d) ==
    LET t == Topic(d)
    IN /\ Sees(d, Writes)
       /\ IF Barred(t)
          THEN StopWith(d, "failed") /\ UNCHANGED <<at, seen, taken>>
          ELSE /\ at' = Advanced(t)
               /\ seen' = [seen EXCEPT ![d] = Advanced(t)[t]]
               /\ Iteration(d)
               /\ UNCHANGED <<pc, stop>>
       /\ UNCHANGED <<archived, job, file, todo, edited, spent>>

\* The report clears the action, or asks for findings to be resolved; the
\* status is read again.
Validate(d) ==
    LET t == Topic(d)
    IN /\ Sees(d, {"validate"})
       /\ IF Barred(t)
          THEN StopWith(d, "failed") /\ UNCHANGED <<at, seen, taken>>
          ELSE /\ at' = IF Next_(t) = "validate" /\ <<t, at[t]>> \notin Stuck THEN [at EXCEPT ![t] = @ + 1] ELSE at
               /\ seen' = [seen EXCEPT ![d] = Absent]
               /\ Iteration(d)
               /\ UNCHANGED <<pc, stop>>
       /\ UNCHANGED <<archived, job, file, todo, edited, spent>>

\* A plan that cannot be read, or a stage without a provider, stops the loop;
\* else the daemon admits the job if a response is what the run asks for.
StartJob(d) ==
    LET t == Topic(d)
    IN /\ Sees(d, {"save_response"})
       /\ \/ /\ Fault
             /\ \E k \in {"manual", "plan_unreadable"} : StopWith(d, k)
             /\ UNCHANGED <<job, taken>>
          \/ /\ IF Barred(t) \/ Next_(t) # "save_response"
                THEN StopWith(d, "failed") /\ UNCHANGED <<job, taken>>
                ELSE /\ job' = [job EXCEPT ![t] = d]
                     /\ Goto(d, "wait")
                     /\ Iteration(d)
                     /\ UNCHANGED stop
             /\ UNCHANGED spent
       /\ UNCHANGED <<at, archived, file, todo, seen, edited>>

\* The stop names what the status asks for.
Stop(d) ==
    /\ Sees(d, Judgment)
    /\ StopWith(d, Path[Topic(d)][seen[d]])
    /\ UNCHANGED <<runs, file, todo, seen, taken, edited, spent>>

\* The job is terminal: it saved its response, or it failed. The process that
\* waits for it is told; a stall is an unchanged next action.
JobEnds(t) ==
    LET d == job[t]
    IN /\ d # Absent
       /\ job' = [job EXCEPT ![t] = Absent]
       /\ \/ /\ UNCHANGED spent
             /\ at' = IF Next_(t) = "save_response" /\ <<t, at[t]>> \notin Stuck THEN [at EXCEPT ![t] = @ + 1] ELSE at
             /\ IF d \in Drivers /\ pc[d] = "wait" /\ todo[d] # <<>> /\ Topic(d) = t
                THEN Goto(d, "waited") /\ UNCHANGED <<seen, stop>>
                ELSE UNCHANGED <<pc, seen, stop>>
          \/ /\ Fault /\ UNCHANGED at
             /\ IF d \in Drivers /\ pc[d] = "wait" /\ todo[d] # <<>> /\ Topic(d) = t
                THEN StopWith(d, "failed") /\ UNCHANGED seen
                ELSE UNCHANGED <<pc, seen, stop>>
       /\ UNCHANGED <<archived, file, todo, taken, edited>>

Waited(d) ==
    /\ pc[d] = "waited"
    /\ IF seen[d] = at[Topic(d)]
       THEN StopWith(d, "failed") /\ UNCHANGED seen
       ELSE Goto(d, "loop") /\ seen' = [seen EXCEPT ![d] = at[Topic(d)]] /\ UNCHANGED stop
    /\ UNCHANGED <<runs, file, todo, taken, edited, spent>>

-----------------------------------------------------------------------------
\* Everybody else.

\* A person does what the run asks a person for.
Judge(t) ==
    /\ Next_(t) \in Judgment \ {"done"} /\ ~Barred(t)
    /\ at' = [at EXCEPT ![t] = @ + 1]
    /\ UNCHANGED <<archived, job, file, pc, todo, loops, edited, spent>>

\* A person does a machine step, pastes a response, approves an earlier stage
\* again, or archives the course or takes it back.
Rework(t) ==
    /\ Fault
    /\ \/ /\ ~Barred(t) /\ Next_(t) # "done"
          /\ at' = [at EXCEPT ![t] = @ + 1] /\ UNCHANGED <<archived, job>>
       \/ ~Barred(t) /\ at' = [at EXCEPT ![t] = 1] /\ UNCHANGED <<archived, job>>
       \/ /\ job[t] = Absent /\ UNCHANGED <<at, job>>
          /\ archived' = IF t \in archived THEN archived \ {t} ELSE archived \cup {t}
    /\ UNCHANGED <<file, pc, todo, loops, edited>>

\* A process is killed; a job it waits for goes on.
Die(d) ==
    /\ Fault /\ pc[d] # "idle"
    /\ Goto(d, "idle")
    /\ todo' = [todo EXCEPT ![d] = <<>>] /\ Forget(d)
    /\ UNCHANGED <<runs, file, edited>>

Drive(d) ==
    \/ Take(d) \/ Connect(d) \/ Finish(d)
    \/ OutOfSteps(d) \/ ReadStatus(d) \/ Advance(d) \/ Validate(d) \/ StartJob(d)
    \/ Stop(d) \/ Waited(d)

QueueNext ==
    \/ \E d \in Drivers : Begin(d) \/ Drive(d) \/ Die(d)
    \/ \E e \in Editors : LoadForEdit(e) \/ SaveEdit(e)
    \/ \E t \in Topics : JobEnds(t) \/ Judge(t) \/ Rework(t)

QueueSpec == QueueInit /\ [][QueueNext]_queueVars

\* Processes go on, jobs end, and somebody starts `queue run` while courses are
\* pending. People owe nothing.
Fairness ==
    /\ \A d \in Drivers : WF_queueVars(Drive(d))
    /\ \A t \in Topics : WF_queueVars(JobEnds(t))
    /\ SF_queueVars(\E d \in Drivers : Begin(d))

FairQueueSpec == QueueSpec /\ Fairness

-----------------------------------------------------------------------------
\* Properties

\* Each course is queued once, whatever edits cross; a pass drives a course
\* once; a process waits only for a job.
QueueTypeOK ==
    /\ \A t \in Topics : at[t] \in 1..Len(Path[t]) /\ job[t] \in Drivers \cup {Absent}
    /\ archived \subseteq Topics
    /\ \A i, j \in DOMAIN file : file[i].topic = file[j].topic => i = j
    /\ \A i \in DOMAIN file : /\ file[i].topic \in Topics
                              /\ file[i].status \in {"queued", "running", "stopped"}
                              /\ file[i].stop \in Kinds \cup {Absent}
                              /\ file[i].status = "stopped" => file[i].stop # Absent
    /\ \A d \in Drivers : IsInjective(todo[d]) /\ taken[d] \in 0..MaxSteps

\* What a pass writes to the queue is about the course it is at.
WritesItsEntry(d) ==
    (pc[d] \in {"take", "finish"} /\ pc'[d] # pc[d] /\ file' # file) =>
        /\ DOMAIN file' = DOMAIN file
        /\ \A i \in DOMAIN file : file'[i] # file[i] => file[i].topic = Topic(d)

\* What its loop takes from people is only a finalizing of a run that others
\* moved there after the loop had read the status.
JudgesNothing(d) ==
    \A t \in Topics :
        (/\ Next_(t) \in Judgment /\ at'[t] # at[t]
         /\ pc[d] = "loop" /\ Topic(d) = t /\ taken'[d] # taken[d]) =>
            Next_(t) = "finalize" /\ seen[d] # at[t]

\* Passes keep to their course: courses added or removed while they drive stay
\* added and removed (_queue_transition), and no step that waits for a person's
\* judgment is taken by itself (run_until_judgment, advance).
PassesKeepToTheirCourse ==
    [][\A d \in Drivers : WritesItsEntry(d) /\ JudgesNothing(d)]_queueVars

\* How many steps a pass has left at most, by where it is, the courses it has
\* left, the iterations its loop has begun and what it has seen: four for each
\* iteration, of which one that waits for a job takes three, and seven more for
\* each course.
Rounds(begun) == 4 * (MaxSteps - begun)

AllStepsOf(courses) == courses * (Rounds(0) + 7)

StepsAt(place, courses, begun, status) ==
    LET here == CASE place = "take"    -> Rounds(0) + 6
                  [] place = "connect" -> Rounds(0) + 5
                  [] place = "wait"    -> Rounds(begun) + 5
                  [] place = "waited"  -> Rounds(begun) + 4
                  [] place = "loop"    -> Rounds(begun) + (IF status = Absent THEN 3 ELSE 2)
                  [] OTHER             -> 1
    IN IF place = "idle" THEN 0 ELSE AllStepsOf(courses) + here

StepsLeft(d) == StepsAt(pc[d], Len(todo[d]), taken[d], seen[d])

\* Nobody keeps a pass going: each step of its own brings it nearer to its end,
\* and what others do meanwhile, edits, jobs, reworks and other passes, never
\* takes it further away (run_until_judgment, MAX_STEPS, _cmd_queue_run).
PassesRunOut ==
    [][\A d \in Drivers :
          /\ Drive(d) => StepsLeft(d)' < StepsLeft(d)
          /\ pc[d] # "idle" => StepsLeft(d)' <= StepsLeft(d)]_queueVars

\* A pass ends, whatever the runs do: no machine step that clears nothing keeps
\* a loop going (MAX_STEPS). And a course in the queue is driven to a stop or
\* removed, also after the process that drove it died or lost its daemon
\* (pending_entries).
EveryCourseStops ==
    /\ \A d \in Drivers : pc[d] # "idle" ~> pc[d] = "idle"
    /\ \A t \in Topics : t \in Queued(file) ~>
           (t \notin Queued(file) \/ \E i \in DOMAIN file : file[i].topic = t /\ file[i].status = "stopped")
=============================================================================
