-------------------------- MODULE WorkspaceStores --------------------------
(***************************************************************************)
(* The small files of a workspace and the requests and commands that       *)
(* rewrite them whole: profiles and topics (workspace.py), the model plan  *)
(* and its overrides (daemon/write_api.py), the registry of workspaces     *)
(* (registry.py) and a run's manifest (runs.py). Every call reads, decides *)
(* and replaces the file by a temporary one (atomic_io.py); the stores     *)
(* differ in what they hold meanwhile: nothing, a lock of the process, or  *)
(* the section of the run, that is a lock of the process and then the      *)
(* workspace lock. Commands that change a run hold the workspace lock      *)
(* around their guard and the section (cli.py _guarded_mutation).          *)
(***************************************************************************)
EXTENDS WorkspaceLock, SequencesExt

CONSTANTS
    Calls,        \* threads of the daemon, and commands
    Daemon,       \* the process of the daemon
    Blueprints,   \* ids of blueprints
    Recommended,  \* the one that a stored topic declares or is recommended
    None,         \* absent
    MaxCalls      \* bound: requests and commands

(* What the files hold: a manifest, or a content and its writer.           *)
Manifests == [contract : {"guide", "legacy"}, blueprint : Blueprints \cup {None},
              archived : BOOLEAN, events : SUBSET Nat]
Contents  == [n : Nat, by : Procs \cup {None}]

ASSUME StoresAssumption ==
    /\ Blocks = Calls \X {"guard", "section"}
    /\ None \notin Manifests /\ None \notin Contents
    /\ \A b \in Blocks : Proc[b] = Proc[<<b[1], "section">>]
    /\ Recommended \in Blueprints /\ Daemon \in Procs /\ MaxCalls \in Nat

VARIABLES
    file,   \* the files: an absent one, a content with its writer, the manifest
    at,     \* where each call is
    op,     \* what it does
    seen,   \* what it read of its file, or the base its client sent
    begun   \* calls so far

lockVars == <<pc, depth, owner, deaths>>
vars2    == <<lockVars, file, at, op, seen, begun>>

Guard(c)   == <<c, "guard">>
Section(c) == <<c, "section">>
In(c)      == Proc[Section(c)]
-----------------------------------------------------------------------------
(* What calls do to which file.                                            *)

Copies == <<"topic-copy", "topic-copy-2">>
Files  == {"profile", "topic", "plan", "overrides", "registry", "manifest"}
              \cup ToSet(Copies)

Do(kind, f)     == [kind |-> kind, file |-> f]
PutProfile      == Do("put", "profile")      \* create, edit, duplicate, save
ImportProfile   == Do("import", "profile")
CreateTopic     == Do("create", "topic")
ImportTopic     == Do("import", "topic")
DuplicateTopic  == Do("copy", "topic")
PutPlan         == Do("put", "plan")
PutOverrides    == Do("merge", "overrides")
RecordWorkspace == Do("merge", "registry")
Start(k, b)     == [kind |-> "start", file |-> "manifest",
                    contract |-> k, blueprint |-> b, then |-> FALSE]
Advance(b)      == [kind |-> "start", file |-> "manifest",
                    contract |-> None, blueprint |-> b, then |-> TRUE]
AppendEvent     == Do("append", "manifest")
Flag(archived)  == [kind |-> "flag", file |-> "manifest", archived |-> archived]
Done            == Do("done", "manifest")

Requests ==
    {PutProfile, ImportProfile, CreateTopic, ImportTopic, DuplicateTopic,
     PutPlan, PutOverrides, Flag(TRUE), Flag(FALSE)}
    \cup {Advance(b) : b \in Blueprints \cup {None}}

Commands ==
    {PutProfile, ImportTopic, RecordWorkspace, Start("legacy", None), Advance(None)}
    \cup {Start(None, b) : b \in Blueprints \cup {None}}

Scope(f) == CASE f = "manifest" -> "section"
              [] f = "profile"  -> "process"
              [] OTHER          -> "nothing"

Archived == file["manifest"] /= None /\ file["manifest"].archived

(* What needs a run that is not archived.                                  *)
OnRun(o) == o.file = "overrides" \/ (o.kind = "start" /\ o.then)
Guarded(c, o) == OnRun(o) /\ In(c) /= Daemon

(* The decision on what the file holds now. A put names the base that its  *)
(* client read, which may be that there is no file.                        *)
Admits(o, now, base) ==
    CASE o.kind = "put"                -> now = base
      [] o.kind \in {"create", "copy"} -> now = None
      [] o.kind = "flag"               -> now /= None
      [] o.kind = "start" ->
            IF now = None THEN o.contract = "legacy" => o.blueprint = None
            ELSE /\ o.contract \in {None, now.contract}
                 /\ o.blueprint /= None => /\ now.contract = "guide"
                                           /\ now.blueprint \in {None, o.blueprint}
      [] OTHER -> TRUE

(* _resolve_blueprint_record: the explicit one, else the stored topic's.   *)
Resolved(o) ==
    IF o.contract = "legacy" \/ o.blueprint /= None THEN o.blueprint
    ELSE IF file["topic"] /= None THEN Recommended ELSE None

Created(o) == [contract |-> IF o.contract = None THEN "guide" ELSE o.contract,
               blueprint |-> Resolved(o), archived |-> FALSE, events |-> {}]

(* _record_blueprint_locked: once.                                         *)
Recorded(m, b) == IF b = None \/ m.blueprint /= None THEN m ELSE [m EXCEPT !.blueprint = b]

Content(c, o, now) ==
    CASE o.kind = "start"  -> IF now = None THEN Created(o) ELSE Recorded(now, o.blueprint)
      [] o.kind = "flag"   -> [now EXCEPT !.archived = o.archived]
      [] o.kind = "append" -> [now EXCEPT !.events = @ \cup {begun}]
      [] OTHER             -> [n |-> begun, by |-> In(c)]
-----------------------------------------------------------------------------
StoresInit ==
    /\ Init
    /\ file = [f \in Files |-> IF f = "plan" THEN [n |-> 0, by |-> None] ELSE None]
    /\ at = [c \in Calls |-> "idle"]
    /\ op = [c \in Calls |-> Done]
    /\ seen = [c \in Calls |-> None]
    /\ begun = 0

Go(c, place) == at' = [at EXCEPT ![c] = place]

(* The first copy id that is free (_allocate_copy_id).                     *)
FreeCopies == {i \in DOMAIN Copies : file[Copies[i]] = None}
Target(o) ==
    IF o.kind = "copy"
    THEN [o EXCEPT !.file = Copies[CHOOSE i \in FreeCopies : \A j \in FreeCopies : i <= j]]
    ELSE o

\* Mutant: a command looks at the archive before it takes the lock.
BeginUnguarded(c, o) ==
    /\ at[c] = "idle" /\ begun < MaxCalls
    /\ \A b \in {Guard(c), Section(c)} : pc[b] = "out"
    /\ o \in IF In(c) = Daemon THEN Requests ELSE Commands
    /\ OnRun(o) => ~ Archived
    /\ o.kind = "copy" => file["topic"] /= None /\ FreeCopies /= {}
    /\ o.kind = "flag" \/ o.file = "overrides" => file["manifest"] /= None
    /\ op' = [op EXCEPT ![c] = Target(o)]
    /\ seen' = [seen EXCEPT ![c] = file[Target(o).file]]
    /\ begun' = begun + 1
    /\ Go(c, "begun") /\ UNCHANGED lockVars
    /\ UNCHANGED file

(* A request passes its guards without a lock; a command asks for the      *)
(* workspace lock first. A client read its base before it sends it.        *)
Begin(c, o) ==
    /\ at[c] = "idle" /\ begun < MaxCalls
    /\ \A b \in {Guard(c), Section(c)} : pc[b] = "out"
    /\ o \in IF In(c) = Daemon THEN Requests ELSE Commands
    /\ OnRun(o) /\ ~ Guarded(c, o) => ~ Archived
    /\ o.kind = "copy" => file["topic"] /= None /\ FreeCopies /= {}
    /\ o.kind = "flag" \/ o.file = "overrides" => file["manifest"] /= None
    /\ op' = [op EXCEPT ![c] = Target(o)]
    /\ seen' = [seen EXCEPT ![c] = file[Target(o).file]]
    /\ begun' = begun + 1
    /\ IF Guarded(c, o) THEN Go(c, "guarding") /\ Request(Guard(c))
                        ELSE Go(c, "begun") /\ UNCHANGED lockVars
    /\ UNCHANGED file

PassGuard(c) ==
    /\ at[c] = "guarding" /\ (Join(Guard(c)) \/ Win(Guard(c)))
    /\ Go(c, IF Archived THEN "leaving" ELSE "begun")
    /\ UNCHANGED <<file, op, seen, begun>>

(* The lock of the process is held from here to the replacement.           *)
Holding == {c \in Calls : at[c] \in {"waiting", "open", "decided", "written"}}

Free(c) == Scope(op[c].file) = "nothing" \/
           ~ \E d \in Holding : In(d) = In(c) /\ op[d].file = op[c].file

TakeLock(c) ==
    /\ at[c] = "begun" /\ Free(c)
    /\ IF Scope(op[c].file) = "section" THEN Go(c, "waiting") /\ Request(Section(c))
                                        ELSE Go(c, "open") /\ UNCHANGED lockVars
    /\ UNCHANGED <<file, op, seen, begun>>

Enter(c) ==
    /\ at[c] = "waiting" /\ (Join(Section(c)) \/ Win(Section(c)))
    /\ Go(c, "open")
    /\ UNCHANGED <<file, op, seen, begun>>

(* The deadline passes: WorkspaceLockedError, and the caller may try again.*)
GiveUp(c) ==
    /\ \/ at[c] = "guarding" /\ Refuse(Guard(c))
       \/ at[c] = "waiting" /\ Refuse(Section(c))
    /\ Go(c, "idle") /\ op' = [op EXCEPT ![c] = Done] /\ seen' = [seen EXCEPT ![c] = None]
    /\ UNCHANGED <<file, begun>>

TryAgain(c) ==
    /\ at[c] = "idle" /\ (Retry(Guard(c)) \/ Retry(Section(c)))
    /\ UNCHANGED <<file, at, op, seen, begun>>

Finish(c) ==
    /\ op' = [op EXCEPT ![c] = Done] /\ seen' = [seen EXCEPT ![c] = None]
    /\ Go(c, IF at[c] \in {"open", "decided"} /\ Scope(op[c].file) = "section"
             THEN "written" ELSE "idle")

\* Mutant: a manifest is decided on as it was when the call began.
DecideEarly(c) ==
    /\ at[c] = "open" /\ Admits(op[c], file[op[c].file], seen[c])
    /\ Go(c, "decided")
    /\ UNCHANGED <<lockVars, file, op, seen, begun>>

(* Read the file; a put keeps the base that it was compared with.          *)
Decide(c) ==
    /\ at[c] = "open" /\ Admits(op[c], file[op[c].file], seen[c])
    /\ seen' = [seen EXCEPT ![c] = IF op[c].kind = "put" THEN @ ELSE file[op[c].file]]
    /\ Go(c, "decided")
    /\ UNCHANGED <<lockVars, file, op, begun>>

Conflict(c) ==
    /\ at[c] = "open" /\ ~ Admits(op[c], file[op[c].file], seen[c])
    /\ Finish(c)
    /\ UNCHANGED <<lockVars, file, begun>>

(* Advance begins its second section with the event of its step.           *)
Write(c) ==
    /\ at[c] = "decided"
    /\ file' = [file EXCEPT ![op[c].file] = Content(c, op[c], seen[c])]
    /\ IF op[c].kind = "start" /\ op[c].then
       THEN Go(c, "written") /\ op' = [op EXCEPT ![c] = AppendEvent] /\ UNCHANGED seen
       ELSE Finish(c)
    /\ UNCHANGED <<lockVars, begun>>

Leave(c) ==
    /\ at[c] = "written" /\ Release(Section(c))
    /\ Go(c, IF op[c] = AppendEvent THEN "begun"
             ELSE IF pc[Guard(c)] = "in" THEN "leaving" ELSE "idle")
    /\ UNCHANGED <<file, op, seen, begun>>

LeaveGuard(c) ==
    /\ at[c] = "leaving" /\ Release(Guard(c))
    /\ Finish(c)
    /\ UNCHANGED <<file, begun>>

(* A killed process leaves the files as they are, at most with a temporary *)
(* one beside them.                                                        *)
Kill(p) ==
    /\ Die(p)
    /\ at'   = [c \in Calls |-> IF In(c) = p THEN "idle" ELSE at[c]]
    /\ op'   = [c \in Calls |-> IF In(c) = p THEN Done ELSE op[c]]
    /\ seen' = [c \in Calls |-> IF In(c) = p THEN None ELSE seen[c]]
    /\ UNCHANGED <<file, begun>>

StoresNext ==
    \/ \E c \in Calls :
          \/ \E o \in Requests \cup Commands : Begin(c, o)
          \/ PassGuard(c) \/ TakeLock(c) \/ Enter(c) \/ GiveUp(c) \/ TryAgain(c)
          \/ Decide(c) \/ Conflict(c) \/ Write(c) \/ Leave(c) \/ LeaveGuard(c)
    \/ \E p \in Procs : Kill(p)

StoresSpec == StoresInit /\ [][StoresNext]_vars2
-----------------------------------------------------------------------------
(* What must hold.                                                         *)

Writing(c) == at[c] = "decided" /\ at'[c] /= "decided" /\ file' /= file

(* Nobody replaces a content of a profile that he, or the client whose     *)
(* base he checks, has not seen, unless another process wrote it: the      *)
(* locks of profiles are those of a process. What replaces a manifest was  *)
(* made from that manifest, in whatever process. Only the files without a  *)
(* lock may lose a write to one that overlaps it (_write_profile,          *)
(* _read_manifest_for_update).                                             *)
LocksKeepWrites ==
    [][\A c \in Calls : Writing(c) =>
          LET f == op[c].file IN
          \/ file[f] = seen[c]
          \/ Scope(f) = "nothing"
          \/ Scope(f) = "process" /\ file[f] /= None /\ file[f].by /= In(c)]_vars2

(* The contract of a run never changes, its blueprint is recorded once, no *)
(* event is lost and the archive flag is nobody's by-product, whoever      *)
(* creates, advances or archives the run; and a command never moves an     *)
(* archived run, though the daemon may archive it at any time (create_run, *)
(* _set_archived, _guarded_mutation).                                      *)
Continues(m, n) ==
    /\ n.contract = m.contract
    /\ m.blueprint /= None => n.blueprint = m.blueprint
    /\ m.events \subseteq n.events
    /\ n.archived /= m.archived => n.events = m.events /\ n.blueprint = m.blueprint

RunStands ==
    [][LET m == file["manifest"]
           n == file'["manifest"] IN
       m /= None /\ n /= m =>
           /\ Continues(m, n)
           /\ m.archived /\ n.events /= m.events =>
                 \E c \in Calls : Writing(c) /\ op[c] = AppendEvent /\ In(c) = Daemon]_vars2
=============================================================================
