----------------------------- MODULE Discovery -----------------------------
(***************************************************************************)
(* Who is the daemon of a workspace (education_pipeline/daemon/lifecycle,  *)
(* serve() in daemon/__init__, ensure_daemon in client, `daemon stop` in   *)
(* cli, fix_workspace in workspace). There is one file, daemon.json. Each  *)
(* daemon claims it by an exclusive create, fills it in, serves, and       *)
(* removes it; clients read it to find the daemon or to start one; the     *)
(* maintenance commands remove it when they take it for stale.             *)
(*                                                                         *)
(* One step is one call on the file. Every client may spawn one daemon,    *)
(* which is named like its client. Process ids are not reused.             *)
(***************************************************************************)
EXTENDS Integers, FiniteSets

CONSTANTS
    Daemons,      \* daemon processes, each with the client that may spawn it
    Commands,     \* runs of `daemon stop` and `workspace check --fix`
    Absent,       \* there is no daemon.json
    MaxDeaths,    \* bound: daemons killed
    MaxFailures   \* bound: daemons that fail after their claim

ASSUME DiscoveryAssumption ==
    /\ Absent \notin [owner : Daemons, text : {"empty", "claim", "full"}]
    /\ MaxDeaths \in Nat
    /\ MaxFailures \in Nat

VARIABLES
    file,      \* Absent, or the process that created it and how far it is written
    pc,        \* the step each daemon is at
    client,    \* the step each client is at
    command,   \* the step each maintenance command is at
    deaths,
    failures,
    overlapped,  \* history: a daemon was spawned while another one claimed
    meddled      \* history: a serving daemon was interrupted, or a command that
                 \* found no running daemon is to remove the file

discoveryVars == <<file, pc, client, command, deaths, failures, overlapped, meddled>>
history == <<overlapped, meddled>>

Steps == {"unborn", "reading", "removing", "creating", "writing", "refused",
          "starting", "serving", "stopping", "interrupted", "unwinding", "exited", "dead"}

Alive(d) == pc[d] \notin {"unborn", "refused", "exited", "dead"}

claiming == {d \in Daemons : pc[d] \in {"reading", "removing", "creating", "writing"}}

\* Claimed, and not yet past the end of serve(): the pool may run.
owning == {d \in Daemons : pc[d] \in {"starting", "serving", "stopping", "interrupted"}}

\* read_discovery gives None for a file that is absent or does not parse.
Read == file # Absent /\ file.text # "empty"

Stale == Read /\ ~Alive(file.owner)

OwnerLives == Read /\ Alive(file.owner)

LiveRecord == OwnerLives /\ file.text = "full"

Goto(d, step) == pc' = [pc EXCEPT ![d] = step]

DiscoveryInit ==
    /\ file = Absent
    /\ pc = [d \in Daemons |-> "unborn"]
    /\ client = [d \in Daemons |-> "idle"]
    /\ command = [k \in Commands |-> "idle"]
    /\ deaths = 0
    /\ failures = 0
    /\ overlapped = FALSE
    /\ meddled = FALSE

-----------------------------------------------------------------------------
\* claim_discovery.

Look(d) ==
    /\ pc[d] = "reading"
    /\ Goto(d, IF OwnerLives THEN "refused" ELSE IF Stale THEN "removing" ELSE "creating")
    /\ UNCHANGED <<file, client, command, deaths, failures, history>>

\* The stale record is removed, whatever the file holds by now.
RemoveStale(d) ==
    /\ pc[d] = "removing"
    /\ file' = Absent
    /\ Goto(d, "creating")
    /\ UNCHANGED <<client, command, deaths, failures, history>>

\* Mutant: the refusal is raised inside the try, whose handler removes the file.
CreateInsideTry(d) ==
    /\ pc[d] = "creating"
    /\ IF file = Absent
       THEN file' = [owner |-> d, text |-> "empty"] /\ Goto(d, "writing")
       ELSE file' = Absent /\ Goto(d, "refused")
    /\ UNCHANGED <<client, command, deaths, failures, history>>

\* O_CREAT | O_EXCL: the loser's serve() raises before its try.
Create(d) ==
    /\ pc[d] = "creating"
    /\ \/ /\ file = Absent
          /\ file' = [owner |-> d, text |-> "empty"]
          /\ Goto(d, "writing")
       \/ /\ file # Absent
          /\ Goto(d, "refused")
          /\ UNCHANGED file
    /\ UNCHANGED <<client, command, deaths, failures, history>>

\* The pid goes to the created file, which may have been unlinked since.
WritePid(d) ==
    /\ pc[d] = "writing"
    /\ file' = IF file = [owner |-> d, text |-> "empty"]
               THEN [owner |-> d, text |-> "claim"] ELSE file
    /\ Goto(d, "starting")
    /\ UNCHANGED <<client, command, deaths, failures, history>>

-----------------------------------------------------------------------------
\* serve().

\* Mutant: serve() lets a startup failure pass without its handler.
FailLocked(d) ==
    /\ pc[d] = "starting"
    /\ failures < MaxFailures
    /\ failures' = failures + 1
    /\ Goto(d, "exited")
    /\ UNCHANGED <<file, client, command, deaths, history>>

\* Reconciling, the pool or the server fails to start: the claim is released.
FailToStart(d) ==
    /\ pc[d] = "starting"
    /\ failures < MaxFailures
    /\ failures' = failures + 1
    /\ file' = Absent
    /\ Goto(d, "exited")
    /\ UNCHANGED <<client, command, deaths, history>>

\* Mutant: the record is created, not replaced, and meets the placeholder.
PublishExclusive(d) ==
    /\ pc[d] = "starting"
    /\ file # Absent
    /\ file' = Absent
    /\ Goto(d, "exited")
    /\ UNCHANGED <<client, command, deaths, failures, history>>

\* write_discovery replaces the file, whoever's it is, with the full record.
WriteDiscovery(d) ==
    /\ pc[d] = "starting"
    /\ file' = [owner |-> d, text |-> "full"]
    /\ Goto(d, "serving")
    /\ UNCHANGED <<client, command, deaths, failures, history>>

\* KeyboardInterrupt in shutdown.wait(): its finally stops the daemon too.
Interrupt(d) ==
    /\ pc[d] = "serving"
    /\ meddled' = TRUE
    /\ Goto(d, "interrupted")
    /\ UNCHANGED <<file, client, command, deaths, failures, overlapped>>

\* The streams, the server and the pool have stopped: the file is removed. An
\* exception on its way out reaches the handler, which removes it once more.
Exit(d) ==
    /\ pc[d] \in {"stopping", "interrupted", "unwinding"}
    /\ file' = Absent
    /\ Goto(d, IF pc[d] = "interrupted" THEN "unwinding" ELSE "exited")
    /\ UNCHANGED <<client, command, deaths, failures, history>>

\* The process is killed at any point and leaves the file as it is.
Die(d) ==
    /\ deaths < MaxDeaths
    /\ Alive(d)
    /\ deaths' = deaths + 1
    /\ Goto(d, "dead")
    /\ UNCHANGED <<file, client, command, failures, history>>

-----------------------------------------------------------------------------
\* ensure_daemon.

\* A live record is used as it is; otherwise a daemon is spawned.
Ensure(d) ==
    /\ client[d] = "idle"
    /\ client' = [client EXCEPT ![d] = IF LiveRecord THEN "connected" ELSE "spawning"]
    /\ UNCHANGED <<file, pc, command, deaths, failures, history>>

Spawn(d) ==
    /\ client[d] = "spawning"
    /\ overlapped' = (overlapped \/ claiming # {})
    /\ client' = [client EXCEPT ![d] = "polling"]
    /\ Goto(d, "reading")
    /\ UNCHANGED <<file, command, deaths, failures, meddled>>

\* A poll finds a live record and the daemon it names answers.
Connect(d) ==
    /\ client[d] = "polling"
    /\ LiveRecord /\ pc[file.owner] = "serving"
    /\ client' = [client EXCEPT ![d] = "connected"]
    /\ UNCHANGED <<file, pc, command, deaths, failures, history>>

\* The deadline passes first.
GiveUp(d) ==
    /\ client[d] = "polling"
    /\ client' = [client EXCEPT ![d] = "failed"]
    /\ UNCHANGED <<file, pc, command, deaths, failures, history>>

-----------------------------------------------------------------------------
\* Maintenance commands.

\* `daemon stop` reads the file: a running daemon is called, else tidied up.
StopLooks(k) ==
    /\ command[k] = "idle"
    /\ command' = [command EXCEPT ![k] = IF OwnerLives THEN "calling" ELSE "removing"]
    /\ meddled' = (meddled \/ ~OwnerLives)
    /\ UNCHANGED <<file, pc, client, deaths, failures, overlapped>>

\* It reads the file again, for the port, and posts /v1/shutdown there.
StopCalls(k) ==
    /\ command[k] = "calling"
    /\ command' = [command EXCEPT ![k] = "done"]
    /\ IF LiveRecord /\ pc[file.owner] = "serving"
       THEN Goto(file.owner, "stopping")
       ELSE UNCHANGED pc
    /\ UNCHANGED <<file, client, deaths, failures, history>>

\* `workspace check --fix`, and `ui` before it starts: a file without a live
\* record is a stale_daemon_record.
FixLooks(k) ==
    /\ command[k] = "idle"
    /\ file # Absent /\ ~OwnerLives
    /\ command' = [command EXCEPT ![k] = "fixing"]
    /\ meddled' = TRUE
    /\ UNCHANGED <<file, pc, client, deaths, failures, overlapped>>

Tidy(k) ==
    /\ command[k] \in {"removing", "fixing"}
    /\ file' = Absent
    /\ command' = [command EXCEPT ![k] = "done"]
    /\ UNCHANGED <<pc, client, deaths, failures, history>>

-----------------------------------------------------------------------------
DiscoveryNext ==
    \/ \E d \in Daemons :
           \/ Look(d) \/ RemoveStale(d) \/ Create(d) \/ WritePid(d) \/ FailToStart(d)
           \/ WriteDiscovery(d) \/ Interrupt(d) \/ Exit(d) \/ Die(d)
           \/ Ensure(d) \/ Spawn(d) \/ Connect(d) \/ GiveUp(d)
    \/ \E k \in Commands : StopLooks(k) \/ StopCalls(k) \/ FixLooks(k) \/ Tidy(k)

DiscoverySpec == DiscoveryInit /\ [][DiscoveryNext]_discoveryVars

\* Processes run; nobody is obliged to start one, to fail or to be killed.
FairDiscoverySpec ==
    /\ DiscoverySpec
    /\ \A d \in Daemons :
           WF_discoveryVars(Look(d)) /\ WF_discoveryVars(RemoveStale(d)) /\ WF_discoveryVars(Create(d))
           /\ WF_discoveryVars(WritePid(d)) /\ WF_discoveryVars(WriteDiscovery(d)) /\ WF_discoveryVars(Exit(d))

\* While the protocol keeps its promise: no command and no second unwinding
\* may have removed a file that is not its own, and once a daemon was killed
\* daemons were started one at a time.
Orderly == ~meddled /\ (deaths = 0 \/ ~overlapped)

-----------------------------------------------------------------------------
\* Properties.

\* Every variable keeps its type.
DiscoveryTypeOK ==
    /\ file \in [owner : Daemons, text : {"empty", "claim", "full"}] \cup {Absent}
    /\ pc \in [Daemons -> Steps]
    /\ client \in [Daemons -> {"idle", "spawning", "polling", "connected", "failed"}]
    /\ command \in [Commands -> {"idle", "calling", "removing", "fixing", "done"}]
    /\ deaths \in 0..MaxDeaths
    /\ failures \in 0..MaxFailures
    /\ overlapped \in BOOLEAN
    /\ meddled \in BOOLEAN

\* Two processes never both run the pool and the server of one workspace.
OneOwner == \A d, e \in owning : d = e

\* The file is the owner's from its claim to its exit, and says what it has
\* done: nobody removes or replaces it under a daemon that serves.
OwnerKeepsFile ==
    \A d \in owning :
        file = [owner |-> d, text |-> IF pc[d] = "starting" THEN "claim" ELSE "full"]

\* One daemon per workspace, however many clients start one at once, fail or
\* stop it: losers of the exclusive create and failing starters leave the file
\* of the winner alone, and a killed daemon's file is replaced once.
OneDaemon == Orderly => OneOwner /\ OwnerKeepsFile

\* serve() releases its claim however it ends: the file names a process that
\* created it and, unless that was killed, has not ended. Neither a failed
\* start nor a refusal leaves the workspace locked.
NothingLeftBehind ==
    file # Absent =>
        pc[file.owner] \in {"writing", "starting", "serving", "stopping", "interrupted", "dead"}

\* What the order of the claims rests on when nothing interferes with it: the
\* claimant that has created the file still has it, a file about to be removed
\* for stale is stale until then, and no second claimant sees it.
ClaimsHold ==
    Orderly =>
        /\ OwnerKeepsFile
        /\ \A d \in Daemons :
               /\ pc[d] = "writing" => file = [owner |-> d, text |-> "empty"]
               /\ pc[d] = "removing" => file # Absent /\ ~Alive(file.owner) /\ ~overlapped
               /\ pc[d] \notin {"interrupted", "unwinding"}
        /\ \A k \in Commands : command[k] \notin {"removing", "fixing"}
        /\ ~overlapped => \A d, e \in claiming : d = e

\* The inductive invariant: with the types and what a daemon's step says about
\* its client and about the deaths so far.
DiscoveryInv ==
    /\ DiscoveryTypeOK
    /\ NothingLeftBehind
    /\ \A d \in Daemons :
           /\ client[d] \in {"idle", "spawning"} => pc[d] = "unborn"
           /\ pc[d] = "dead" => deaths > 0
    /\ ClaimsHold

\* Unless one of them fails, is killed or is meddled with, one of the daemons
\* that try serves, until it is told to stop: the exclusive create, the readers
\* and the stale check never refuse them all.
SomeoneServes ==
    \A d \in Daemons :
        pc[d] = "reading" ~>
            \/ \E e \in Daemons : pc[e] \in {"serving", "stopping"}
            \/ deaths + failures > 0
            \/ meddled
=============================================================================
