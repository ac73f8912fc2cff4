------------------------------ MODULE EventHub ------------------------------
(***************************************************************************)
(* The change notices of GET /v1/events (education_pipeline/daemon/events, *)
(* _events_stream in daemon/server): while a stream is open one scanner    *)
(* thread compares the workspace's stats with the last ones and gives each *)
(* stream the notices of what differs. A scan is not atomic: it reads one  *)
(* entry after the other while the workspace changes.                      *)
(*                                                                         *)
(* _scan_lock is a variable; one step is one section under _lock, or one   *)
(* key of a scan. An entry's stat is the number of its changes: no change  *)
(* leaves it equal.                                                        *)
(***************************************************************************)
EXTENDS Integers, FiniteSets

CONSTANTS
    Topics,       \* topics of the workspace
    Streams,      \* requests of the stream; a reconnect is another one
    Kinds,        \* the kinds of edits that happen
    MaxStreams,   \* max_streams
    MaxGen,       \* bound: generations of the scanner
    MaxEdits      \* bound: edits of the workspace

AllKinds == {"run", "attach", "job", "topic", "topic file", "settings"}

ASSUME HubAssumption ==
    /\ Kinds \subseteq AllKinds
    /\ MaxStreams \in Nat \ {0}
    /\ MaxGen \in Nat
    /\ MaxEdits \in Nat
    /\ Streams \cap (0..MaxGen) = {}
    /\ IsFiniteSet(Streams)

VARIABLES
    disk,      \* disk[k]: the stat of key k of the fingerprint
    edits,     \* how many edits there were
    subs,      \* _subscribers
    pending,   \* pending[s]: s.pending
    closed,    \* _closed
    gen,       \* _scan_gen
    fp,        \* _fingerprint
    lock,      \* who has _scan_lock: a stream, a generation, or 0
    walk,      \* the fingerprint that the holder of _scan_lock is taking
    left,      \* the keys it has still to read
    stream,    \* the step each request is at
    scanner,   \* the step each generation's thread is at
    due        \* history: what each stream has to be told and was not

vars == <<disk, edits, subs, pending, closed, gen, fp, lock, walk, left, stream, scanner, due>>
hub == <<subs, pending, closed, gen, fp, due>>
threads == <<lock, walk, left, stream, scanner>>

Generations == 1..MaxGen

-----------------------------------------------------------------------------
\* The fingerprint and its differences.

Edits == [kind : Kinds, topic : Topics]

\* The keys an edit of the workspace is seen in: the profile snapshot lies in
\* the run's tree; a topic's file that is replaced changes its directory.
KeysOf(e) ==
    CASE e.kind = "run" -> {<<"run", e.topic>>}
      [] e.kind = "attach" -> {<<"run", e.topic>>, <<"attach", e.topic>>}
      [] e.kind = "job" -> {<<"jobs", e.topic>>}
      [] e.kind = "topic" -> {<<"topic", e.topic>>}
      [] e.kind = "topic file" -> {<<"topic", e.topic>>, <<"topics">>}
      [] OTHER -> {<<"topics">>}

\* The keys that differ between any two fingerprints under these edits.
Keys == UNION {KeysOf(e) : e \in Edits}

Notices == {<<"topics">>, <<"jobs">>} \cup {<<"run", t>> : t \in Topics}

\* Mutant: an attached profile and a topic's file are told to the run only.
NoticesUnpaired(k) ==
    CASE k[1] = "topics" -> {<<"topics">>}
      [] k[1] = "jobs" -> {<<"jobs">>, <<"run", k[2]>>}
      [] OTHER -> {<<"run", k[2]>>}

\* diff_fingerprints: what a change of one key is told as.
NoticesOf(k) ==
    CASE k[1] = "topics" -> {<<"topics">>}
      [] k[1] = "run" -> {<<"run", k[2]>>}
      [] k[1] = "jobs" -> {<<"jobs">>, <<"run", k[2]>>}
      [] OTHER -> {<<"topics">>, <<"run", k[2]>>}

\* The pages an edit concerns, as the design of the endpoint lists them.
Concerns(e) ==
    CASE e.kind = "run" -> {<<"run", e.topic>>}
      [] e.kind = "job" -> {<<"jobs">>, <<"run", e.topic>>}
      [] e.kind = "settings" -> {<<"topics">>}
      [] OTHER -> {<<"topics">>, <<"run", e.topic>>}

Differences(old, new) == UNION {NoticesOf(k) : k \in {j \in Keys : old[j] # new[j]}}

\* _publish_locked: a notice that is pending already is not added again.
Published(notices) ==
    [s \in Streams |-> IF s \in subs /\ ~closed THEN pending[s] \cup notices ELSE pending[s]]

Live(g) == ~closed /\ g = gen /\ subs # {}

-----------------------------------------------------------------------------
Init ==
    /\ disk = [k \in Keys |-> 0]
    /\ edits = 0
    /\ subs = {}
    /\ pending = [s \in Streams |-> {}]
    /\ closed = FALSE
    /\ gen = 0
    /\ fp = disk
    /\ lock = 0
    /\ walk = disk
    /\ left = {}
    /\ stream = [s \in Streams |-> "out"]
    /\ scanner = [g \in Generations |-> "unborn"]
    /\ due = [s \in Streams |-> {}]

\* Any process edits the workspace.
Edit(e) ==
    /\ edits < MaxEdits
    /\ edits' = edits + 1
    /\ disk' = [k \in Keys |-> IF k \in KeysOf(e) THEN disk[k] + 1 ELSE disk[k]]
    /\ due' = [s \in Streams |-> IF s \in subs THEN due[s] \cup Concerns(e) ELSE due[s]]
    /\ UNCHANGED <<subs, pending, closed, gen, fp, threads>>

\* job_saved: the nudge of a saved job record, ahead of the next scan.
JobSaved(t) ==
    /\ pending' = Published({<<"jobs">>, <<"run", t>>})
    /\ UNCHANGED <<disk, edits, subs, closed, gen, fp, due, threads>>

-----------------------------------------------------------------------------
\* A request of the stream.

Request(s) ==
    /\ stream[s] = "out"
    /\ stream' = [stream EXCEPT ![s] = "subscribing"]
    /\ UNCHANGED <<disk, edits, hub, lock, walk, left, scanner>>

Admit(s) ==
    /\ subs' = subs \cup {s}
    /\ due' = [due EXCEPT ![s] = {}]

\* Closed or at the cap: the request is answered 503.
Refuse(s) ==
    /\ stream[s] = "subscribing" /\ lock = 0
    /\ closed \/ Cardinality(subs) >= MaxStreams
    /\ stream' = [stream EXCEPT ![s] = "gone"]
    /\ UNCHANGED <<disk, edits, hub, lock, walk, left, scanner>>

\* Another stream is open: its scanner and its fingerprint serve this one too.
Share(s) ==
    /\ stream[s] = "subscribing" /\ lock = 0
    /\ ~closed /\ subs # {} /\ Cardinality(subs) < MaxStreams
    /\ Admit(s)
    /\ stream' = [stream EXCEPT ![s] = "open"]
    /\ UNCHANGED <<disk, edits, pending, closed, gen, fp, lock, walk, left, scanner>>

\* The first stream takes the baseline, with _scan_lock but not _lock held.
TakeBaseline(s) ==
    /\ stream[s] = "subscribing" /\ lock = 0
    /\ ~closed /\ subs = {}
    /\ lock' = s
    /\ left' = Keys
    /\ stream' = [stream EXCEPT ![s] = "baseline"]
    /\ UNCHANGED <<disk, edits, hub, walk, scanner>>

\* With the baseline taken it joins, unless the hub has been closed meanwhile.
Join(s) ==
    /\ stream[s] = "baseline" /\ left = {}
    /\ gen < MaxGen
    /\ IF closed
       THEN /\ stream' = [stream EXCEPT ![s] = "gone"]
            /\ lock' = 0
            /\ UNCHANGED <<subs, due, fp, gen>>
       ELSE /\ Admit(s)
            /\ fp' = walk
            /\ gen' = gen + 1
            /\ stream' = [stream EXCEPT ![s] = "launching"]
            /\ UNCHANGED lock
    /\ UNCHANGED <<disk, edits, pending, closed, walk, left, scanner>>

\* _start_scanner: close() may have ended the generation before its thread.
Launch(s) ==
    /\ stream[s] = "launching"
    /\ stream' = [stream EXCEPT ![s] = "open"]
    /\ lock' = 0
    /\ scanner' = IF closed THEN scanner ELSE [scanner EXCEPT ![gen] = "checking"]
    /\ UNCHANGED <<disk, edits, hub, walk, left>>

\* wait() drains what is pending, and pump() writes it.
Drain(s) ==
    /\ stream[s] = "open"
    /\ ~closed
    /\ pending[s] # {}
    /\ pending' = [pending EXCEPT ![s] = {}]
    /\ due' = [due EXCEPT ![s] = @ \ pending[s]]
    /\ UNCHANGED <<disk, edits, subs, closed, gen, fp, threads>>

\* The lifetime ends, the peer leaves, a write fails or the hub is closed.
Leave(s) ==
    /\ stream[s] = "open"
    /\ stream' = [stream EXCEPT ![s] = "gone"]
    /\ subs' = subs \ {s}
    /\ UNCHANGED <<disk, edits, pending, closed, gen, fp, lock, walk, left, scanner, due>>

\* The scanner of the closed generation ends, and so does every stream.
Close ==
    /\ ~closed /\ gen < MaxGen
    /\ closed' = TRUE
    /\ gen' = gen + 1
    /\ UNCHANGED <<disk, edits, subs, pending, fp, due, threads>>

-----------------------------------------------------------------------------
\* The scanner thread of generation g.

Check(g) ==
    /\ scanner[g] = "checking"
    /\ scanner' = [scanner EXCEPT ![g] = IF Live(g) THEN "dozing" ELSE "ended"]
    /\ UNCHANGED <<disk, edits, hub, lock, walk, left, stream>>

\* The interval passes, or the last stream leaves, or the hub is closed.
Wake(g) ==
    /\ scanner[g] = "dozing"
    /\ scanner' = [scanner EXCEPT ![g] = "locking"]
    /\ UNCHANGED <<disk, edits, hub, lock, walk, left, stream>>

\* Mutant: the generation is not checked again under _scan_lock.
BeginUnchecked(g) ==
    /\ scanner[g] = "locking" /\ lock = 0
    /\ scanner' = [scanner EXCEPT ![g] = "walking"]
    /\ lock' = g
    /\ left' = Keys
    /\ UNCHANGED <<disk, edits, hub, walk, stream>>

Begin(g) ==
    /\ scanner[g] = "locking" /\ lock = 0
    /\ IF Live(g)
       THEN /\ scanner' = [scanner EXCEPT ![g] = "walking"]
            /\ lock' = g
            /\ left' = Keys
       ELSE /\ scanner' = [scanner EXCEPT ![g] = "ended"]
            /\ UNCHANGED <<lock, left>>
    /\ UNCHANGED <<disk, edits, hub, walk, stream>>

\* The holder of _scan_lock stats the next entries, in any order.
Walk(k) ==
    /\ k \in left
    /\ walk' = [walk EXCEPT ![k] = disk[k]]
    /\ left' = left \ {k}
    /\ UNCHANGED <<disk, edits, hub, lock, stream, scanner>>

\* The pass is complete: its fingerprint replaces the last one.
Publish(g) ==
    /\ scanner[g] = "walking" /\ left = {}
    /\ fp' = walk
    /\ pending' = Published(Differences(fp, walk))
    /\ scanner' = [scanner EXCEPT ![g] = "checking"]
    /\ lock' = 0
    /\ UNCHANGED <<disk, edits, subs, closed, gen, due, walk, left, stream>>

\* Mutant: a failing pass ends the thread.
FailForGood(g) ==
    /\ scanner[g] = "walking"
    /\ scanner' = [scanner EXCEPT ![g] = "ended"]
    /\ lock' = 0
    /\ left' = {}
    /\ UNCHANGED <<disk, edits, hub, walk, stream>>

\* The pass raises: the last fingerprint stays, the next pass tries again.
Fail(g) ==
    /\ scanner[g] = "walking" /\ left # {}
    /\ scanner' = [scanner EXCEPT ![g] = "checking"]
    /\ lock' = 0
    /\ left' = {}
    /\ UNCHANGED <<disk, edits, hub, walk, stream>>

-----------------------------------------------------------------------------
Next ==
    \/ \E e \in Edits : Edit(e)
    \/ \E t \in Topics : JobSaved(t)
    \/ \E s \in Streams :
           \/ Request(s) \/ Refuse(s) \/ Share(s) \/ TakeBaseline(s) \/ Join(s)
           \/ Launch(s) \/ Drain(s) \/ Leave(s)
    \/ Close
    \/ \E g \in Generations : Check(g) \/ Wake(g) \/ Begin(g) \/ Publish(g) \/ Fail(g)
    \/ \E k \in Keys : Walk(k)

Spec == Init /\ [][Next]_vars

\* Threads run and waits end. A pass may fail, but not for ever.
FairSpec ==
    /\ Spec
    /\ \A s \in Streams :
           /\ WF_vars(Share(s) \/ TakeBaseline(s) \/ Refuse(s) \/ Join(s) \/ Launch(s))
           /\ WF_vars(Drain(s))
           /\ WF_vars(closed /\ Leave(s))
    /\ \A g \in Generations : WF_vars(Check(g) \/ Wake(g) \/ Begin(g) \/ Publish(g))
    /\ \A k \in Keys : WF_vars(Walk(k))
    /\ <>[][\A g \in Generations : ~Fail(g)]_vars

-----------------------------------------------------------------------------
\* Properties.

Scanning == {g \in Generations : scanner[g] \notin {"unborn", "ended"}}

\* Every variable of the hub keeps its type.
TypeOK ==
    /\ disk \in [Keys -> Nat] /\ fp \in [Keys -> Nat] /\ walk \in [Keys -> Nat]
    /\ edits \in 0..MaxEdits
    /\ subs \in SUBSET Streams
    /\ pending \in [Streams -> SUBSET Notices]
    /\ due \in [Streams -> SUBSET Notices]
    /\ closed \in BOOLEAN
    /\ gen \in 0..MaxGen
    /\ lock \in Streams \cup Generations \cup {0}
    /\ left \in SUBSET Keys
    /\ stream \in [Streams -> {"out", "subscribing", "baseline", "launching", "open", "gone"}]
    /\ scanner \in [Generations ->
           {"unborn", "checking", "dozing", "locking", "walking", "ended"}]

\* No notice is lost: what an open stream has to be told of is pending for it,
\* or the workspace still differs, in a key that is told so, from the
\* fingerprint that the next pass will compare with.
NothingLost ==
    ~closed =>
        \A s \in subs : \A n \in due[s] :
            \/ n \in pending[s]
            \/ \E k \in Keys : n \in NoticesOf(k) /\ disk[k] # fp[k]

\* A thread of an older generation runs no pass: what it compared would not be
\* what the streams that came after it were opened with.
StaleNeverScans == \A g \in Generations : scanner[g] = "walking" => g = gen \/ closed

\* While a stream is open there is a scanner of the current generation, or one
\* about to be started, in whatever order streams leave and others come; and no
\* more than max_streams streams are open.
Watched ==
    /\ Cardinality(subs) <= MaxStreams
    /\ subs # {} /\ ~closed =>
           gen \in Scanning \/ \E s \in Streams : stream[s] = "launching"

\* _scan_lock has one holder, which is the only one that scans; the subscribers
\* are the requests between their Join and their Leave.
LocksHeld ==
    /\ \A s \in Streams :
           /\ stream[s] \in {"baseline", "launching"} <=> lock = s
           /\ stream[s] \in {"launching", "open"} <=> s \in subs
           /\ stream[s] = "baseline" => subs = {}
           /\ stream[s] = "launching" => left = {} /\ gen > 0
    /\ \A g \in Generations :
           /\ scanner[g] = "walking" <=> lock = g
           /\ scanner[g] # "unborn" => g <= gen
    /\ lock = 0 => left = {}

\* The inductive invariant of the hub. No stat in a fingerprint is ahead of the
\* workspace, so that the next change shows.
HubInv ==
    /\ TypeOK
    /\ LocksHeld
    /\ \A k \in Keys : fp[k] <= disk[k] /\ walk[k] <= disk[k]
    /\ NothingLost
    /\ StaleNeverScans
    /\ Watched

\* A stream that stays open is told everything it has to be told.
Told ==
    \A s \in Streams : \A n \in Notices :
        s \in subs /\ n \in due[s] ~> n \notin due[s] \/ s \notin subs

\* Without streams, or after close(), every stream's request and every scanner
\* thread ends.
Quiet == <>[](closed \/ subs = {}) => <>[](subs = {} /\ Scanning = {})
=============================================================================
