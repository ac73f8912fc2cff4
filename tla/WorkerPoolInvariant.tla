------------------------- MODULE WorkerPoolInvariant -------------------------
(***************************************************************************)
(* The inductive invariant of WorkerPool: what makes each record have one  *)
(* writer at a time, and each completion one announcer.                    *)
(***************************************************************************)
EXTENDS WorkerPool

InSlot == Executing \cup {"release"}          \* between Admit and Release
Owing  == {"dropped", "release", "notify"}    \* a thread that owes the hook
Mine   == {"setMine", "forgetMine", "notifyMine"}   \* a client that owes it

\* A thread past Get holds a job, a client past its first read names one.
HandsOK ==
    /\ \A t \in Threads : held[t] = NoJob <=> pc[t] \in {"get", "exited"}
    /\ \A c \in Clients : cjob[c] = NoJob <=> cpc[c] = "idle"

\* No memory survives a death.
Asleep ==
    phase # "up" =>
        /\ queue = <<>>
        /\ running = {}
        /\ \A t \in Threads : pc[t] = "get"
        /\ \A c \in Clients : cpc[c] = "idle"

\* A job is on the queue once, or in the hands of one thread.
OnePlace ==
    /\ \A i, k \in DOMAIN queue :
           queue[i] = queue[k] /\ queue[i] \in Jobs => i = k
    /\ \A i \in DOMAIN queue, t \in Threads : queue[i] # held[t]
    /\ \A t, u \in Threads : held[t] = held[u] /\ held[t] # NoJob => t = u
    /\ \A i \in DOMAIN queue : queue[i] \in Jobs => status[queue[i]] # "none"
    /\ \A t \in Threads : held[t] # NoJob => status[held[t]] # "none"

\* Where a thread is determines what the record of its job says.
HeldRecord ==
    \A t \in Threads :
        /\ pc[t] \in {"read", "park", "start"} => held[t] \in claimed
        /\ pc[t] \in {"park", "start"} => status[held[t]] = "queued"
        /\ pc[t] \in Executing \ {"start"} => status[held[t]] = "running"
        /\ pc[t] \in InSlot => held[t] \in running
        /\ pc[t] \in Owing => status[held[t]] \in Terminal /\ hooks[held[t]] = 0

\* The slots agree with the admission rule, and the records with the slots.
Slots ==
    /\ \A j, k \in running : j # k => Batch[j] = Batch[k] /\ Batch[j] # NoBatch
    /\ phase = "up" => \A j \in Jobs : status[j] = "running" => j \in running

\* A client that made a job terminal is the only one to announce it.
OneAnnouncer ==
    /\ \A c \in Clients :
           cpc[c] \in Mine => status[cjob[c]] = "canceled" /\ hooks[cjob[c]] = 0
    /\ \A c, d \in Clients :
           cpc[c] \in Mine /\ cpc[d] \in Mine /\ cjob[c] = cjob[d] => c = d
    /\ \A c \in Clients, t \in Threads :
           cpc[c] \in Mine /\ held[t] = cjob[c] => pc[t] \in {"claim", "read"}

\* What a job leaves behind before its last write: a job that has not started has
\* no provider and no response, and the thread that executes it knows which of
\* the two there are.
Traces ==
    /\ \A j \in Jobs :
           status[j] \in {"none", "queued"} => j \notin child /\ j \notin ingested
    /\ \A t \in Threads :
           /\ pc[t] \in {"running", "ingest", "succeeding", "canceling"} =>
                  held[t] \notin child
           /\ pc[t] \in {"running", "spawned", "await", "ingest", "canceling"} =>
                  held[t] \notin ingested
           /\ pc[t] = "succeeding" => held[t] \in ingested

On(s, x)        == \E p \in DOMAIN s : s[p] = x
Before(s, x, y) == \E i, k \in DOMAIN s : i < k /\ s[i] = x /\ s[k] = y

\* A thread that has taken its job off the queue and not off the order.
Waits(t) == pc[t] \in {"claim", "read", "park", "dropped"}

\* The admission order and the queue agree: a job that waits is on the queue or
\* in the hands of a thread, and what waits behind a job that is still on the
\* queue is behind it on the queue too.
AdmissionOrder ==
    /\ phase # "up" => waiting = <<>>
    /\ \A j \in Jobs : ~ Before(waiting, j, j)
    /\ \A i \in DOMAIN waiting :
           \/ On(queue, waiting[i])
           \/ \E t \in Threads : held[t] = waiting[i] /\ Waits(t)
    /\ \A j, k \in Jobs : Before(waiting, j, k) /\ On(queue, j) => Before(queue, j, k)

\* A slot is taken as long as a thread is in it.
SlotsHeld == \A j \in running : \E t \in Threads : held[t] = j /\ pc[t] \in InSlot

\* During a shutdown each thread that has not returned has a sentinel, on the
\* queue or owed.
Exited         == {t \in Threads : pc[t] = "exited"}
SentinelsIn(s) == {p \in DOMAIN s : s[p] = Sentinel}
SentinelForEach ==
    /\ stopping => phase = "up"
    /\ stopping => Cardinality(SentinelsIn(queue)) + owed + Cardinality(Exited) = Cardinality(Threads)
    /\ ~ stopping => SentinelsIn(queue) = {} /\ owed = 0 /\ Exited = {}

\* A thread with something to do: a parked one has when its job may start or
\* has been canceled.
CanGo(t) ==
    /\ pc[t] \notin {"get", "exited"}
    /\ pc[t] = "park" => held[t] \in cancels \/ Admissible(held[t])

\* The pool never waits on itself: as long as a thread is parked behind other
\* jobs some thread can go on, though the head of the admission order may be on
\* the queue, canceled or forgotten; and while the pool stops no thread waits
\* on a queue that nothing will be put on.
PoolMoves ==
    phase = "up" =>
        /\ (\E t \in Threads : pc[t] = "park") => \E u \in Threads : CanGo(u)
        /\ stopping => \A t \in Threads : pc[t] = "get" => queue # <<>> \/ owed > 0

\* No completion is forgotten. Until a daemon dies a terminal job has been
\* announced, or one thread or client still has to.
Announcer(j) ==
    \/ hooks[j] = 1
    \/ \E t \in Threads : held[t] = j /\ pc[t] \in Owing
    \/ \E c \in Clients : cjob[c] = j /\ cpc[c] \in Mine
HookOwed ==
    crashes = 0 =>
        /\ phase = "up"
        /\ \A j \in Jobs : status[j] \in Terminal => Announcer(j)

\* The inductive invariant: each job has one place, its place decides what its
\* record says and what its run has left, and whoever makes it terminal is the
\* only one to announce it.
PoolInv ==
    /\ TypeOK
    /\ HandsOK
    /\ Asleep
    /\ OnePlace
    /\ HeldRecord
    /\ Slots
    /\ OneAnnouncer
    /\ OneBatchAtATime
    /\ HookOnce
    /\ Traces
    /\ RecordTellsTruth
    /\ NothingLost
    /\ AdmissionOrder
    /\ SlotsHeld
    /\ SentinelForEach
    /\ PoolMoves
    /\ HookOwed
=============================================================================
