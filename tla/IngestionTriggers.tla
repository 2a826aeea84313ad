-------------------------- MODULE IngestionTriggers --------------------------
(***************************************************************************)
(* How a push to GitHub becomes a source sync: the signed webhook          *)
(* (src/app/api/routes/github_webhook.py), the scheduler                   *)
(* (src/app/workers/scheduler.py), the operator's button                   *)
(* (src/app/api/routes/ops.py), the Dramatiq queue between them and the    *)
(* workers, and the per-source lock (src/app/workers/sync.py).             *)
(*                                                                         *)
(* A version of a source is how often its followed ref was pushed.  What a *)
(* sync does between resolving the ref and publishing the snapshot is      *)
(* SourceSync's subject and is one step here.                              *)
(*                                                                         *)
(* The broker is external: RedisBroker delivers at least once, in order,   *)
(* puts a retried message at the tail and gives a dead worker's message    *)
(* back.  The lock's TTL (12 h by default) exceeds the task's time limit   *)
(* (4 h), so only a dead worker's lock expires.                            *)
(***************************************************************************)
EXTENDS Naturals, Sequences, FiniteSets

CONSTANTS
  Sources,           \* enabled entries of the registry
  Deliveries,        \* X-GitHub-Delivery ids, one per push
  Matches,           \* delivery -> the sources matching_push_sources selects
  Requests,          \* concurrent webhook requests in the API
  Workers,           \* Dramatiq worker threads
  MaxRetries,        \* the actor's max_retries
  Free, Orphan,      \* lock: nobody's, or left by a worker that died
  NoDelivery,        \* an idle request's delivery
  NoSource,          \* an idle worker's source
  ProcessesMayDie,   \* the API process and the workers may crash
  MaxQueue,          \* bound: messages a sender finds in the queue
  MaxManual,         \* bound: operator requests
  MaxReleases,       \* bound: times a delivery's claim is given back
  MaxFaults          \* bound: failures and crashes

ASSUME RequestAssumption == IsFiniteSet(Requests)

ASSUME MatchAssumption == Matches \in [Deliveries -> SUBSET Sources]

ASSUME NameAssumption ==
  /\ {Free, Orphan} \cap Workers = {} /\ Free # Orphan
  /\ NoDelivery \notin Deliveries
  /\ NoSource \notin Sources

ASSUME BoundAssumption ==
  /\ {MaxRetries, MaxQueue, MaxManual, MaxReleases, MaxFaults} \subseteq Nat
  /\ ProcessesMayDie \in BOOLEAN

VARIABLES
  head, synced,             \* source -> version upstream, version published
  sent,                     \* deliveries GitHub has made
  claims,                   \* Redis: claimed delivery ids
  place, delivery, todo,    \* a webhook request: where, which, sources to queue
  cycle,                    \* scheduler: sources left in this cycle
  queue,                    \* Dramatiq: [source, tries] in order
  lock,                     \* Redis: source -> holder
  job, seen,                \* a worker: its phase and message, version resolved
  manual, faults,           \* counters for the bounds
  queued, releases          \* history: see Properties

github  == <<head, sent>>
api     == <<claims, place, delivery, todo>>
workers == <<lock, job, seen, synced>>
history == <<queued, releases>>
vars    == <<github, api, cycle, queue, workers, manual, faults, history>>

Message  == [source : Sources, tries : 0 .. MaxRetries]
Job      == [phase : {"idle", "discover", "publish", "succeeded", "failed"},
             source : Sources \cup {NoSource}, tries : 0 .. MaxRetries]
NoJob    == [phase |-> "idle", source |-> NoSource, tries |-> 0]

TypeOK ==
  /\ head \in [Sources -> Nat]
  /\ synced \in [Sources -> Nat]
  /\ claims \subseteq sent /\ sent \subseteq Deliveries
  /\ place \in [Requests -> {"idle", "enqueue", "failed"}]
  /\ delivery \in [Requests -> sent \cup {NoDelivery}]
  /\ todo \in [Requests -> SUBSET Sources]
  /\ cycle \subseteq Sources
  /\ queue \in Seq(Message)
  /\ lock \in [Sources -> Workers \cup {Free, Orphan}]
  /\ job \in [Workers -> Job]
  /\ seen \in [Workers -> Nat]
  /\ manual \in 0 .. MaxManual
  /\ faults \in 0 .. MaxFaults
  /\ queued \in [Deliveries -> [Sources -> Nat]]
  /\ releases \in [Deliveries -> 0 .. MaxReleases]

Init ==
  /\ head = [s \in Sources |-> 0]
  /\ synced = [s \in Sources |-> 0]
  /\ sent = {}
  /\ claims = {}
  /\ place = [q \in Requests |-> "idle"]
  /\ delivery = [q \in Requests |-> NoDelivery]
  /\ todo = [q \in Requests |-> {}]
  /\ cycle = Sources
  /\ queue = <<>>
  /\ lock = [s \in Sources |-> Free]
  /\ job = [w \in Workers |-> NoJob]
  /\ seen = [w \in Workers |-> 0]
  /\ manual = 0
  /\ faults = 0
  /\ queued = [d \in Deliveries |-> [s \in Sources |-> 0]]
  /\ releases = [d \in Deliveries |-> 0]

Fault == faults < MaxFaults /\ faults' = faults + 1

\* sync_source_task.send: a message with no retries behind it.
SendTask(s) ==
  /\ Len(queue) < MaxQueue
  /\ queue' = Append(queue, [source |-> s, tries |-> 0])

-----------------------------------------------------------------------------
(* GitHub: external                                                        *)

\* A push moves the followed ref of every source its delivery matches.
Push ==
  /\ \E d \in Deliveries \ sent :
       /\ sent' = sent \cup {d}
       /\ head' = [s \in Sources |-> IF s \in Matches[d] THEN head[s] + 1 ELSE head[s]]
  /\ UNCHANGED <<api, cycle, queue, workers, manual, faults, history>>

-----------------------------------------------------------------------------
(* github_webhook: a delivery may arrive any number of times, or never     *)

StartEnqueue(q, d) ==
  /\ claims' = claims \cup {d}
  /\ place' = [place EXCEPT ![q] = "enqueue"]
  /\ delivery' = [delivery EXCEPT ![q] = d]
  /\ todo' = [todo EXCEPT ![q] = Matches[d]]

\* Mutant of Claim: the key is set without NX.
BugClaimShared(q) ==
  /\ place[q] = "idle"
  /\ \E d \in sent : StartEnqueue(q, d)
  /\ UNCHANGED <<github, cycle, queue, workers, manual, faults, history>>

\* SET NX.  A request that finds its delivery claimed is answered 202 as a
\* duplicate and changes nothing.
Claim(q) ==
  /\ place[q] = "idle"
  /\ \E d \in sent \ claims : StartEnqueue(q, d)
  /\ UNCHANGED <<github, cycle, queue, workers, manual, faults, history>>

\* One send of the loop over the matching sources.
Enqueue(q) ==
  /\ place[q] = "enqueue"
  /\ \E s \in todo[q] :
       /\ SendTask(s)
       /\ todo' = [todo EXCEPT ![q] = @ \ {s}]
       /\ queued' = [queued EXCEPT ![delivery[q]][s] = @ + 1]
  /\ UNCHANGED <<github, claims, place, delivery, cycle, workers, manual, faults,
                 releases>>

ForgetRequest(q) ==
  /\ place' = [place EXCEPT ![q] = "idle"]
  /\ delivery' = [delivery EXCEPT ![q] = NoDelivery]
  /\ todo' = [todo EXCEPT ![q] = {}]

AnswerProcessed(q) ==
  /\ place[q] = "enqueue"
  /\ todo[q] = {}
  /\ ForgetRequest(q)
  /\ UNCHANGED <<github, claims, cycle, queue, workers, manual, faults, history>>

\* A send raises: what was sent before it stays in the queue.
EnqueueFails(q) ==
  /\ place[q] = "enqueue"
  /\ todo[q] # {}
  /\ Fault
  /\ place' = [place EXCEPT ![q] = "failed"]
  /\ UNCHANGED <<github, claims, delivery, todo, cycle, queue, workers, manual,
                 history>>

\* The claim is deleted and the exception re-raised.  The key carries no
\* token: it may by now be another request's claim of the delivery.
ReleaseClaim(q) ==
  /\ place[q] = "failed"
  /\ LET d == delivery[q]
     IN  /\ d \in claims => releases[d] < MaxReleases
         /\ claims' = claims \ {d}
         /\ releases' = [releases EXCEPT ![d] = IF d \in claims THEN @ + 1 ELSE @]
  /\ ForgetRequest(q)
  /\ UNCHANGED <<github, cycle, queue, workers, manual, faults, queued>>

\* The broker and the claims live in one Redis: what failed the send makes the
\* deletion raise too.
ReleaseFails(q) ==
  /\ place[q] = "failed"
  /\ ForgetRequest(q)
  /\ UNCHANGED <<github, claims, cycle, queue, workers, manual, faults, history>>

\* The API process dies, or the client's disconnect cancels the request.
RequestDies(q) ==
  /\ ProcessesMayDie
  /\ place[q] # "idle"
  /\ Fault
  /\ ForgetRequest(q)
  /\ UNCHANGED <<github, claims, cycle, queue, workers, manual, history>>

\* github_webhook_delivery_ttl_seconds have passed.
ExpireClaim(d) ==
  /\ d \in claims
  /\ releases[d] < MaxReleases
  /\ claims' = claims \ {d}
  /\ releases' = [releases EXCEPT ![d] = @ + 1]
  /\ UNCHANGED <<github, place, delivery, todo, cycle, queue, workers, manual, faults,
                 queued>>

-----------------------------------------------------------------------------
(* The scheduler and the operator                                          *)

SchedulerSend ==
  /\ \E s \in cycle : SendTask(s) /\ cycle' = cycle \ {s}
  /\ UNCHANGED <<github, api, workers, manual, faults, history>>

\* Mutant of SchedulerWake: one cycle only, as with --once.
BugRunsOnce ==
  /\ cycle = {}
  /\ UNCHANGED vars

\* source_sync_interval_seconds have passed.
SchedulerWake ==
  /\ cycle = {}
  /\ cycle' = Sources
  /\ UNCHANGED <<github, api, queue, workers, manual, faults, history>>

\* A send raises out of main; the container is restarted and begins anew.
SchedulerFails ==
  /\ cycle # {}
  /\ Fault
  /\ cycle' = Sources
  /\ UNCHANGED <<github, api, queue, workers, manual, history>>

\* POST /v1/ops/sources/{id}/sync, and /v1/ops/sync source by source.
OpsEnqueue ==
  /\ manual < MaxManual
  /\ manual' = manual + 1
  /\ \E s \in Sources : SendTask(s)
  /\ UNCHANGED <<github, api, cycle, workers, faults, history>>

-----------------------------------------------------------------------------
(* sync_source_task                                                        *)

Phase(w, phase) == job' = [job EXCEPT ![w].phase = phase]

\* The lock is taken: the task returns "locked" and its message is done.
SkipLocked(w) ==
  /\ job[w].phase = "idle"
  /\ queue # <<>>
  /\ lock[Head(queue).source] # Free
  /\ queue' = Tail(queue)
  /\ UNCHANGED <<github, api, cycle, workers, manual, faults, history>>

TakeJob(w) ==
  /\ job[w].phase = "idle"
  /\ queue # <<>>
  /\ queue' = Tail(queue)
  /\ lock' = [lock EXCEPT ![Head(queue).source] = w]
  /\ job' = [job EXCEPT ![w] = [phase |-> "discover", source |-> Head(queue).source,
                                tries |-> Head(queue).tries]]
  /\ UNCHANGED <<github, api, cycle, seen, synced, manual, faults, history>>

\* Mutant of StartSync: the lock is overwritten, not tried.
BugIgnoresLock(w) == TakeJob(w)

StartSync(w) == TakeJob(w) /\ lock[Head(queue).source] = Free

\* The ref is resolved: what is pushed from here on, this sync does not see.
Discover(w) ==
  /\ job[w].phase = "discover"
  /\ seen' = [seen EXCEPT ![w] = head[job[w].source]]
  /\ Phase(w, "publish")
  /\ UNCHANGED <<github, api, cycle, queue, lock, synced, manual, faults, history>>

Publish(w) ==
  /\ job[w].phase = "publish"
  /\ synced' = [synced EXCEPT ![job[w].source] = seen[w]]
  /\ Phase(w, "succeeded")
  /\ UNCHANGED <<github, api, cycle, queue, lock, seen, manual, faults, history>>

\* An exception, or Dramatiq's time limit.
SyncFails(w) ==
  /\ job[w].phase \in {"discover", "publish"}
  /\ Fault
  /\ Phase(w, "failed")
  /\ UNCHANGED <<github, api, cycle, queue, lock, seen, synced, manual, history>>

EndJob(w) ==
  /\ job' = [job EXCEPT ![w] = NoJob]
  /\ seen' = [seen EXCEPT ![w] = 0]

\* lock.release() in the finally block, if the lock is still this worker's.
ReleaseLock(w) ==
  lock' = [s \in Sources |-> IF s = job[w].source /\ lock[s] = w THEN Free ELSE lock[s]]

FinishJob(w) ==
  /\ job[w].phase = "succeeded"
  /\ ReleaseLock(w)
  /\ EndJob(w)
  /\ UNCHANGED <<github, api, cycle, queue, synced, manual, faults, history>>

\* The Retries middleware: after max_retries the message is dead-lettered.
RetryJob(w) ==
  /\ job[w].phase = "failed"
  /\ queue' = IF job[w].tries < MaxRetries
                THEN Append(queue, [source |-> job[w].source, tries |-> job[w].tries + 1])
                ELSE queue
  /\ ReleaseLock(w)
  /\ EndJob(w)
  /\ UNCHANGED <<github, api, cycle, synced, manual, faults, history>>

\* The worker dies: the broker gives its message back, nobody its lock.
WorkerDies(w) ==
  /\ ProcessesMayDie
  /\ job[w].phase # "idle"
  /\ Fault
  /\ queue' = Append(queue, [source |-> job[w].source, tries |-> job[w].tries])
  /\ lock' = [s \in Sources |-> IF lock[s] = w THEN Orphan ELSE lock[s]]
  /\ EndJob(w)
  /\ UNCHANGED <<github, api, cycle, synced, manual, history>>

\* Redis expires the key of a dead worker.
ExpireLock(s) ==
  /\ lock[s] = Orphan
  /\ lock' = [lock EXCEPT ![s] = Free]
  /\ UNCHANGED <<github, api, cycle, queue, job, seen, synced, manual, faults, history>>

-----------------------------------------------------------------------------
Webhook(q) ==
  \/ Claim(q) \/ Enqueue(q) \/ AnswerProcessed(q)
  \/ EnqueueFails(q) \/ ReleaseClaim(q) \/ ReleaseFails(q) \/ RequestDies(q)

Work(w) ==
  SkipLocked(w) \/ StartSync(w) \/ Discover(w) \/ Publish(w) \/ FinishJob(w) \/ RetryJob(w)

Next ==
  \/ Push
  \/ \E q \in Requests : Webhook(q)
  \/ \E d \in Deliveries : ExpireClaim(d)
  \/ SchedulerSend \/ SchedulerWake \/ SchedulerFails
  \/ OpsEnqueue
  \/ \E w \in Workers : Work(w) \/ SyncFails(w) \/ WorkerDies(w)
  \/ \E s \in Sources : ExpireLock(s)

\* The scheduler loops for ever, workers consume while there are messages, and
\* Redis expires keys.  GitHub need not deliver anything, operators need not act.
Fairness ==
  /\ WF_vars(SchedulerSend) /\ WF_vars(SchedulerWake)
  /\ \A w \in Workers : WF_vars(Work(w))
  /\ \A s \in Sources : WF_vars(ExpireLock(s))

Spec == Init /\ [][Next]_vars /\ Fairness

-----------------------------------------------------------------------------
(* Properties                                                              *)

\* docs/source-update-triggers.md, "Self-healing path": whatever deliveries
\* are lost, dropped on a taken lock or dead-lettered, and whoever dies, the
\* knowledge of every source ends up at the version pushed last.
EndsFresh == \A s \in Sources : <>[](synced[s] = head[s])

\* A source never goes back to an older version, whichever of several queued,
\* retried and redelivered tasks run at once.
NeverRegresses == [][\A s \in Sources : synced'[s] >= synced[s]]_vars

\* A delivery is queued once per source for each time its claim was free:
\* redeliveries, however concurrent, do not fan out duplicate queue work.
\* queued counts its messages, releases how often the claim was given back.
QueuedOncePerClaim ==
  \A d \in Deliveries, s \in Sources : queued[d][s] <= 1 + releases[d]

=============================================================================
