----------------------- MODULE IngestionTriggersProofs -----------------------
(***************************************************************************)
(* Theorems about IngestionTriggers, for any number of sources, deliveries,*)
(* requests, workers and retries.                                          *)
(***************************************************************************)
EXTENDS IngestionTriggers, SequenceTheorems, FiniteSetTheorems, TLAPS

-----------------------------------------------------------------------------
(* Types                                                                   *)

LEMMA InitTyped == Init => TypeOK
<1> SUFFICES ASSUME Init PROVE TypeOK
  OBVIOUS
<1>1. 0 \in 0 .. MaxRetries /\ 0 \in 0 .. MaxManual /\ 0 \in 0 .. MaxFaults
      /\ 0 \in 0 .. MaxReleases
  BY BoundAssumption
<1>2. NoJob \in Job
  BY <1>1 DEF NoJob, Job
<1>3. queue \in Seq(Message)
  BY DEF Init
<1>4. QED
  BY <1>1, <1>2, <1>3 DEF Init, TypeOK

\* Counting one more message keeps a table of counts one.
LEMMA CountTyped ==
  ASSUME NEW f \in [Deliveries -> [Sources -> Nat]], NEW d, NEW s
  PROVE  [f EXCEPT ![d][s] = @ + 1] \in [Deliveries -> [Sources -> Nat]]
<1>1. ASSUME NEW e \in Deliveries
      PROVE  [f[e] EXCEPT ![s] = @ + 1] \in [Sources -> Nat]
  <2>1. f[e] \in [Sources -> Nat]
    OBVIOUS
  <2>2. CASE s \in Sources
    <3>1. f[e][s] + 1 \in Nat
      BY <2>1, <2>2
    <3>2. QED
      BY <2>1, <3>1
  <2>3. CASE s \notin Sources
    BY <2>1, <2>3
  <2>4. QED
    BY <2>2, <2>3
<1>2. QED
  BY <1>1

LEMMA FaultTyped ==
  ASSUME TypeOK, Fault
  PROVE  faults' \in 0 .. MaxFaults
BY BoundAssumption DEF TypeOK, Fault

\* A request that is not idle is about a delivery that was made.
Requesting == \A q \in Requests : place[q] # "idle" => delivery[q] \in sent

\* The webhook's steps.
LEMMA WebhookTyped ==
  ASSUME TypeOK, Requesting, NEW q \in Requests, Webhook(q)
  PROVE  TypeOK' /\ Requesting'
<1> USE BoundAssumption, MatchAssumption
<1>2. CASE Claim(q)
  BY <1>2 DEF Claim, StartEnqueue, github, workers, history, TypeOK, Requesting
<1>3. CASE Enqueue(q)
  <2>1. PICK s \in todo[q] :
          /\ SendTask(s)
          /\ todo' = [todo EXCEPT ![q] = @ \ {s}]
          /\ queued' = [queued EXCEPT ![delivery[q]][s] = @ + 1]
    BY <1>3 DEF Enqueue
  <2>2. s \in Sources
    BY <2>1 DEF TypeOK
  <2>3. [source |-> s, tries |-> 0] \in Message
    BY <2>2 DEF Message
  <2>4. queue' \in Seq(Message)
    BY <2>1, <2>3, AppendProperties DEF SendTask, TypeOK
  <2>5. queued' \in [Deliveries -> [Sources -> Nat]]
    BY <2>1, CountTyped DEF TypeOK
  <2>6. todo' \in [Requests -> SUBSET Sources]
    BY <2>1 DEF TypeOK
  <2>7. QED
    BY <1>3, <2>4, <2>5, <2>6 DEF Enqueue, github, workers, TypeOK, Requesting
<1>4. CASE AnswerProcessed(q)
  BY <1>4 DEF AnswerProcessed, ForgetRequest, github, workers, history, TypeOK, Requesting
<1>5. CASE EnqueueFails(q)
  BY <1>5, FaultTyped DEF EnqueueFails, github, workers, history, TypeOK, Requesting
<1>6. CASE ReleaseClaim(q)
  <2>1. delivery[q] \in Deliveries
    BY <1>6 DEF ReleaseClaim, TypeOK, Requesting
  <2>2. releases' \in [Deliveries -> 0 .. MaxReleases]
    BY <1>6, <2>1 DEF ReleaseClaim, TypeOK
  <2>3. QED
    BY <1>6, <2>2 DEF ReleaseClaim, ForgetRequest, github, workers, TypeOK, Requesting
<1>7. CASE ReleaseFails(q)
  BY <1>7 DEF ReleaseFails, ForgetRequest, github, workers, history, TypeOK, Requesting
<1>8. CASE RequestDies(q)
  BY <1>8, FaultTyped
     DEF RequestDies, ForgetRequest, github, workers, history, TypeOK, Requesting
<1>9. QED
  BY <1>2, <1>3, <1>4, <1>5, <1>6, <1>7, <1>8 DEF Webhook

\* The scheduler's, the operator's and the environment's.
LEMMA SenderTyped ==
  ASSUME TypeOK,
         \/ Push \/ SchedulerSend \/ SchedulerWake \/ SchedulerFails \/ OpsEnqueue
         \/ \E d \in Deliveries : ExpireClaim(d)
         \/ \E s \in Sources : ExpireLock(s)
  PROVE  TypeOK'
<1> USE BoundAssumption, MatchAssumption
<1>0. ASSUME NEW s \in Sources, SendTask(s) PROVE queue' \in Seq(Message)
  <2>1. [source |-> s, tries |-> 0] \in Message
    BY DEF Message
  <2>2. QED
    BY <1>0, <2>1, AppendProperties DEF SendTask, TypeOK
<1>1. CASE Push
  <2>0. head \in [Sources -> Nat]
    BY DEF TypeOK
  <2>1. head' \in [Sources -> Nat]
    BY <1>1, <2>0 DEF Push
  <2>2. QED
    BY <1>1, <2>1 DEF Push, api, workers, history, TypeOK
<1>2. CASE SchedulerSend
  <2>1. queue' \in Seq(Message)
    BY <1>0, <1>2 DEF SchedulerSend, TypeOK
  <2>2. QED
    BY <1>2, <2>1 DEF SchedulerSend, github, api, workers, history, TypeOK
<1>3. CASE SchedulerWake
  BY <1>3 DEF SchedulerWake, github, api, workers, history, TypeOK
<1>4. CASE SchedulerFails
  <2>1. faults' \in 0 .. MaxFaults
    BY <1>4, FaultTyped DEF SchedulerFails
  <2>2. QED
    BY <1>4, <2>1 DEF SchedulerFails, github, api, workers, history, TypeOK
<1>5. CASE OpsEnqueue
  <2>1. queue' \in Seq(Message)
    BY <1>0, <1>5 DEF OpsEnqueue
  <2>2. manual' \in 0 .. MaxManual
    BY <1>5 DEF OpsEnqueue, TypeOK
  <2>3. QED
    BY <1>5, <2>1, <2>2 DEF OpsEnqueue, github, api, workers, history, TypeOK
<1>6. ASSUME NEW d \in Deliveries, ExpireClaim(d) PROVE TypeOK'
  <2>1. releases \in [Deliveries -> 0 .. MaxReleases]
    BY DEF TypeOK
  <2>2. releases[d] + 1 \in 0 .. MaxReleases
    BY <1>6, <2>1 DEF ExpireClaim
  <2>3. releases' \in [Deliveries -> 0 .. MaxReleases]
    BY <1>6, <2>1, <2>2 DEF ExpireClaim
  <2>4. QED
    BY <1>6, <2>3 DEF ExpireClaim, github, workers, TypeOK
<1>7. ASSUME NEW s \in Sources, ExpireLock(s) PROVE TypeOK'
  BY <1>7 DEF ExpireLock, github, api, history, TypeOK
<1>8. QED
  BY <1>1, <1>2, <1>3, <1>4, <1>5, <1>6, <1>7

\* A message of the queue's head, or of a job, is one again at its tail.
LEMMA EndJobTyped ==
  ASSUME TypeOK, NEW w \in Workers, EndJob(w)
  PROVE  job' \in [Workers -> Job] /\ seen' \in [Workers -> Nat]
<1>1. NoJob \in Job
  BY BoundAssumption DEF NoJob, Job
<1>2. QED
  BY <1>1 DEF EndJob, TypeOK

\* Changing a job's phase keeps it a job.
LEMMA PhaseTyped ==
  ASSUME TypeOK, NEW w \in Workers,
         NEW phase \in {"idle", "discover", "publish", "succeeded", "failed"},
         Phase(w, phase)
  PROVE  job' \in [Workers -> Job]
<1>1. job \in [Workers -> Job]
  BY DEF TypeOK
<1>2. [job[w] EXCEPT !.phase = phase] \in Job
  BY <1>1 DEF Job
<1>3. QED
  BY <1>1, <1>2 DEF Phase

\* A job that is not idle is of some source, by Busy below.
Busy == \A w \in Workers : job[w].phase # "idle" => job[w].source \in Sources

LEMMA WorkerTyped ==
  ASSUME TypeOK, Busy, NEW w \in Workers, Work(w) \/ SyncFails(w) \/ WorkerDies(w)
  PROVE  TypeOK' /\ Busy'
<1> USE BoundAssumption
<1>0. job[w] \in Job
  BY DEF TypeOK
<1>1. CASE SkipLocked(w)
  <2>1. queue' \in Seq(Message)
    BY <1>1, HeadTailProperties DEF SkipLocked, TypeOK
  <2>2. QED
    BY <1>1, <2>1 DEF SkipLocked, github, api, workers, history, TypeOK, Busy
<1>2. CASE StartSync(w)
  <2>1. Head(queue) \in Message /\ queue' \in Seq(Message)
    BY <1>2, HeadTailProperties DEF StartSync, TakeJob, TypeOK
  <2> DEFINE new == [phase |-> "discover", source |-> Head(queue).source,
                     tries |-> Head(queue).tries]
  <2>2. new \in Job /\ new.source \in Sources
    BY <2>1 DEF Message, Job
  <2>3. job' = [job EXCEPT ![w] = new]
    BY <1>2 DEF StartSync, TakeJob
  <2>4. job' \in [Workers -> Job] /\ Busy'
    BY <2>2, <2>3 DEF TypeOK, Busy
  <2>5. lock' \in [Sources -> Workers \cup {Free, Orphan}]
    BY <1>2 DEF StartSync, TakeJob, TypeOK
  <2>6. QED
    BY <1>2, <2>1, <2>4, <2>5 DEF StartSync, TakeJob, github, api, history, TypeOK
<1>3. CASE Discover(w)
  <2>1. job[w].source \in Sources
    BY <1>3 DEF Discover, Busy
  <2>2. job' \in [Workers -> Job]
    BY <1>3, PhaseTyped DEF Discover
  <2>3. Busy'
    BY <1>3, <2>1 DEF Discover, Phase, TypeOK, Busy
  <2>4. seen' \in [Workers -> Nat]
    BY <1>3, <2>1 DEF Discover, TypeOK
  <2>5. QED
    BY <1>3, <2>2, <2>3, <2>4 DEF Discover, github, api, history, TypeOK
<1>4. CASE Publish(w)
  <2>1. job' \in [Workers -> Job]
    BY <1>4, PhaseTyped DEF Publish
  <2>2. Busy'
    BY <1>4 DEF Publish, Phase, TypeOK, Busy
  <2>3. synced' \in [Sources -> Nat]
    BY <1>4 DEF Publish, TypeOK
  <2>4. QED
    BY <1>4, <2>1, <2>2, <2>3 DEF Publish, github, api, history, TypeOK
<1>5. CASE SyncFails(w)
  <2>1. job' \in [Workers -> Job]
    BY <1>5, PhaseTyped DEF SyncFails
  <2>2. Busy'
    BY <1>5 DEF SyncFails, Phase, TypeOK, Busy
  <2>3. QED
    BY <1>5, <2>1, <2>2, FaultTyped DEF SyncFails, github, api, history, TypeOK
<1>6. ASSUME EndJob(w) PROVE Busy'
  BY <1>6 DEF EndJob, NoJob, Busy, TypeOK
<1>7. ASSUME ReleaseLock(w) PROVE lock' \in [Sources -> Workers \cup {Free, Orphan}]
  BY <1>7 DEF ReleaseLock, TypeOK
<1>8. CASE FinishJob(w)
  BY <1>6, <1>7, <1>8, EndJobTyped DEF FinishJob, github, api, history, TypeOK
<1>9. CASE RetryJob(w)
  <2>1. job[w].tries < MaxRetries =>
          [source |-> job[w].source, tries |-> job[w].tries + 1] \in Message
    BY <1>0, <1>9 DEF RetryJob, Busy, Job, Message
  <2>2. queue' \in Seq(Message)
    BY <1>9, <2>1, AppendProperties DEF RetryJob, TypeOK
  <2>3. QED
    BY <1>6, <1>7, <1>9, <2>2, EndJobTyped DEF RetryJob, github, api, history, TypeOK
<1>10. CASE WorkerDies(w)
  <2>1. [source |-> job[w].source, tries |-> job[w].tries] \in Message
    BY <1>0, <1>10 DEF WorkerDies, Busy, Job, Message
  <2>2. queue' \in Seq(Message)
    BY <1>10, <2>1, AppendProperties DEF WorkerDies, TypeOK
  <2>3. lock' \in [Sources -> Workers \cup {Free, Orphan}]
    BY <1>10 DEF WorkerDies, TypeOK
  <2>4. QED
    BY <1>6, <1>10, <2>2, <2>3, EndJobTyped, FaultTyped
       DEF WorkerDies, github, api, history, TypeOK
<1>11. QED
  BY <1>1, <1>2, <1>3, <1>4, <1>5, <1>8, <1>9, <1>10 DEF Work

TypeInv == TypeOK /\ Requesting /\ Busy

LEMMA NextTyped ==
  ASSUME TypeInv, [Next]_vars
  PROVE  TypeInv'
<1> USE DEF TypeInv
<1>1. ASSUME NEW q \in Requests, Webhook(q) PROVE TypeInv'
  <2>1. UNCHANGED job
    BY <1>1 DEF Webhook, Claim, Enqueue, AnswerProcessed, EnqueueFails,
                ReleaseClaim, ReleaseFails, RequestDies, workers
  <2>2. QED
    BY <1>1, <2>1, WebhookTyped DEF Busy
<1>2. ASSUME NEW w \in Workers, Work(w) \/ SyncFails(w) \/ WorkerDies(w) PROVE TypeInv'
  <2>1. UNCHANGED <<place, delivery, sent>>
    BY <1>2 DEF Work, SkipLocked, StartSync, TakeJob, Discover, Publish, FinishJob,
                RetryJob, SyncFails, WorkerDies, api, github
  <2>2. QED
    BY <1>2, <2>1, WorkerTyped DEF Requesting
<1>3. ASSUME \/ Push \/ SchedulerSend \/ SchedulerWake \/ SchedulerFails \/ OpsEnqueue
             \/ \E d \in Deliveries : ExpireClaim(d)
             \/ \E s \in Sources : ExpireLock(s)
      PROVE  TypeInv'
  <2>1. UNCHANGED <<place, delivery, job>> /\ sent \subseteq sent'
    BY <1>3 DEF Push, SchedulerSend, SchedulerWake, SchedulerFails, OpsEnqueue,
                ExpireClaim, ExpireLock, api, github, workers
  <2>2. QED
    BY <1>3, <2>1, SenderTyped DEF Requesting, Busy
<1>4. CASE UNCHANGED vars
  BY <1>4 DEF vars, github, api, workers, history, TypeOK, Requesting, Busy
<1>5. QED
  BY <1>1, <1>2, <1>3, <1>4 DEF Next

LEMMA AlwaysTyped == Spec => []TypeInv
<1>1. Init => TypeInv
  BY InitTyped DEF Init, TypeInv, Requesting, Busy, NoJob
<1>2. QED
  BY <1>1, NextTyped, PTL DEF Spec

\* Every reachable state is well typed.
THEOREM TriggersTyped == Spec => []TypeOK
BY AlwaysTyped, PTL DEF TypeInv

-----------------------------------------------------------------------------
(* Order of publication                                                    *)

\* A busy worker holds its source's lock: nobody else syncs that source.
Held ==
  \A w \in Workers : job[w].phase # "idle" => lock[job[w].source] = w

\* What a worker is about to publish was upstream, and is not older than what
\* is published already.
Ahead ==
  \A w \in Workers : job[w].phase = "publish" =>
    /\ synced[job[w].source] <= seen[w]
    /\ seen[w] <= head[job[w].source]

Behind == \A s \in Sources : synced[s] <= head[s]

OrderInv == TypeInv /\ Held /\ Ahead /\ Behind

\* The steps of everyone but the workers.
LEMMA OthersKeepOrder ==
  ASSUME OrderInv,
         \/ \E q \in Requests : Webhook(q)
         \/ \E d \in Deliveries : ExpireClaim(d)
         \/ SchedulerSend \/ SchedulerWake \/ SchedulerFails \/ OpsEnqueue
         \/ Push
         \/ \E s \in Sources : ExpireLock(s)
         \/ UNCHANGED vars
  PROVE  /\ Held' /\ Ahead' /\ Behind'
         /\ UNCHANGED synced
<1> USE DEF OrderInv
<1>1. ASSUME UNCHANGED <<head, workers>>
      PROVE  Held' /\ Ahead' /\ Behind' /\ UNCHANGED synced
  BY <1>1 DEF workers, Held, Ahead, Behind
<1>2. ASSUME NEW q \in Requests, Webhook(q) PROVE UNCHANGED <<head, workers>>
  BY <1>2 DEF Webhook, Claim, Enqueue, AnswerProcessed, EnqueueFails,
              ReleaseClaim, ReleaseFails, RequestDies, github
<1>3. ASSUME \/ SchedulerSend \/ SchedulerWake \/ SchedulerFails \/ OpsEnqueue
             \/ \E d \in Deliveries : ExpireClaim(d)
             \/ UNCHANGED vars
      PROVE  UNCHANGED <<head, workers>>
  BY <1>3 DEF SchedulerSend, SchedulerWake, SchedulerFails, OpsEnqueue, ExpireClaim,
              vars, github
<1>4. CASE Push
  <2>1. UNCHANGED workers /\ \A s \in Sources : head[s] <= head'[s] /\ head'[s] \in Nat
    BY <1>4 DEF Push, TypeInv, TypeOK
  <2>2. UNCHANGED <<job, lock, seen, synced>>
    BY <2>1 DEF workers
  <2>3. Ahead'
    BY <2>1, <2>2 DEF Ahead, TypeInv, TypeOK, Busy
  <2>4. Behind'
    BY <2>1, <2>2 DEF Behind, TypeInv, TypeOK
  <2>5. QED
    BY <2>2, <2>3, <2>4 DEF Held
<1>5. ASSUME NEW s \in Sources, ExpireLock(s)
      PROVE  Held' /\ Ahead' /\ Behind' /\ UNCHANGED synced
  <2>1. /\ lock[s] = Orphan
        /\ lock' = [lock EXCEPT ![s] = Free]
        /\ UNCHANGED <<head, job, seen, synced>>
    BY <1>5 DEF ExpireLock, github
  <2>2. Held'
    BY <2>1, NameAssumption DEF Held, TypeInv, TypeOK, Busy
  <2>3. QED
    BY <2>1, <2>2 DEF Ahead, Behind
<1>6. QED
  BY <1>1, <1>2, <1>3, <1>4, <1>5

\* A worker that lets go of its job leaves the others' locks alone.
LEMMA EndKeepsOrder ==
  ASSUME OrderInv, NEW w \in Workers, EndJob(w),
         ReleaseLock(w) \/ lock' = [s \in Sources |-> IF lock[s] = w THEN Orphan ELSE lock[s]],
         UNCHANGED <<head, synced>>
  PROVE  Held' /\ Ahead' /\ Behind'
<1> USE DEF OrderInv
<1>1. /\ job'[w].phase = "idle"
      /\ \A v \in Workers \ {w} : job'[v] = job[v] /\ seen'[v] = seen[v]
  BY DEF EndJob, NoJob, TypeInv, TypeOK
<1>2. \A s \in Sources : lock[s] # w => lock'[s] = lock[s]
  BY DEF ReleaseLock
<1>3. Held'
  BY <1>1, <1>2 DEF Held, TypeInv, Busy
<1>4. QED
  BY <1>1, <1>3 DEF Ahead, Behind

\* The workers' steps; only Publish changes what is published.
LEMMA WorkersKeepOrder ==
  ASSUME OrderInv, NEW w \in Workers, Work(w) \/ SyncFails(w) \/ WorkerDies(w)
  PROVE  /\ Held' /\ Ahead' /\ Behind'
         /\ \A s \in Sources : synced'[s] >= synced[s]
<1> USE DEF OrderInv
<1>0. UNCHANGED synced => \A s \in Sources : synced'[s] >= synced[s]
  BY DEF TypeInv, TypeOK
<1>1. CASE SkipLocked(w)
  BY <1>0, <1>1 DEF SkipLocked, github, workers, Held, Ahead, Behind
<1>2. CASE StartSync(w)
  <2>0. Head(queue) \in Message
    BY <1>2, HeadTailProperties DEF StartSync, TakeJob, TypeInv, TypeOK
  <2>1. Head(queue).source \in Sources
    BY <2>0 DEF Message
  <2>2. /\ job'[w].phase = "discover" /\ job'[w].source = Head(queue).source
        /\ \A v \in Workers \ {w} : job'[v] = job[v]
        /\ lock[Head(queue).source] = Free
        /\ lock' = [lock EXCEPT ![Head(queue).source] = w]
        /\ UNCHANGED <<head, seen, synced>>
    BY <1>2 DEF StartSync, TakeJob, github, TypeInv, TypeOK
  <2>3. Held'
    <3>1. ASSUME NEW v \in Workers \ {w}, job[v].phase # "idle"
          PROVE  lock'[job[v].source] = v
      <4>1. lock[job[v].source] = v /\ v # Free
        BY <3>1, NameAssumption DEF Held
      <4>2. QED
        BY <2>2, <4>1 DEF TypeInv, TypeOK
    <3>2. lock'[Head(queue).source] = w
      BY <2>1, <2>2 DEF TypeInv, TypeOK
    <3>3. QED
      BY <2>2, <3>1, <3>2 DEF Held
  <2>4. Ahead'
    BY <2>2 DEF Ahead
  <2>5. QED
    BY <1>0, <2>2, <2>3, <2>4 DEF Behind
<1>3. CASE Discover(w)
  <2>1. job[w].source \in Sources
    BY <1>3 DEF Discover, TypeInv, Busy
  <2>2. /\ job'[w].phase = "publish" /\ job'[w].source = job[w].source
        /\ \A v \in Workers \ {w} : job'[v] = job[v] /\ seen'[v] = seen[v]
        /\ job[w].phase # "idle"
        /\ seen'[w] = head[job[w].source]
        /\ UNCHANGED <<head, lock, synced>>
    BY <1>3 DEF Discover, Phase, github, TypeInv, TypeOK, Job
  <2>3. Held'
    BY <2>2 DEF Held
  <2>4. Ahead'
    <3>1. synced[job[w].source] <= head[job[w].source]
          /\ head[job[w].source] <= head[job[w].source]
      BY <2>1 DEF Behind, TypeInv, TypeOK
    <3>2. \A v \in Workers \ {w} : job[v].phase = "publish" =>
            synced[job[v].source] <= seen[v] /\ seen[v] <= head[job[v].source]
      BY DEF Ahead
    <3>3. QED
      BY <2>2, <3>1, <3>2 DEF Ahead
  <2>5. QED
    BY <1>0, <2>2, <2>3, <2>4 DEF Behind
<1>4. CASE Publish(w)
  <2> DEFINE s0 == job[w].source
  <2>1. s0 \in Sources
    BY <1>4 DEF Publish, TypeInv, Busy
  <2>2. /\ job[w].phase = "publish"
        /\ job'[w].phase = "succeeded" /\ job'[w].source = s0
        /\ \A v \in Workers \ {w} : job'[v] = job[v]
        /\ synced' = [synced EXCEPT ![s0] = seen[w]]
        /\ UNCHANGED <<head, lock, seen>>
    BY <1>4 DEF Publish, Phase, github, TypeInv, TypeOK, Job
  <2>3. synced[s0] <= seen[w] /\ seen[w] <= head[s0]
    BY <2>2 DEF Ahead
  <2>4. Held'
    BY <2>2 DEF Held
  <2>5. \A v \in Workers \ {w} : job[v].phase # "idle" => job[v].source # s0
    BY <2>2 DEF Held
  <2>6. synced \in [Sources -> Nat] /\ seen[w] \in Nat
    BY DEF TypeInv, TypeOK
  <2>7. \A s \in Sources \ {s0} : synced'[s] = synced[s]
    BY <2>2, <2>6
  <2>8. Ahead'
    BY <2>1, <2>2, <2>5, <2>7 DEF Ahead, TypeInv, Busy
  <2>9. Behind' /\ \A s \in Sources : synced'[s] >= synced[s]
    BY <2>1, <2>2, <2>3, <2>6, <2>7 DEF Behind
  <2>10. QED
    BY <2>4, <2>8, <2>9
<1>5. CASE SyncFails(w)
  <2>1. /\ job[w].phase # "idle"
        /\ job'[w].phase = "failed" /\ job'[w].source = job[w].source
        /\ \A v \in Workers \ {w} : job'[v] = job[v]
        /\ UNCHANGED <<head, lock, seen, synced>>
    BY <1>5 DEF SyncFails, Phase, github, TypeInv, TypeOK, Job
  <2>2. QED
    BY <1>0, <2>1 DEF Held, Ahead, Behind
<1>6. CASE FinishJob(w) \/ RetryJob(w) \/ WorkerDies(w)
  <2>1. /\ EndJob(w)
        /\ ReleaseLock(w)
           \/ lock' = [s \in Sources |-> IF lock[s] = w THEN Orphan ELSE lock[s]]
        /\ UNCHANGED <<head, synced>>
    BY <1>6 DEF FinishJob, RetryJob, WorkerDies, github
  <2>2. QED
    BY <1>0, <2>1, EndKeepsOrder
<1>7. QED
  BY <1>1, <1>2, <1>3, <1>4, <1>5, <1>6 DEF Work

LEMMA NextOrder ==
  ASSUME OrderInv, [Next]_vars
  PROVE  OrderInv' /\ \A s \in Sources : synced'[s] >= synced[s]
<1>1. TypeInv'
  BY NextTyped DEF OrderInv
<1>2. UNCHANGED synced => \A s \in Sources : synced'[s] >= synced[s]
  BY DEF OrderInv, TypeInv, TypeOK
<1>3. ASSUME NEW w \in Workers, Work(w) \/ SyncFails(w) \/ WorkerDies(w)
      PROVE  OrderInv' /\ \A s \in Sources : synced'[s] >= synced[s]
  BY <1>1, <1>3, WorkersKeepOrder DEF OrderInv
<1>4. ASSUME ~\E w \in Workers : Work(w) \/ SyncFails(w) \/ WorkerDies(w)
      PROVE  OrderInv' /\ UNCHANGED synced
  BY <1>1, <1>4, OthersKeepOrder DEF OrderInv, Next
<1>5. QED
  BY <1>2, <1>3, <1>4

\* Whatever is queued, retried, redelivered, dropped or interrupted, and
\* whoever dies, no source is ever published at an older version than before.
THEOREM TriggersOrdered == Spec => NeverRegresses
<1>1. Init => OrderInv
  <2> SUFFICES ASSUME Init PROVE OrderInv
    OBVIOUS
  <2>1. TypeInv
    BY InitTyped DEF Init, TypeInv, Requesting, Busy, NoJob
  <2>2. QED
    BY <2>1 DEF Init, OrderInv, Held, Ahead, Behind, NoJob
<1>2. OrderInv /\ [Next]_vars => OrderInv'
  BY NextOrder
<1>3. OrderInv /\ [Next]_vars => [\A s \in Sources : synced'[s] >= synced[s]]_vars
  BY NextOrder
<1>4. QED
  BY <1>1, <1>2, <1>3, PTL DEF Spec, NeverRegresses

-----------------------------------------------------------------------------
(* Duplicate queue work                                                    *)

\* The requests that will still queue a delivery for a source.
Pending(d, s) ==
  {q \in Requests : place[q] = "enqueue" /\ delivery[q] = d /\ s \in todo[q]}

Claimable(d) == IF d \in claims THEN 0 ELSE 1

\* Whoever queues a delivery holds, or held, a claim of its own: what is queued,
\* what will be and what a new claim may add are one more than the releases.
CountInv ==
  \A d \in Deliveries, s \in Sources :
    queued[d][s] + Cardinality(Pending(d, s)) + Claimable(d) <= 1 + releases[d]

LEMMA PendingFinite ==
  ASSUME NEW d, NEW s
  PROVE  /\ IsFiniteSet(Pending(d, s))
         /\ Cardinality(Pending(d, s)) \in Nat
<1>1. Pending(d, s) \in SUBSET Requests
  BY DEF Pending
<1>2. QED
  BY <1>1, FS_Subset, FS_CardinalityType, RequestAssumption

\* Steps that queue nothing, start nothing and release nothing.
LEMMA IdleKeepsCount ==
  ASSUME TypeInv, CountInv, UNCHANGED <<claims, queued, releases>>,
         \A d \in Deliveries, s \in Sources : Pending(d, s)' \subseteq Pending(d, s)
  PROVE  CountInv'
<1> SUFFICES ASSUME NEW d \in Deliveries, NEW s \in Sources
             PROVE  queued'[d][s] + Cardinality(Pending(d, s)') + Claimable(d)'
                      <= 1 + releases'[d]
  BY DEF CountInv
<1>1. /\ Cardinality(Pending(d, s)') <= Cardinality(Pending(d, s))
      /\ Cardinality(Pending(d, s)') \in Nat
  BY PendingFinite, FS_Subset, FS_CardinalityType
<1>2. queued[d][s] \in Nat /\ releases[d] \in Nat
  BY DEF TypeInv, TypeOK
<1>3. Claimable(d)' = Claimable(d) /\ Claimable(d) \in Nat
  BY DEF Claimable
<1>4. queued[d][s] + Cardinality(Pending(d, s)) + Claimable(d) <= 1 + releases[d]
  BY DEF CountInv
<1>5. QED
  BY <1>1, <1>2, <1>3, <1>4, PendingFinite

\* A claim lets its request queue each source once.
LEMMA ClaimKeepsCount ==
  ASSUME TypeInv, CountInv, NEW q \in Requests, Claim(q)
  PROVE  CountInv'
<1>1. PICK d0 \in sent \ claims : StartEnqueue(q, d0)
  BY DEF Claim
<1>2. /\ place[q] = "idle" /\ UNCHANGED <<queued, releases>>
      /\ claims' = claims \cup {d0}
  BY <1>1 DEF Claim, StartEnqueue, history
<1>3. /\ place'[q] = "enqueue" /\ delivery'[q] = d0
      /\ \A r \in Requests \ {q} :
           place'[r] = place[r] /\ delivery'[r] = delivery[r] /\ todo'[r] = todo[r]
  BY <1>1 DEF StartEnqueue, TypeInv, TypeOK
<1> SUFFICES ASSUME NEW d \in Deliveries, NEW s \in Sources
             PROVE  queued'[d][s] + Cardinality(Pending(d, s)') + Claimable(d)'
                      <= 1 + releases'[d]
  BY DEF CountInv
<1>4. queued[d][s] \in Nat /\ releases[d] \in Nat
  BY DEF TypeInv, TypeOK
<1>5. queued[d][s] + Cardinality(Pending(d, s)) + Claimable(d) <= 1 + releases[d]
  BY DEF CountInv
<1>6. CASE d = d0
  <2>1. Claimable(d) = 1 /\ Claimable(d)' = 0
    BY <1>1, <1>2, <1>6 DEF Claimable
  <2>2. q \notin Pending(d, s)
    BY <1>2 DEF Pending
  <2>3. Pending(d, s)' = Pending(d, s) \/ Pending(d, s)' = Pending(d, s) \cup {q}
    BY <1>2, <1>3 DEF Pending
  <2>4. Cardinality(Pending(d, s)') <= Cardinality(Pending(d, s)) + 1
        /\ Cardinality(Pending(d, s)') \in Nat
    BY <2>2, <2>3, PendingFinite, FS_AddElement
  <2>5. QED
    BY <1>2, <1>4, <1>5, <2>1, <2>4, PendingFinite
<1>7. CASE d # d0
  <2>1. Claimable(d)' = Claimable(d)
    BY <1>2, <1>7 DEF Claimable
  <2>2. Pending(d, s)' = Pending(d, s)
    BY <1>2, <1>3, <1>7 DEF Pending
  <2>3. QED
    BY <1>2, <1>5, <2>1, <2>2
<1>8. QED
  BY <1>6, <1>7

\* A message queued is one less to queue.
LEMMA EnqueueKeepsCount ==
  ASSUME TypeInv, CountInv, NEW q \in Requests, Enqueue(q)
  PROVE  CountInv'
<1>1. PICK s0 \in todo[q] :
        /\ todo' = [todo EXCEPT ![q] = @ \ {s0}]
        /\ queued' = [queued EXCEPT ![delivery[q]][s0] = @ + 1]
  BY DEF Enqueue
<1>2. /\ place[q] = "enqueue"
      /\ UNCHANGED <<claims, place, delivery, releases>>
  BY DEF Enqueue
<1>3. delivery[q] \in Deliveries /\ s0 \in Sources
  BY <1>1, <1>2 DEF TypeInv, TypeOK, Requesting
<1>4. todo'[q] = todo[q] \ {s0} /\ \A r \in Requests \ {q} : todo'[r] = todo[r]
  BY <1>1 DEF TypeInv, TypeOK
<1> SUFFICES ASSUME NEW d \in Deliveries, NEW s \in Sources
             PROVE  queued'[d][s] + Cardinality(Pending(d, s)') + Claimable(d)'
                      <= 1 + releases'[d]
  BY DEF CountInv
<1>5. queued[d][s] \in Nat /\ releases[d] \in Nat
  BY DEF TypeInv, TypeOK
<1>6. queued[d][s] + Cardinality(Pending(d, s)) + Claimable(d) <= 1 + releases[d]
  BY DEF CountInv
<1>7. Claimable(d)' = Claimable(d) /\ Claimable(d) \in Nat
  BY <1>2 DEF Claimable
<1>8. CASE d = delivery[q] /\ s = s0
  <2>0. queued \in [Deliveries -> [Sources -> Nat]]
    BY DEF TypeInv, TypeOK
  <2>1. queued'[d][s] = queued[d][s] + 1
    BY <1>1, <1>3, <1>8, <2>0
  <2>2. q \in Pending(d, s)
    BY <1>1, <1>2, <1>8 DEF Pending
  <2>3. Pending(d, s)' = Pending(d, s) \ {q}
    BY <1>2, <1>4, <1>8 DEF Pending
  <2>4. Cardinality(Pending(d, s) \ {q}) = Cardinality(Pending(d, s)) - 1
    BY <2>2, PendingFinite, FS_RemoveElement
  <2>5. QED
    BY <1>2, <1>5, <1>6, <1>7, <2>1, <2>3, <2>4, PendingFinite
<1>9. CASE ~(d = delivery[q] /\ s = s0)
  <2>0. queued \in [Deliveries -> [Sources -> Nat]]
    BY DEF TypeInv, TypeOK
  <2>1. queued'[d][s] = queued[d][s]
    <3>1. CASE d = delivery[q]
      BY <1>1, <1>3, <1>9, <2>0, <3>1
    <3>2. CASE d # delivery[q]
      BY <1>1, <2>0, <3>2
    <3>3. QED
      BY <3>1, <3>2
  <2>2. Pending(d, s)' = Pending(d, s)
    BY <1>2, <1>4, <1>9 DEF Pending
  <2>3. QED
    BY <1>2, <1>6, <1>7, <2>1, <2>2
<1>10. QED
  BY <1>8, <1>9

\* A claim given back is counted, whoever gives it back.
LEMMA ReleaseKeepsCount ==
  ASSUME TypeInv, CountInv, NEW d0 \in Deliveries,
         claims' = claims \ {d0},
         releases' = [releases EXCEPT ![d0] = IF d0 \in claims THEN @ + 1 ELSE @],
         UNCHANGED queued,
         \A d \in Deliveries, s \in Sources : Pending(d, s)' \subseteq Pending(d, s)
  PROVE  CountInv'
<1> SUFFICES ASSUME NEW d \in Deliveries, NEW s \in Sources
             PROVE  queued'[d][s] + Cardinality(Pending(d, s)') + Claimable(d)'
                      <= 1 + releases'[d]
  BY DEF CountInv
<1>1. queued[d][s] \in Nat /\ releases[d] \in Nat
  BY DEF TypeInv, TypeOK
<1>2. queued[d][s] + Cardinality(Pending(d, s)) + Claimable(d) <= 1 + releases[d]
  BY DEF CountInv
<1>3. /\ Cardinality(Pending(d, s)') <= Cardinality(Pending(d, s))
      /\ Cardinality(Pending(d, s)') \in Nat
  BY PendingFinite, FS_Subset, FS_CardinalityType
<1>4. releases'[d] - Claimable(d)' = releases[d] - Claimable(d)
      /\ releases'[d] \in Nat /\ Claimable(d) \in Nat /\ Claimable(d)' \in Nat
  <2>1. CASE d = d0
    <3>1. releases'[d] = IF d0 \in claims THEN releases[d] + 1 ELSE releases[d]
      BY <2>1 DEF TypeInv, TypeOK
    <3>2. Claimable(d)' = 1
      BY <2>1 DEF Claimable
    <3>3. QED
      BY <1>1, <2>1, <3>1, <3>2 DEF Claimable
  <2>2. CASE d # d0
    BY <1>1, <2>2 DEF Claimable, TypeInv, TypeOK
  <2>3. QED
    BY <2>1, <2>2
<1>5. QED
  BY <1>1, <1>2, <1>3, <1>4, PendingFinite

LEMMA NextCount ==
  ASSUME TypeInv, CountInv, [Next]_vars
  PROVE  CountInv'
<1>1. ASSUME UNCHANGED <<claims, queued, releases>>,
             \A q \in Requests : place'[q] = "enqueue" =>
               place[q] = "enqueue" /\ delivery'[q] = delivery[q] /\ todo'[q] = todo[q]
      PROVE  CountInv'
  <2>1. \A d \in Deliveries, s \in Sources : Pending(d, s)' \subseteq Pending(d, s)
    BY <1>1 DEF Pending
  <2>2. QED
    BY <1>1, <2>1, IdleKeepsCount
<1>2. ASSUME UNCHANGED <<api, queued, releases>> PROVE CountInv'
  BY <1>1, <1>2 DEF api
<1>3. ASSUME NEW q \in Requests, ForgetRequest(q) \/ place' = [place EXCEPT ![q] = "failed"],
             UNCHANGED <<claims, queued, releases>>,
             UNCHANGED <<delivery, todo>> \/ ForgetRequest(q)
      PROVE  CountInv'
  BY <1>1, <1>3 DEF ForgetRequest, TypeInv, TypeOK
<1>4. ASSUME NEW q \in Requests, Webhook(q) PROVE CountInv'
  <2>2. CASE AnswerProcessed(q)
    BY <1>3, <2>2 DEF AnswerProcessed, history
  <2>3. CASE EnqueueFails(q)
    BY <1>3, <2>3 DEF EnqueueFails, history
  <2>4. CASE ReleaseFails(q) \/ RequestDies(q)
    BY <1>3, <2>4 DEF ReleaseFails, RequestDies, history
  <2>5. CASE ReleaseClaim(q)
    <3>1. delivery[q] \in Deliveries
      BY <2>5 DEF ReleaseClaim, TypeInv, TypeOK, Requesting
    <3>2. \A d \in Deliveries, s \in Sources : Pending(d, s)' \subseteq Pending(d, s)
      BY <2>5 DEF ReleaseClaim, ForgetRequest, Pending, TypeInv, TypeOK
    <3>3. QED
      BY <2>5, <3>1, <3>2, ReleaseKeepsCount DEF ReleaseClaim
  <2>6. QED
    BY <1>4, <2>2, <2>3, <2>4, <2>5, ClaimKeepsCount, EnqueueKeepsCount DEF Webhook
<1>5. ASSUME NEW d0 \in Deliveries, ExpireClaim(d0) PROVE CountInv'
  <2>1. /\ claims' = claims \ {d0}
        /\ releases' = [releases EXCEPT ![d0] = IF d0 \in claims THEN @ + 1 ELSE @]
        /\ UNCHANGED <<queued, place, delivery, todo>>
    BY <1>5 DEF ExpireClaim
  <2>2. \A d \in Deliveries, s \in Sources : Pending(d, s)' \subseteq Pending(d, s)
    BY <2>1 DEF Pending
  <2>3. QED
    BY <2>1, <2>2, ReleaseKeepsCount
<1>6. ASSUME \/ Push \/ SchedulerSend \/ SchedulerWake \/ SchedulerFails \/ OpsEnqueue
             \/ \E s \in Sources : ExpireLock(s)
             \/ UNCHANGED vars
      PROVE  CountInv'
  BY <1>2, <1>6 DEF Push, SchedulerSend, SchedulerWake, SchedulerFails, OpsEnqueue,
                    ExpireLock, vars, history
<1>7. ASSUME NEW w \in Workers, Work(w) \/ SyncFails(w) \/ WorkerDies(w) PROVE CountInv'
  BY <1>2, <1>7 DEF Work, SkipLocked, StartSync, TakeJob, Discover, Publish, FinishJob,
                    RetryJob, SyncFails, WorkerDies, history
<1>8. QED
  BY <1>4, <1>5, <1>6, <1>7 DEF Next

\* However many redeliveries race, fail, die or outlive their claim, a delivery
\* is queued once per source and claim.
THEOREM TriggersQueueOnce == Spec => []QueuedOncePerClaim
<1>1. Init => CountInv
  <2> SUFFICES ASSUME Init, NEW d \in Deliveries, NEW s \in Sources
               PROVE  queued[d][s] + Cardinality(Pending(d, s)) + Claimable(d)
                        <= 1 + releases[d]
    BY DEF CountInv
  <2>1. Pending(d, s) = {}
    BY DEF Init, Pending
  <2>2. QED
    BY <2>1, FS_EmptySet DEF Init, Claimable
<1>2. TypeInv /\ CountInv /\ [Next]_vars => CountInv'
  BY NextCount
<1>3. TypeInv /\ CountInv => QueuedOncePerClaim
  <2> SUFFICES ASSUME TypeInv, CountInv, NEW d \in Deliveries, NEW s \in Sources
               PROVE  queued[d][s] <= 1 + releases[d]
    BY DEF QueuedOncePerClaim
  <2>1. queued[d][s] \in Nat /\ releases[d] \in Nat /\ Claimable(d) \in Nat
    BY DEF TypeInv, TypeOK, Claimable
  <2>2. QED
    BY <2>1, PendingFinite DEF CountInv
<1>4. QED
  BY <1>1, <1>2, <1>3, AlwaysTyped, PTL DEF Spec

=============================================================================
