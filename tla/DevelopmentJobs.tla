--------------------------- MODULE DevelopmentJobs ---------------------------
(***************************************************************************)
(* DevelopmentJobManager (application/development_jobs.py): a bounded,     *)
(* in-memory table of probe jobs, the two threads that run them, and the   *)
(* HTTP threads that start, poll, cancel and prune them.  One action is    *)
(* one critical section of `self._lock`, or one step outside the lock.     *)
(*                                                                         *)
(* Time is kept as ages.  Of an active job the code only asks whether its  *)
(* created_at or started_at is MAX_JOB_AGE_SECONDS back, of an ended one   *)
(* whether finished_at is more than RETENTION_SECONDS back: a job's age    *)
(* counts from the time that matters and stops once the answer is yes.     *)
(* Jobs that ended within one tick have distinct finished_at in the code;  *)
(* the model lets pruning order them either way.                           *)
(***************************************************************************)
EXTENDS Naturals, Sequences, FiniteSets

CONSTANTS
    Jobs,        \* the uuid4 identifiers a run of the process hands out
    NoJob,       \* not a job
    Workers,     \* threads of the executor, ThreadPoolExecutor(max_workers=2)
    MaxActive,   \* MAX_ACTIVE_JOBS = 2
    Capacity,    \* the 32 jobs the table retains
    MaxAge,      \* MAX_JOB_AGE_SECONDS = 300
    Retention,   \* RETENTION_SECONDS = 3600
    MaxOps,      \* operations of the longest job ("all")
    Outcome      \* statuses of a probe's result: "ok", "warning", and "failed"
                 \* for what the code calls "error" or "unavailable"

ASSUME JobsAssumption == IsFiniteSet(Jobs) /\ NoJob \notin Jobs
ASSUME BoundsAssumption ==
    /\ MaxActive \in Nat \ {0} /\ Capacity \in Nat /\ MaxActive < Capacity
    /\ MaxAge \in Nat \ {0} /\ Retention \in Nat /\ MaxOps \in Nat \ {0}
    /\ Outcome \subseteq {"ok", "warning", "failed"}

VARIABLES
    registry,    \* keys of self._jobs
    job,         \* the _Job objects; a worker may hold one the table dropped
    stopping,    \* self._shutdown
    submitting,  \* jobs inserted by start() whose submit() call is still to come
    queue,       \* futures waiting in the executor
    closed,      \* the executor was shut down
    worker,      \* program counter, job and local `result` of each thread
    occurred,    \* occurred_at of each job's report, as a rank; 0 for no report
    saved,       \* jobs whose report is in the report store
    previous     \* the report each report is compared with

tableVars == <<registry, job>>
executorVars == <<submitting, queue, closed>>
reportVars == <<occurred, saved, previous>>
vars == <<registry, job, stopping, submitting, queue, closed, worker, occurred, saved, previous>>

-----------------------------------------------------------------------------
ActiveStatus == {"queued", "running"}
TerminalStatus == {"completed", "warning", "error", "cancelled"}
ErrorCode == {"none", "development_job_expired", "development_job_timeout",
              "report_persistence_failed", "development_job_failed"}

\* started, finished: started_at, finished_at is not None.
JobRecord == [status: {"none"} \cup ActiveStatus \cup TerminalStatus,
              ops: Nat, age: Nat, started: BOOLEAN, finished: BOOLEAN,
              results: Seq(Outcome), error: ErrorCode]

\* An identifier not handed out yet.
Unborn == [status |-> "none", ops |-> 0, age |-> 0, started |-> FALSE,
           finished |-> FALSE, results |-> <<>>, error |-> "none"]

Queued(n) == [Unborn EXCEPT !.status = "queued", !.ops = n]

\* A thread holds a result only between the probe and its append.
Holding == {"claim", "loop", "probe", "list", "build", "save", "unsaved", "finish", "fail"}
WorkerState == [pc: {"idle"}, job: {NoJob}, result: {"none"}]
                 \cup [pc: Holding, job: Jobs, result: {"none"}]
                 \cup [pc: {"append"}, job: Jobs, result: Outcome]
Idle == [pc |-> "idle", job |-> NoJob, result |-> "none"]

TypeOK ==
    /\ registry \subseteq Jobs
    /\ job \in [Jobs -> JobRecord]
    /\ stopping \in BOOLEAN /\ closed \in BOOLEAN
    /\ submitting \subseteq Jobs
    /\ queue \in Seq(Jobs)
    /\ worker \in [Workers -> WorkerState]
    /\ occurred \in [Jobs -> Nat] /\ saved \subseteq Jobs
    /\ previous \in [Jobs -> Jobs \cup {NoJob}]

Init ==
    /\ registry = {} /\ job = [j \in Jobs |-> Unborn]
    /\ stopping = FALSE /\ closed = FALSE
    /\ submitting = {} /\ queue = <<>>
    /\ worker = [w \in Workers |-> Idle]
    /\ occurred = [j \in Jobs |-> 0] /\ saved = {}
    /\ previous = [j \in Jobs |-> NoJob]

-----------------------------------------------------------------------------
(* Helpers that run with the lock held.                                    *)

IsActive(j) == job[j].status \in ActiveStatus

End(rec, status, error) ==
    [rec EXCEPT !.status = status, !.error = error, !.finished = TRUE, !.age = 0]

\* Mutant: expiry drops the results gathered so far.
ExpireDropsResults(rec) ==
    IF rec.status \in ActiveStatus /\ rec.age >= MaxAge
    THEN [End(rec, "error", "development_job_timeout") EXCEPT !.results = <<>>]
    ELSE rec
\* Mutant: the timer of a running job is not looked at.
ExpireQueuedOnly(rec) ==
    IF rec.status = "queued" /\ rec.age >= MaxAge
    THEN End(rec, "error", "development_job_expired") ELSE rec
\* _expire_locked: only a queued or running job ages out.
ExpireLocked(rec) ==
    IF rec.status \in ActiveStatus /\ rec.age >= MaxAge
    THEN End(rec, "error", IF rec.started THEN "development_job_timeout"
                                          ELSE "development_job_expired")
    ELSE rec

\* _prune_locked: drop what ended longer than Retention ago; if the table is
\* still full, drop the oldest ended jobs until it holds Capacity - 1.
Stale == {j \in registry : job[j].finished /\ job[j].age > Retention}

\* Mutants: full only above Capacity; the oldest jobs, ended or not.
EvictionsLate(kept) ==
    LET ended == {j \in kept : job[j].finished} IN
    IF Cardinality(kept) <= Capacity THEN {{}} ELSE {{e} : e \in ended}
EvictionsOfAny(kept) ==
    IF Cardinality(kept) < Capacity THEN {{}} ELSE {{e} : e \in kept}
Evictions(kept) ==
    LET ended == {j \in kept : job[j].finished}
        excess == Cardinality(kept) - (Capacity - 1)
    IN  IF Cardinality(kept) < Capacity THEN {{}}
        ELSE {E \in SUBSET ended :
                /\ \/ Cardinality(E) = excess
                   \/ E = ended /\ Cardinality(ended) < excess
                /\ \A e \in E, f \in ended \ E : job[e].age >= job[f].age}

PrunedRegistries ==
    LET kept == registry \ Stale IN {kept \ E : E \in Evictions(kept)}

ActiveIn(S) == {j \in S : IsActive(j)}

\* Mutant: one job too many.
HasRoomOffByOne(kept) == Cardinality(ActiveIn(kept)) <= MaxActive
HasRoom(kept) == Cardinality(ActiveIn(kept)) < MaxActive

-----------------------------------------------------------------------------
(* HTTP threads.                                                           *)

\* start(), its critical section: prune, refuse, or insert a queued job.
Start(j) ==
    /\ job[j].status = "none"
    /\ ~stopping
    /\ \E kept \in PrunedRegistries, n \in 1 .. MaxOps :
         /\ HasRoom(kept)
         /\ registry' = kept \cup {j}
         /\ job' = [job EXCEPT ![j] = Queued(n)]
    /\ submitting' = submitting \cup {j}
    /\ UNCHANGED <<stopping, queue, closed, worker, reportVars>>

\* development_jobs_shutdown, development_jobs_busy: pruning stays done.
StartRejected ==
    /\ \E kept \in PrunedRegistries :
         /\ stopping \/ ~HasRoom(kept)
         /\ registry' = kept
    /\ UNCHANGED <<job, stopping, executorVars, worker, reportVars>>

\* Mutant: the job is submitted again.
SubmitTwice(j) ==
    /\ j \in submitting
    /\ queue' = Append(queue, j)
    /\ UNCHANGED <<tableVars, stopping, submitting, closed, worker, reportVars>>
\* start(), after the lock: submit() raises once the executor is shut down.
Submit(j) ==
    /\ j \in submitting
    /\ submitting' = submitting \ {j}
    /\ queue' = IF closed THEN queue ELSE Append(queue, j)
    /\ UNCHANGED <<tableVars, stopping, closed, worker, reportVars>>

Snapshot(j) ==
    /\ j \in registry
    /\ job' = [job EXCEPT ![j] = ExpireLocked(@)]
    /\ UNCHANGED <<registry, stopping, executorVars, worker, reportVars>>

\* Mutant: the finish time is forgotten.
CancelUnstamped(j) ==
    /\ j \in registry
    /\ job[j].status = "queued"
    /\ job' = [job EXCEPT ![j].status = "cancelled"]
    /\ UNCHANGED <<registry, stopping, executorVars, worker, reportVars>>
Cancel(j) ==
    /\ j \in registry
    /\ job[j].status = "queued"
    /\ job' = [job EXCEPT ![j] = End(@, "cancelled", @.error)]
    /\ UNCHANGED <<registry, stopping, executorVars, worker, reportVars>>

Cleanup ==
    /\ registry' \in PrunedRegistries
    /\ UNCHANGED <<job, stopping, executorVars, worker, reportVars>>

\* shutdown() sets the flag under the lock, then shuts the executor down:
\* cancel_futures=True empties its queue.
StopAccepting ==
    /\ stopping' = TRUE
    /\ UNCHANGED <<tableVars, executorVars, worker, reportVars>>

CloseExecutor ==
    /\ stopping
    /\ closed' = TRUE /\ queue' = <<>>
    /\ UNCHANGED <<tableVars, stopping, submitting, worker, reportVars>>

-----------------------------------------------------------------------------
(* Worker threads: _execute.                                               *)

Held(pc, j) == [pc |-> pc, job |-> j, result |-> "none"]
Goto(w, pc) == worker' = [worker EXCEPT ![w] = Held(pc, @.job)]
Return(w) == worker' = [worker EXCEPT ![w] = Idle]

Started(rec) == [rec EXCEPT !.status = "running", !.started = TRUE, !.age = 0]
WithResult(rec, result) == [rec EXCEPT !.results = Append(@, result)]
Verdict(results) ==
    LET seen == {results[i] : i \in DOMAIN results}
    IN  IF "failed" \in seen THEN "error"
        ELSE IF "warning" \in seen THEN "warning" ELSE "completed"

\* The executor hands the oldest future to an idle thread.
Take(w) ==
    /\ worker[w].pc = "idle"
    /\ queue # <<>>
    /\ worker' = [worker EXCEPT ![w] = Held("claim", Head(queue))]
    /\ queue' = Tail(queue)
    /\ UNCHANGED <<tableVars, stopping, submitting, closed, reportVars>>

\* Mutant: the status is not checked when the thread gets to the job.
ClaimUnchecked(w) ==
    LET j == worker[w].job IN
    /\ worker[w].pc = "claim"
    /\ job' = [job EXCEPT ![j] = Started(@)]
    /\ Goto(w, "loop")
    /\ UNCHANGED <<registry, stopping, executorVars, reportVars>>
Claim(w) ==
    LET j == worker[w].job IN
    /\ worker[w].pc = "claim"
    /\ IF j \notin registry \/ job[j].status # "queued"
       THEN Return(w) /\ UNCHANGED job
       ELSE /\ job' = [job EXCEPT ![j] = Started(@)]
            /\ Goto(w, "loop")
    /\ UNCHANGED <<registry, stopping, executorVars, reportVars>>

\* Mutant: an expired job does not leave the loop.
NextOperationLoops(w) ==
    LET j == worker[w].job IN
    /\ worker[w].pc = "loop"
    /\ IF Len(job[j].results) = job[j].ops
       THEN Goto(w, "list") /\ UNCHANGED job
       ELSE /\ job' = [job EXCEPT ![j] = ExpireLocked(@)]
            /\ Goto(w, IF job'[j].status = "error" THEN "loop" ELSE "probe")
    /\ UNCHANGED <<registry, stopping, executorVars, reportVars>>
\* Head of the loop over job.operations; Len(results) counts the iterations.
NextOperation(w) ==
    LET j == worker[w].job IN
    /\ worker[w].pc = "loop"
    /\ IF Len(job[j].results) = job[j].ops
       THEN Goto(w, "list") /\ UNCHANGED job
       ELSE /\ job' = [job EXCEPT ![j] = ExpireLocked(@)]
            /\ IF job'[j].status = "error" THEN Return(w) ELSE Goto(w, "probe")
    /\ UNCHANGED <<registry, stopping, executorVars, reportVars>>

\* runner.run, outside the lock: any exception becomes a failed result.
Probe(w) ==
    /\ worker[w].pc = "probe"
    /\ \E outcome \in Outcome :
         worker' = [worker EXCEPT ![w] = [pc |-> "append", job |-> @.job, result |-> outcome]]
    /\ UNCHANGED <<tableVars, stopping, executorVars, reportVars>>

\* Mutants: the status is not checked again after the probe; the result of
\* the probe is cleared before it is appended.
AppendUnchecked(w) ==
    LET j == worker[w].job IN
    /\ worker[w].pc = "append"
    /\ job' = [job EXCEPT ![j] = WithResult(@, worker[w].result)]
    /\ Goto(w, "loop")
    /\ UNCHANGED <<registry, stopping, executorVars, reportVars>>
AppendCleared(w) ==
    LET j == worker[w].job IN
    /\ worker[w].pc = "append"
    /\ job' = [job EXCEPT ![j] = WithResult(@, "none")]
    /\ Goto(w, "loop")
    /\ UNCHANGED <<registry, stopping, executorVars, reportVars>>
AppendResult(w) ==
    LET j == worker[w].job IN
    /\ worker[w].pc = "append"
    /\ IF job[j].status = "error"
       THEN Return(w) /\ UNCHANGED job
       ELSE /\ job' = [job EXCEPT ![j] = WithResult(@, worker[w].result)]
            /\ Goto(w, "loop")
    /\ UNCHANGED <<registry, stopping, executorVars, reportVars>>

\* report_store.list(1) answers the stored report that occurred last, or raises.
IsLatest(p) == p \in saved /\ \A k \in saved : occurred[k] <= occurred[p]

ListReports(w) ==
    /\ worker[w].pc = "list"
    /\ \/ /\ \E p \in Jobs \cup {NoJob} :
               /\ IF saved = {} THEN p = NoJob ELSE IsLatest(p)
               /\ previous' = [previous EXCEPT ![worker[w].job] = p]
          /\ Goto(w, "build")
       \/ /\ Goto(w, "fail")
          /\ UNCHANGED previous
    /\ UNCHANGED <<tableVars, stopping, executorVars, occurred, saved>>

\* Mutant: occurred_at is too coarse to tell two reports apart.
NowCoarse(t) == t = 1
\* The next occurred_at, after those of every report there is.
Now(t) ==
    /\ \A k \in Jobs : occurred[k] < t
    /\ t = 1 \/ \E k \in Jobs : occurred[k] = t - 1

\* build_development_report stamps occurred_at.
BuildReport(w) ==
    /\ worker[w].pc = "build"
    /\ \E t \in 1 .. Cardinality(Jobs) :
         Now(t) /\ occurred' = [occurred EXCEPT ![worker[w].job] = t]
    /\ Goto(w, "save")
    /\ UNCHANGED <<tableVars, stopping, executorVars, saved, previous>>

\* Mutant: a failure of the store is swallowed.
SaveIgnoringFailure(w) ==
    /\ worker[w].pc = "save"
    /\ \/ saved' = saved \cup {worker[w].job}
       \/ UNCHANGED saved
    /\ Goto(w, "finish")
    /\ UNCHANGED <<tableVars, stopping, executorVars, occurred, previous>>
SaveReport(w) ==
    LET j == worker[w].job IN
    /\ worker[w].pc = "save"
    /\ \/ /\ saved' = saved \cup {j}
          /\ Goto(w, "finish")
          /\ UNCHANGED <<occurred, previous>>
       \/ /\ occurred' = [occurred EXCEPT ![j] = 0]
          /\ previous' = [previous EXCEPT ![j] = NoJob]
          /\ Goto(w, "unsaved")
          /\ UNCHANGED saved
    /\ UNCHANGED <<tableVars, stopping, executorVars>>

\* The except clause around save(), and the one around the whole body.
FailJob(w) ==
    LET j == worker[w].job IN
    /\ \/ /\ worker[w].pc = "unsaved"
          /\ job' = [job EXCEPT ![j] = End(@, "error", "report_persistence_failed")]
       \/ /\ worker[w].pc = "fail"
          /\ job' = [job EXCEPT ![j] = End(@, "error", "development_job_failed")]
    /\ Return(w)
    /\ UNCHANGED <<registry, stopping, executorVars, reportVars>>

\* The last critical section writes the verdict whatever the status is by now.
Finish(w) ==
    LET j == worker[w].job IN
    /\ worker[w].pc = "finish"
    /\ job' = [job EXCEPT ![j] = End(@, Verdict(@.results), @.error)]
    /\ Return(w)
    /\ UNCHANGED <<registry, stopping, executorVars, reportVars>>

-----------------------------------------------------------------------------
\* The wall clock, for the ages that the code still reads.
Older(rec) ==
    IF rec.status \in ActiveStatus
    THEN [rec EXCEPT !.age = IF @ < MaxAge THEN @ + 1 ELSE @]
    ELSE [rec EXCEPT !.age = IF rec.finished /\ @ <= Retention THEN @ + 1 ELSE @]

Tick ==
    /\ job' = [j \in Jobs |-> IF j \in registry THEN Older(job[j]) ELSE job[j]]
    /\ UNCHANGED <<registry, stopping, executorVars, worker, reportVars>>

Work(w) ==
    \/ Take(w) \/ Claim(w) \/ NextOperation(w) \/ AppendResult(w) \/ ListReports(w)
    \/ BuildReport(w) \/ SaveReport(w) \/ FailJob(w) \/ Finish(w)

Next ==
    \/ \E j \in Jobs : Start(j) \/ Submit(j) \/ Snapshot(j) \/ Cancel(j)
    \/ StartRejected \/ Cleanup \/ StopAccepting \/ CloseExecutor
    \/ \E w \in Workers : Work(w) \/ Probe(w)
    \/ Tick

SafeSpec == Init /\ [][Next]_vars

\* Threads are scheduled, the clock runs and the client polls its job
\* (docs/development-console.md: "Poll the `Location`"). A probe may hang.
Fairness ==
    /\ \A w \in Workers : WF_vars(Work(w))
    /\ \A j \in Jobs : WF_vars(Submit(j)) /\ WF_vars(Snapshot(j))
    /\ WF_vars(Tick)

Spec == SafeSpec /\ Fairness

-----------------------------------------------------------------------------
(* Properties.                                                             *)

\* The table never holds more queued and running jobs than MAX_ACTIVE_JOBS,
\* whatever expires, ends or is pruned between two start() calls.
ActiveBound == Cardinality(ActiveIn(registry)) <= MaxActive

\* The table is bounded: pruning always finds enough ended jobs to make room.
RetainedBound == Cardinality(registry) <= Capacity

\* Pruning never drops a job that is still queued or running, so a client can
\* poll its job until it ends.
ActiveIsRegistered == \A j \in Jobs : IsActive(j) => j \in registry

\* A finish time, which retention and eviction go by, is what an ended job has
\* and no other: a job with the wrong one leaks or is dropped while it runs.
FinishedIffTerminal ==
    \A j \in Jobs : job[j].finished <=> job[j].status \in TerminalStatus

\* A job is on its way to the executor, waiting in it, or held by one thread:
\* no operation of a job is probed twice and no two threads share its results.
Waiting(j) == {i \in DOMAIN queue : queue[i] = j}
Holders(j) == {w \in Workers : worker[w].job = j}
OnePlace ==
    \A j \in Jobs :
        /\ \A p, q \in Waiting(j) : p = q
        /\ \A v, w \in Holders(j) : v = w
        /\ Waiting(j) = {} \/ Holders(j) = {}
        /\ j \in submitting => Waiting(j) = {} /\ Holders(j) = {}

\* `results` is monotonic (docs/development-console.md): what one snapshot shows
\* every later one shows, in the same order.
ResultsMonotonic ==
    [][\A j \in Jobs : /\ Len(job[j].results) <= Len(job'[j].results)
                       /\ job[j].results = SubSeq(job'[j].results, 1, Len(job[j].results))]_job

\* An ended job whose error is not set ran every operation, stored its report
\* and has the status its results call for.
VerdictMatchesResults ==
    \A j \in Jobs :
        \/ job[j].status \in {"completed", "warning"}
        \/ job[j].status = "error" /\ job[j].error = "none"
        => /\ Len(job[j].results) = job[j].ops
           /\ job[j].status = Verdict(job[j].results)
           /\ j \in saved

\* cancel() that answers True is final: the job never runs, even when a thread
\* had already taken it from the executor.
CancelIsFinal ==
    [][\A j \in Jobs : job[j].status = "cancelled" =>
          job'[j].status = "cancelled" /\ job'[j].results = <<>>]_job

\* A job that timed out gathers no result from the probe that was in flight.
ErrorGathersNothing ==
    [][\A j \in Jobs : job[j].status = "error" =>
          job'[j].results = job[j].results]_job

\* A report is compared with a report that is stored and occurred before it.
ComparisonGoesBack ==
    \A j \in Jobs :
        occurred[j] > 0 /\ previous[j] # NoJob
        => previous[j] \in saved /\ occurred[previous[j]] < occurred[j]

\* What makes the invariants above inductive: a thread past its claim holds a
\* job that began and was not cancelled, a job that has not begun has no
\* results, and an identifier in the table was handed out.
Began(j) == job[j].status \in {"running", "completed", "warning", "error"}
HeldJobsBegan ==
    \A w \in Workers : worker[w].pc \notin {"idle", "claim"} => Began(worker[w].job)
NoEarlyResults == \A j \in Jobs : ~Began(j) => job[j].results = <<>>
RegisteredIsBorn == \A j \in registry : job[j].status # "none"

IInv ==
    /\ TypeOK /\ FinishedIffTerminal /\ ActiveIsRegistered /\ RegisteredIsBorn
    /\ HeldJobsBegan /\ NoEarlyResults /\ ActiveBound /\ RetainedBound

\* The console's promise, seen through the table: an ended job stays ended.
Phase(j) ==
    CASE job[j].status = "none" -> "unborn"
      [] job[j].status # "none" /\ j \notin registry -> "forgotten"
      [] j \in registry /\ IsActive(j) -> job[j].status
      [] OTHER -> "ended"
Lifecycle == INSTANCE JobLifecycle WITH phase <- [j \in Jobs |-> Phase(j)]
KeepsLifecycle == Lifecycle!Spec

\* Every accepted job ends, although a probe may hang for ever and shutdown may
\* drop its future: a poll notices its age.
EveryJobEnds == \A j \in Jobs : IsActive(j) ~> job[j].status \in TerminalStatus

\* If probes return, a job that waits in the executor gets out of its queue.
ProbesReturn == \A w \in Workers : WF_vars(Probe(w))
QueueDrains == ProbesReturn => \A j \in Jobs : (Waiting(j) # {}) ~> (Waiting(j) = {})

\* docs/architecture.md:35, "They expose terminal errors": an error a client was
\* shown is not replaced by another outcome.
TerminalErrorIsFinal ==
    [][\A j \in Jobs : job[j].status = "error" => job'[j].status = "error"]_job

=============================================================================
