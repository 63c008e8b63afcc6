----------------------- MODULE DevelopmentReportsProofs -----------------------
(***************************************************************************)
(* Proofs about what the threads of DevelopmentJobs do with a job: that    *)
(* one thread at most holds it, that its verdict is the one its results    *)
(* call for, and that its report is compared with an older one.            *)
(*                                                                         *)
(* All three rest on the first.  A thread decides outside the lock; what   *)
(* it decided stays true of its job because no other thread has the job,   *)
(* and all that HTTP threads can do to it is to end it.                    *)
(***************************************************************************)
EXTENDS DevelopmentJobsProofs, SequenceTheorems

-----------------------------------------------------------------------------
(* The inductive invariants.                                               *)

InQueue(j) == \E i \in DOMAIN queue : queue[i] = j
Handled(j) == \E w \in Workers : worker[w].job = j

QueuedOnce == \A p, q \in DOMAIN queue : queue[p] = queue[q] => p = q
HeldOnce == \A v, w \in Workers : worker[v].job = worker[w].job /\ worker[v].job # NoJob => v = w
OnePlaceOnly ==
  \A j \in Jobs : /\ ~(InQueue(j) /\ Handled(j))
                  /\ j \in submitting => ~InQueue(j) /\ ~Handled(j)
\* start() has inserted a job before anyone else gets it, so it inserts it once.
PlacedIsBorn ==
  \A j \in Jobs : j \in submitting \/ InQueue(j) \/ Handled(j) => job[j].status # "none"

PlaceInv == QueuedOnce /\ HeldOnce /\ OnePlaceOnly /\ PlacedIsBorn

\* The job of a thread past its claim runs, or ended without the thread.
RunsOrFailed(j) == \/ job[j].status = "running"
                   \/ job[j].status = "error" /\ job[j].error # "none"
HeldRuns == \A w \in Workers : worker[w].pc \notin {"idle", "claim"} => RunsOrFailed(worker[w].job)
\* A thread past its loop has a result of every operation.
LoopDone ==
  \A w \in Workers : worker[w].pc \in {"list", "build", "save", "finish"} =>
    Len(job[worker[w].job].results) = job[worker[w].job].ops
SavedAtFinish == \A w \in Workers : worker[w].pc = "finish" => worker[w].job \in saved

VerdictInv == HeldRuns /\ LoopDone /\ SavedAtFinish /\ VerdictMatchesResults

\* A job has a report from the time its thread builds one.
UnreportedBefore ==
  /\ \A j \in Jobs : j \in submitting \/ InQueue(j) \/ job[j].status = "none" => occurred[j] = 0
  /\ \A w \in Workers : worker[w].pc \notin {"idle", "save", "finish"} => occurred[worker[w].job] = 0
ReportedAtSave == \A w \in Workers : worker[w].pc = "save" => occurred[worker[w].job] > 0
\* Only what was built is stored, and it is not built again.
SavedIsReported == \A j \in saved : occurred[j] > 0
UnsavedAtSave == \A w \in Workers : worker[w].pc = "save" => worker[w].job \notin saved
\* What list(1) answered is still stored when the report is built.
ListedIsSaved ==
  \A w \in Workers : worker[w].pc = "build" => previous[worker[w].job] \in saved \cup {NoJob}

ReportInv ==
  /\ UnreportedBefore /\ ReportedAtSave /\ SavedIsReported /\ UnsavedAtSave
  /\ ListedIsSaved /\ ComparisonGoesBack

-----------------------------------------------------------------------------
(* Where a job is.                                                         *)

\* A step in which no job gets to another place: threads keep their jobs or
\* are done with them.
StaysInPlace ==
  /\ UNCHANGED <<queue, submitting>>
  /\ \A w \in Workers : worker'[w].job \in {worker[w].job, NoJob}

LEMMA AppendedQueue ==
  ASSUME NEW q \in Seq(Jobs), NEW j \in Jobs
  PROVE  /\ Len(q) \in Nat /\ DOMAIN q = 1 .. Len(q)
         /\ DOMAIN Append(q, j) = 1 .. Len(q) + 1
         /\ \A i \in 1 .. Len(q) : Append(q, j)[i] = q[i]
         /\ Append(q, j)[Len(q) + 1] = j
BY AppendProperties, LenProperties

LEMMA TailOfQueue ==
  ASSUME NEW q \in Seq(Jobs), q # <<>>
  PROVE  /\ Len(q) \in Nat \ {0} /\ DOMAIN q = 1 .. Len(q)
         /\ Head(q) = q[1] /\ Head(q) \in Jobs
         /\ DOMAIN Tail(q) = 1 .. Len(q) - 1
         /\ \A i \in 1 .. Len(q) - 1 : Tail(q)[i] = q[i + 1]
BY HeadTailProperties, LenProperties, EmptySeq

LEMMA BornStaysBorn ==
  ASSUME IInv, [Next]_vars, NEW j \in Jobs, job[j].status # "none"
  PROVE  job'[j].status # "none"
<1>1. CASE Moves
  BY <1>1 DEF Moves, Move, StatusMoves, TerminalStatus
<1>2. ASSUME NEW i \in Jobs, Start(i) PROVE job'[j].status # "none"
  BY <1>2, StartFacts
<1>3. QED
  BY <1>1, <1>2, NextMoves

\* The steps of a thread after it took its job.
LEMMA ThreadStays ==
  ASSUME TypeOK, NEW w \in Workers, Work(w) \/ Probe(w), ~Take(w)
  PROVE  /\ StaysInPlace
         /\ worker[w].job \in Jobs
         /\ \A v \in Workers \ {w} : worker'[v] = worker[v]
<1>1. worker[w].pc # "idle"
  BY DEF Work, Probe, Claim, NextOperation, AppendResult, ListReports, BuildReport,
     SaveReport, FailJob, Finish
<1>2. worker[w].job \in Jobs
  BY <1>1, HeldJob
<1>3. \/ \E pc \in Holding : Goto(w, pc)
      \/ Return(w)
      \/ \E outcome \in Outcome :
           worker' = [worker EXCEPT ![w] = [pc |-> "append", job |-> @.job, result |-> outcome]]
  BY DEF Work, Probe, Claim, NextOperation, AppendResult, ListReports, BuildReport,
     SaveReport, FailJob, Finish, Holding
<1>4. worker'[w].job \in {worker[w].job, NoJob} /\ \A v \in Workers \ {w} : worker'[v] = worker[v]
  BY <1>3 DEF Goto, Return, Held, Idle, TypeOK
<1>5. UNCHANGED <<queue, submitting>>
  BY DEF Work, Probe, Claim, NextOperation, AppendResult, ListReports, BuildReport,
     SaveReport, FailJob, Finish, executorVars
<1>6. QED
  BY <1>2, <1>4, <1>5 DEF StaysInPlace

\* The steps of HTTP threads and of the clock that hand no job over.
LEMMA OthersStay ==
  ASSUME TypeOK,
         \/ \E j \in Jobs : Snapshot(j) \/ Cancel(j)
         \/ StartRejected \/ Cleanup \/ StopAccepting \/ Tick \/ UNCHANGED vars
  PROVE  StaysInPlace /\ UNCHANGED worker
BY DEF StaysInPlace, Snapshot, Cancel, StartRejected, Cleanup, StopAccepting, Tick, vars, executorVars

LEMMA PlacesNext ==
  ASSUME TypeOK, [Next]_vars
  PROVE  \/ \E j \in Jobs : Start(j) \/ Submit(j)
         \/ CloseExecutor
         \/ \E w \in Workers : Take(w)
         \/ StaysInPlace
BY ThreadStays, OthersStay DEF Next

LEMMA PlaceInit == Init => PlaceInv
<1> SUFFICES ASSUME Init PROVE PlaceInv
  OBVIOUS
<1>1. \A w \in Workers : worker[w].job = NoJob
  BY DEF Init, Idle
<1>2. DOMAIN queue = {} /\ submitting = {}
  BY DEF Init
<1>3. QED
  BY <1>1, <1>2, JobsAssumption DEF PlaceInv, QueuedOnce, HeldOnce, OnePlaceOnly, PlacedIsBorn,
     InQueue, Handled

LEMMA PlaceStep == IInv /\ PlaceInv /\ [Next]_vars => PlaceInv'
<1> SUFFICES ASSUME IInv, PlaceInv, [Next]_vars PROVE PlaceInv'
  OBVIOUS
<1> USE DEF PlaceInv
<1>0. /\ TypeOK /\ queue \in Seq(Jobs) /\ submitting \subseteq Jobs
      /\ \A j \in Jobs : job[j].status # "none" => job'[j].status # "none"
  BY BornStaysBorn DEF IInv, TypeOK
<1>1. ASSUME NEW j \in Jobs, Start(j) PROVE PlaceInv'
  <2>1. /\ submitting' = submitting \cup {j} /\ UNCHANGED <<queue, worker>>
        /\ job[j].status = "none" /\ job'[j].status = "queued"
    BY <1>1, StartFacts DEF Start
  <2>2. j \notin submitting /\ ~InQueue(j) /\ ~Handled(j)
    BY <2>1 DEF PlacedIsBorn
  <2>3. QED
    BY <1>0, <2>1, <2>2 DEF QueuedOnce, HeldOnce, OnePlaceOnly, PlacedIsBorn, InQueue, Handled
<1>2. ASSUME NEW j \in Jobs, Submit(j) PROVE PlaceInv'
  <2>1. /\ j \in submitting /\ submitting' = submitting \ {j} /\ UNCHANGED worker
        /\ queue' = queue \/ queue' = Append(queue, j)
    BY <1>2 DEF Submit
  <2>2. ~InQueue(j) /\ ~Handled(j) /\ job[j].status # "none"
    BY <2>1 DEF OnePlaceOnly, PlacedIsBorn
  <2>3. CASE queue' = queue
    BY <1>0, <2>1, <2>3 DEF QueuedOnce, HeldOnce, OnePlaceOnly, PlacedIsBorn, InQueue, Handled
  <2>4. CASE queue' = Append(queue, j)
    <3>1. /\ Len(queue) \in Nat /\ DOMAIN queue = 1 .. Len(queue)
          /\ DOMAIN queue' = 1 .. Len(queue) + 1
          /\ \A i \in 1 .. Len(queue) : queue'[i] = queue[i]
          /\ queue'[Len(queue) + 1] = j
      BY <1>0, <2>4, AppendedQueue
    <3>2. QueuedOnce'
      BY <2>2, <3>1 DEF QueuedOnce, InQueue
    <3>3. \A k \in Jobs : InQueue(k)' => InQueue(k) \/ k = j
      BY <3>1 DEF InQueue
    <3>4. QED
      BY <1>0, <2>1, <2>2, <3>2, <3>3 DEF HeldOnce, OnePlaceOnly, PlacedIsBorn, Handled
  <2>5. QED
    BY <2>1, <2>3, <2>4
<1>3. CASE CloseExecutor
  <2>1. UNCHANGED <<submitting, worker>> /\ DOMAIN queue' = {}
    BY <1>3 DEF CloseExecutor
  <2>2. QED
    BY <1>0, <2>1 DEF QueuedOnce, HeldOnce, OnePlaceOnly, PlacedIsBorn, InQueue, Handled
<1>4. ASSUME NEW w \in Workers, Take(w) PROVE PlaceInv'
  <2>0. queue # <<>> /\ Head(queue) \in Jobs
    BY <1>0, <1>4, TailOfQueue DEF Take
  <2> PICK h \in Jobs : h = Head(queue)
    BY <2>0
  <2>1. /\ queue # <<>> /\ queue' = Tail(queue) /\ UNCHANGED submitting
        /\ worker' = [worker EXCEPT ![w] = Held("claim", h)]
    BY <1>4 DEF Take
  <2>2. /\ Len(queue) \in Nat \ {0} /\ DOMAIN queue = 1 .. Len(queue) /\ h = queue[1]
        /\ DOMAIN queue' = 1 .. Len(queue) - 1
        /\ \A i \in 1 .. Len(queue) - 1 : queue'[i] = queue[i + 1]
    BY <1>0, <2>1, TailOfQueue
  <2>3. worker'[w].job = h /\ \A v \in Workers \ {w} : worker'[v] = worker[v]
    BY <1>0, <2>1 DEF TypeOK, Held
  <2>4. InQueue(h) /\ ~Handled(h) /\ h \notin submitting /\ job[h].status # "none"
    BY <2>2 DEF InQueue, OnePlaceOnly, PlacedIsBorn
  <2>5. QueuedOnce' /\ ~InQueue(h)'
    <3>1. \A i \in 1 .. Len(queue) - 1 : i + 1 \in DOMAIN queue /\ i + 1 # 1
      BY <2>2
    <3>2. \A p, q \in 1 .. Len(queue) - 1 : queue[p + 1] = queue[q + 1] => p + 1 = q + 1
      BY <3>1 DEF QueuedOnce
    <3>3. \A i \in 1 .. Len(queue) - 1 : queue[i + 1] # h
      BY <2>2, <3>1 DEF QueuedOnce
    <3>4. \A p, q \in 1 .. Len(queue) - 1 : queue'[p] = queue'[q] => p = q
      BY <2>2, <3>2
    <3>5. \A i \in 1 .. Len(queue) - 1 : queue'[i] # h
      BY <2>2, <3>3
    <3>6. QED
      BY <2>2, <3>4, <3>5 DEF QueuedOnce, InQueue
  <2>6. \A k \in Jobs : InQueue(k)' => InQueue(k)
    BY <2>2 DEF InQueue
  <2>7. \A k \in Jobs : Handled(k)' => Handled(k) \/ k = h
    BY <2>3 DEF Handled
  <2>8. HeldOnce'
    BY <2>3, <2>4 DEF HeldOnce, Handled
  <2>9. QED
    BY <1>0, <2>1, <2>2, <2>4, <2>5, <2>6, <2>7, <2>8 DEF OnePlaceOnly, PlacedIsBorn
<1>5. CASE StaysInPlace
  <2>1. \A k \in Jobs : Handled(k)' => Handled(k)
    BY <1>5, JobsAssumption DEF StaysInPlace, Handled
  <2>2. \A k \in Jobs : InQueue(k)' <=> InQueue(k)
    BY <1>5 DEF StaysInPlace, InQueue
  <2>3. QueuedOnce' /\ HeldOnce'
    BY <1>5 DEF StaysInPlace, QueuedOnce, HeldOnce
  <2>4. QED
    BY <1>0, <1>5, <2>1, <2>2, <2>3 DEF StaysInPlace, OnePlaceOnly, PlacedIsBorn
<1>6. QED
  BY <1>0, <1>1, <1>2, <1>3, <1>4, <1>5, PlacesNext

LEMMA PlaceHolds == SafeSpec => []PlaceInv
BY InvHolds, PlaceInit, PlaceStep, PTL DEF SafeSpec

\* A future is handed to one thread, once: no two threads run the operations of
\* a job, also when submit() races with shutdown and threads end early.
THEOREM EveryJobInOnePlace == SafeSpec => []OnePlace
<1>1. IInv /\ PlaceInv => OnePlace
  <2> SUFFICES ASSUME IInv, PlaceInv, NEW j \in Jobs
               PROVE  /\ \A p, q \in Waiting(j) : p = q
                      /\ \A v, w \in Holders(j) : v = w
                      /\ Waiting(j) = {} \/ Holders(j) = {}
                      /\ j \in submitting => Waiting(j) = {} /\ Holders(j) = {}
    BY DEF OnePlace
  <2>1. (Waiting(j) # {} <=> InQueue(j)) /\ (Holders(j) # {} <=> Handled(j))
    BY DEF Waiting, Holders, InQueue, Handled
  <2>2. \A p, q \in Waiting(j) : p = q
    BY DEF Waiting, PlaceInv, QueuedOnce
  <2>3. \A v, w \in Holders(j) : v = w
    BY JobsAssumption DEF Holders, PlaceInv, HeldOnce
  <2>4. QED
    BY <2>1, <2>2, <2>3 DEF PlaceInv, OnePlaceOnly
<1>2. QED
  BY <1>1, InvHolds, PlaceHolds, PTL

-----------------------------------------------------------------------------
(* What a step does to a job and to a thread.                              *)

LEMMA EndKeepsOps ==
  ASSUME NEW rec \in JobRecord, NEW st \in TerminalStatus, NEW e \in ErrorCode
  PROVE  End(rec, st, e).ops = rec.ops
BY Zenon DEF End, JobRecord

LEMMA ExpireKeepsOps ==
  ASSUME NEW rec \in JobRecord
  PROVE  /\ ExpireLocked(rec).ops = rec.ops
         /\ \/ ExpireLocked(rec) = rec
            \/ ExpireLocked(rec).status = "error" /\ ExpireLocked(rec).error # "none"
<1>1. CASE rec.status \in ActiveStatus /\ rec.age >= MaxAge
  <2>1. PICK e \in ErrorCode \ {"none"} : ExpireLocked(rec) = End(rec, "error", e)
    BY <1>1 DEF ExpireLocked, ErrorCode
  <2>2. "error" \in TerminalStatus
    BY DEF TerminalStatus
  <2>3. /\ End(rec, "error", e).ops = rec.ops
        /\ End(rec, "error", e).status = "error" /\ End(rec, "error", e).error = e
    BY <2>2, EndRecord, EndKeepsOps
  <2>4. QED
    BY <2>1, <2>3
<1>2. CASE ~(rec.status \in ActiveStatus /\ rec.age >= MaxAge)
  BY <1>2 DEF ExpireLocked
<1>3. QED
  BY <1>1, <1>2

LEMMA OlderKeepsOps ==
  ASSUME NEW rec \in JobRecord
  PROVE  Older(rec).ops = rec.ops
BY DEF Older, JobRecord

LEMMA StartedKeepsOps ==
  ASSUME NEW rec \in JobRecord
  PROVE  Started(rec).ops = rec.ops
BY Zenon DEF Started, JobRecord

LEMMA WithResultKeepsOps ==
  ASSUME NEW rec \in JobRecord, NEW result
  PROVE  WithResult(rec, result).ops = rec.ops
BY Zenon DEF WithResult, JobRecord

\* What may become of a job that no thread gets on with: it is left alone, it
\* fails, or it was queued and is claimed or cancelled.
Undisturbed(j) ==
  /\ job'[j].results = job[j].results /\ job'[j].ops = job[j].ops
  /\ \/ job'[j].status = job[j].status /\ job'[j].error = job[j].error
     \/ job'[j].status = "error" /\ job'[j].error # "none"
     \/ job[j].status = "queued" /\ job'[j].status \in {"running", "cancelled"}

LEMMA UnchangedUndisturbed ==
  ASSUME NEW j, job'[j] = job[j]
  PROVE  Undisturbed(j)
BY DEF Undisturbed

LEMMA ExpireUndisturbed ==
  ASSUME NEW j, job[j] \in JobRecord, job'[j] = ExpireLocked(job[j])
  PROVE  Undisturbed(j)
BY ExpireRecord, ExpireKeepsOps DEF Undisturbed

LEMMA EndedJob ==
  ASSUME NEW j, NEW rec \in JobRecord, job[j] = rec,
         NEW st \in TerminalStatus, NEW e \in ErrorCode, job'[j] = End(rec, st, e)
  PROVE  /\ job'[j].status = st /\ job'[j].error = e
         /\ job'[j].results = job[j].results /\ job'[j].ops = job[j].ops
<1>1. rec \in JobRecord /\ st \in TerminalStatus /\ e \in ErrorCode
  OBVIOUS
<1>2. /\ End(rec, st, e).status = st /\ End(rec, st, e).error = e
      /\ End(rec, st, e).results = rec.results /\ End(rec, st, e).ops = rec.ops
  BY ONLY <1>1, EndRecord, EndKeepsOps
<1>3. QED
  BY <1>2

\* Every step but start(), the append of a result and the verdict.
LEMMA NextUndisturbed ==
  ASSUME IInv, [Next]_vars
  PROVE  \/ \E j \in Jobs : Start(j)
         \/ \E w \in Workers : AppendResult(w) \/ Finish(w)
         \/ \A j \in Jobs : Undisturbed(j)
<1> USE DEF IInv
<1>1. UNCHANGED job => \A j \in Jobs : Undisturbed(j)
  BY UnchangedUndisturbed
<1>2. ASSUME NEW j \in Jobs, Snapshot(j) PROVE \A k \in Jobs : Undisturbed(k)
  <2>1. /\ job[j] \in JobRecord /\ job'[j] = ExpireLocked(job[j])
        /\ \A k \in Jobs \ {j} : job'[k] = job[k]
    BY <1>2 DEF Snapshot, TypeOK
  <2>2. QED
    BY <2>1, ExpireUndisturbed, UnchangedUndisturbed
<1>3. ASSUME NEW j \in Jobs, Cancel(j) PROVE \A k \in Jobs : Undisturbed(k)
  <2>1. job[j] \in JobRecord /\ job[j].error \in ErrorCode /\ "cancelled" \in TerminalStatus
    BY DEF TypeOK, TerminalStatus, JobRecord
  <2>2. /\ job'[j] = End(job[j], "cancelled", job[j].error) /\ job[j].status = "queued"
        /\ \A k \in Jobs \ {j} : job'[k] = job[k]
    BY <1>3 DEF Cancel, TypeOK
  <2>3. Undisturbed(j)
    BY <2>1, <2>2, EndedJob DEF Undisturbed
  <2>4. QED
    BY <2>2, <2>3, UnchangedUndisturbed
<1>4. ASSUME NEW w \in Workers, Claim(w) PROVE \A k \in Jobs : Undisturbed(k)
  <2> DEFINE j == worker[w].job
  <2>1. CASE job'= [job EXCEPT ![j] = Started(@)] /\ job[j].status = "queued"
    <3>1. j \in Jobs /\ job[j] \in JobRecord
      BY <1>4, HeldJob DEF Claim, TypeOK
    <3>2. job'[j] = Started(job[j]) /\ \A k \in Jobs \ {j} : job'[k] = job[k]
      BY <2>1, <3>1 DEF TypeOK
    <3>3. Undisturbed(j)
      BY <2>1, <3>1, <3>2, StartedRecord, StartedKeepsOps DEF Undisturbed
    <3>4. QED
      BY <3>2, <3>3, UnchangedUndisturbed
  <2>2. QED
    BY <1>1, <1>4, <2>1 DEF Claim
<1>5. ASSUME NEW w \in Workers, NextOperation(w) PROVE \A k \in Jobs : Undisturbed(k)
  <2> DEFINE j == worker[w].job
  <2>1. CASE job' = [job EXCEPT ![j] = ExpireLocked(@)]
    <3>1. j \in Jobs /\ job[j] \in JobRecord
      BY <1>5, HeldJob DEF NextOperation, TypeOK
    <3>2. job'[j] = ExpireLocked(job[j]) /\ \A k \in Jobs \ {j} : job'[k] = job[k]
      BY <2>1, <3>1 DEF TypeOK
    <3>3. QED
      BY <3>1, <3>2, ExpireUndisturbed, UnchangedUndisturbed
  <2>2. QED
    BY <1>1, <1>5, <2>1 DEF NextOperation
<1>6. ASSUME NEW w \in Workers, FailJob(w) PROVE \A k \in Jobs : Undisturbed(k)
  <2> DEFINE j == worker[w].job
  <2>1. j \in Jobs /\ job[j] \in JobRecord /\ "error" \in TerminalStatus
    BY <1>6, HeldJob DEF FailJob, TypeOK, TerminalStatus
  <2>2. PICK e \in ErrorCode \ {"none"} : job' = [job EXCEPT ![j] = End(job[j], "error", e)]
    BY <1>6 DEF FailJob, ErrorCode
  <2>3. job'[j] = End(job[j], "error", e) /\ \A k \in Jobs \ {j} : job'[k] = job[k]
    BY <2>1, <2>2 DEF TypeOK
  <2>4. Undisturbed(j)
    BY <2>1, <2>3, EndedJob DEF Undisturbed
  <2>5. QED
    BY <2>3, <2>4, UnchangedUndisturbed
<1>7. CASE Tick
  <2>1. ASSUME NEW j \in Jobs PROVE Undisturbed(j)
    <3>1. job[j] \in JobRecord /\ (job'[j] = job[j] \/ job'[j] = Older(job[j]))
      BY <1>7 DEF Tick, TypeOK
    <3>2. QED
      BY <3>1, OlderRecord, OlderKeepsOps DEF Undisturbed
  <2>2. QED
    BY <2>1
<1>8. \/ \E j \in Jobs : Start(j) \/ Snapshot(j) \/ Cancel(j)
      \/ \E w \in Workers : AppendResult(w) \/ Finish(w) \/ Claim(w) \/ NextOperation(w) \/ FailJob(w)
      \/ Tick \/ UNCHANGED job
  BY DEF Next, Work, Submit, StartRejected, Cleanup, StopAccepting, CloseExecutor, Take, Probe,
     ListReports, BuildReport, SaveReport, tableVars, vars
<1>9. QED
  BY <1>1, <1>2, <1>3, <1>4, <1>5, <1>6, <1>7, <1>8

\* One thread steps at a time.
LEMMA OneThread ==
  ASSUME TypeOK, [Next]_vars
  PROVE  \/ UNCHANGED worker
         \/ \E v \in Workers : /\ Work(v) \/ Probe(v)
                               /\ \A u \in Workers \ {v} : worker'[u] = worker[u]
<1>1. ASSUME NEW v \in Workers, Work(v) \/ Probe(v)
      PROVE  \A u \in Workers \ {v} : worker'[u] = worker[u]
  <2>1. CASE Take(v)
    BY <2>1 DEF Take, TypeOK
  <2>2. QED
    BY <1>1, <2>1, ThreadStays
<1>2. UNCHANGED worker \/ \E v \in Workers : Work(v) \/ Probe(v)
  BY DEF Next, vars, Start, Submit, Snapshot, Cancel, StartRejected, Cleanup, StopAccepting,
     CloseExecutor, Tick
<1>3. QED
  BY <1>1, <1>2

\* Where a thread is after its step, and what brought it there.
LEMMA ThreadGoes ==
  ASSUME TypeOK, NEW w \in Workers, Work(w) \/ Probe(w)
  PROVE  LET pc == worker'[w].pc IN
         /\ pc \in {"idle", "claim", "loop", "probe", "append", "list", "build", "save", "unsaved",
                    "finish", "fail"}
         /\ Take(w) => pc = "claim"
         /\ Claim(w) => pc \in {"idle", "loop"}
         /\ NextOperation(w) => pc \in {"idle", "list", "probe"}
         /\ NextOperation(w) /\ pc = "list" =>
              UNCHANGED job /\ Len(job[worker[w].job].results) = job[worker[w].job].ops
         /\ Probe(w) => pc = "append"
         /\ AppendResult(w) => pc \in {"idle", "loop"}
         /\ ListReports(w) => pc \in {"build", "fail"}
         /\ BuildReport(w) => pc = "save"
         /\ SaveReport(w) => pc \in {"finish", "unsaved"}
         /\ SaveReport(w) /\ pc = "finish" => saved' = saved \cup {worker[w].job}
         /\ FailJob(w) \/ Finish(w) => pc = "idle"
<1> USE DEF TypeOK, Goto, Return, Held, Idle
<1>1. Take(w) => worker'[w].pc = "claim"
  BY DEF Take
<1>2. Claim(w) => worker'[w].pc \in {"idle", "loop"}
  BY DEF Claim
<1>3. NextOperation(w) =>
        /\ worker'[w].pc \in {"idle", "list", "probe"}
        /\ worker'[w].pc = "list" =>
             UNCHANGED job /\ Len(job[worker[w].job].results) = job[worker[w].job].ops
  BY DEF NextOperation
<1>4. Probe(w) => worker'[w].pc = "append"
  BY DEF Probe
<1>5. AppendResult(w) => worker'[w].pc \in {"idle", "loop"}
  BY DEF AppendResult
<1>6. ListReports(w) => worker'[w].pc \in {"build", "fail"}
  BY DEF ListReports
<1>7. BuildReport(w) => worker'[w].pc = "save"
  BY DEF BuildReport
<1>8. SaveReport(w) => /\ worker'[w].pc \in {"finish", "unsaved"}
                       /\ worker'[w].pc = "finish" => saved' = saved \cup {worker[w].job}
  BY DEF SaveReport
<1>9. FailJob(w) \/ Finish(w) => worker'[w].pc = "idle"
  BY DEF FailJob, Finish
<1>10. QED
  BY <1>1, <1>2, <1>3, <1>4, <1>5, <1>6, <1>7, <1>8, <1>9 DEF Work

\* Where each step of a thread begins.
LEMMA ThreadComes ==
  ASSUME NEW w \in Workers
  PROVE  /\ Take(w) => worker[w].pc = "idle"
         /\ Claim(w) => worker[w].pc = "claim"
         /\ NextOperation(w) => worker[w].pc = "loop"
         /\ Probe(w) => worker[w].pc = "probe"
         /\ AppendResult(w) => worker[w].pc = "append"
         /\ ListReports(w) => worker[w].pc = "list"
         /\ BuildReport(w) => worker[w].pc = "build"
         /\ SaveReport(w) => worker[w].pc = "save"
         /\ FailJob(w) => worker[w].pc \in {"unsaved", "fail"}
         /\ Finish(w) => worker[w].pc = "finish"
BY DEF Take, Claim, NextOperation, Probe, AppendResult, ListReports, BuildReport, SaveReport,
   FailJob, Finish

\* A thread past its loop was past it before, or has just left it.
LEMMA PastLoop ==
  ASSUME TypeOK, [Next]_vars, NEW w \in Workers,
         worker'[w].pc \in {"list", "build", "save", "finish"}
  PROVE  /\ worker'[w].job = worker[w].job /\ worker[w].job \in Jobs
         /\ \/ worker[w].pc \in {"list", "build", "save", "finish"}
            \/ /\ UNCHANGED job
               /\ Len(job[worker[w].job].results) = job[worker[w].job].ops
         /\ worker'[w].pc = "finish" => worker[w].pc = "finish" \/ worker[w].job \in saved'
<1>1. CASE worker'[w] = worker[w]
  BY <1>1, HeldJob
<1>2. CASE worker'[w] # worker[w]
  <2>1. Work(w) \/ Probe(w)
    BY <1>2, OneThread
  <2>2. ~Take(w)
    BY <2>1, ThreadGoes
  <2>3. worker[w].job \in Jobs /\ worker'[w].job \in {worker[w].job, NoJob}
    BY <2>1, <2>2, ThreadStays DEF StaysInPlace
  <2>4. worker'[w].job \in Jobs
    <3>1. TypeOK'
      BY TypeStep
    <3>2. worker'[w] \in WorkerState
      BY <3>1 DEF TypeOK
    <3>3. QED
      BY <3>2 DEF WorkerState
  <2>5. worker'[w].job = worker[w].job
    BY <2>3, <2>4, JobsAssumption
  <2>6. QED
    BY <2>1, <2>3, <2>5, ThreadGoes, ThreadComes DEF Work
<1>3. QED
  BY <1>1, <1>2

LEMMA SavedGrows ==
  ASSUME [Next]_vars
  PROVE  saved \subseteq saved'
BY DEF Next, Work, Start, Submit, Snapshot, Cancel, StartRejected, Cleanup, StopAccepting,
   CloseExecutor, Tick, Take, Claim, NextOperation, Probe, AppendResult, ListReports, BuildReport,
   SaveReport, FailJob, Finish, reportVars, vars

-----------------------------------------------------------------------------
(* No job is forgotten.                                                    *)

Past(w, j) == worker[w].job = j /\ worker[w].pc \notin {"idle", "claim"}
\* A running job has the thread that runs it; a queued one is on its way to a
\* thread, unless shutdown() has dropped what waited.
RunningIsHeld == \A j \in Jobs : job[j].status = "running" => \E w \in Workers : Past(w, j)
QueuedIsPlaced ==
  \A j \in Jobs :
    job[j].status = "queued" => closed \/ j \in submitting \/ InQueue(j) \/ Handled(j)
NoJobForgotten == RunningIsHeld /\ QueuedIsPlaced

LEMMA ForgottenInit == Init => NoJobForgotten
BY DEF Init, Unborn, NoJobForgotten, RunningIsHeld, QueuedIsPlaced

\* A thread lets go of a job that has ended, and of no other.
LEMMA LetGoEnded ==
  ASSUME IInv, PlaceInv, NoJobForgotten, NEW w \in Workers, Work(w) \/ Probe(w), ~Take(w),
         worker'[w].pc = "idle"
  PROVE  job'[worker[w].job].status \notin ActiveStatus
<1> DEFINE j == worker[w].job
<1>0. TypeOK /\ j \in Jobs /\ job[j] \in JobRecord
  BY ThreadStays DEF IInv, TypeOK
<1>1. CASE Claim(w)
  <2>1. UNCHANGED job /\ (j \notin registry \/ job[j].status # "queued")
    BY <1>0, <1>1 DEF Claim, Goto, Held, TypeOK
  <2>2. job[j].status # "queued"
    BY <1>0, <2>1 DEF IInv, ActiveIsRegistered, IsActive, ActiveStatus
  <2>3. job[j].status # "running"
    <3> SUFFICES ASSUME job[j].status = "running" PROVE FALSE
      OBVIOUS
    <3>1. PICK v \in Workers : Past(v, j)
      BY <1>0 DEF NoJobForgotten, RunningIsHeld
    <3>2. v = w
      BY <1>0, <3>1, JobsAssumption DEF Past, PlaceInv, HeldOnce
    <3>3. QED
      BY <1>1, <3>1, <3>2, ThreadComes DEF Past
  <2>4. QED
    BY <2>1, <2>2, <2>3 DEF ActiveStatus
<1>2. CASE NextOperation(w) \/ AppendResult(w)
  <2>1. job'[j].status = "error"
    BY <1>0, <1>2 DEF NextOperation, AppendResult, Goto, Held, TypeOK
  <2>2. QED
    BY <2>1 DEF ActiveStatus
<1>3. CASE FailJob(w) \/ Finish(w)
  <2>1. PICK st \in TerminalStatus, e \in ErrorCode : job' = [job EXCEPT ![j] = End(@, st, e)]
    <3>1. job[j].error \in ErrorCode /\ Verdict(job[j].results) \in TerminalStatus
      BY <1>0, VerdictIsTerminal DEF JobRecord, TerminalStatus
    <3>2. QED
      BY <1>3, <3>1 DEF FailJob, Finish, TerminalStatus, ErrorCode
  <2>2. job'[j] = End(job[j], st, e)
    BY <1>0, <2>1 DEF TypeOK
  <2>3. job'[j].status = st
    BY <1>0, <2>2, EndedJob
  <2>4. QED
    BY <2>3 DEF TerminalStatus, ActiveStatus
<1>4. QED
  BY <1>0, <1>1, <1>2, <1>3, ThreadGoes DEF Work

\* Only a claim makes a job run, and start() makes it wait.
LEMMA BecomesActive ==
  ASSUME IInv, [Next]_vars, NEW j \in Jobs, job'[j].status \in ActiveStatus
  PROVE  \/ job'[j].status = job[j].status
         \/ Start(j)
         \/ \E w \in Workers : Claim(w) /\ worker[w].job = j
<1>0. TypeOK /\ job[j] \in JobRecord
  BY DEF IInv, TypeOK
<1>1. ASSUME NEW k \in Jobs, Start(k) \/ Snapshot(k) \/ Cancel(k), k # j
      PROVE  job'[j] = job[j]
  BY <1>0, <1>1, StartFacts DEF Snapshot, Cancel, TypeOK
<1>2. CASE Snapshot(j)
  BY <1>0, <1>2, ExpireRecord DEF Snapshot, TypeOK, ActiveStatus
<1>3. ~Cancel(j)
  <2> SUFFICES ASSUME Cancel(j) PROVE FALSE
    OBVIOUS
  <2>1. job[j].error \in ErrorCode /\ "cancelled" \in TerminalStatus
    BY <1>0 DEF JobRecord, TerminalStatus
  <2>2. job'[j] = End(job[j], "cancelled", job[j].error)
    BY <1>0 DEF Cancel, TypeOK
  <2>3. QED
    BY <1>0, <2>1, <2>2, EndedJob DEF ActiveStatus
<1>4. ASSUME NEW w \in Workers, Work(w), worker[w].job # j PROVE job'[j] = job[j]
  BY <1>0, <1>4 DEF Work, Take, Claim, NextOperation, AppendResult, ListReports, BuildReport,
     SaveReport, FailJob, Finish, TypeOK, tableVars
<1>5. ASSUME NEW w \in Workers, NextOperation(w), worker[w].job = j
      PROVE  job'[j].status = job[j].status
  BY <1>0, <1>5, ExpireRecord DEF NextOperation, TypeOK, ActiveStatus
<1>6. ASSUME NEW w \in Workers, AppendResult(w), worker[w].job = j
      PROVE  job'[j].status = job[j].status
  <2>1. worker[w].result \in Outcome
    <3>1. worker[w] \in WorkerState /\ worker[w].pc = "append"
      BY <1>0, <1>6, ThreadComes DEF TypeOK
    <3>2. QED
      BY <3>1 DEF WorkerState, Holding
  <2>2. UNCHANGED job \/ job'[j] = WithResult(job[j], worker[w].result)
    BY <1>0, <1>6 DEF AppendResult, TypeOK
  <2>3. QED
    BY <1>0, <2>1, <2>2, WithResultRecord
<1>7. ASSUME NEW w \in Workers, FailJob(w) \/ Finish(w), worker[w].job = j PROVE FALSE
  <2>1. job[j].error \in ErrorCode /\ Verdict(job[j].results) \in TerminalStatus
    BY <1>0, VerdictIsTerminal DEF JobRecord, TerminalStatus
  <2>2. PICK st \in TerminalStatus, e \in ErrorCode : job' = [job EXCEPT ![j] = End(@, st, e)]
    BY <1>7, <2>1 DEF FailJob, Finish, TerminalStatus, ErrorCode
  <2>3. job'[j] = End(job[j], st, e)
    BY <1>0, <2>2 DEF TypeOK
  <2>4. QED
    BY <1>0, <2>3, EndedJob DEF TerminalStatus, ActiveStatus
<1>8. CASE Tick
  <2>1. job'[j] = job[j] \/ job'[j] = Older(job[j])
    BY <1>8 DEF Tick
  <2>2. QED
    BY <1>0, <2>1, OlderRecord
<1>9. \/ \E k \in Jobs : Start(k) \/ Snapshot(k) \/ Cancel(k)
      \/ \E w \in Workers : /\ Work(w)
                            /\ AppendResult(w) \/ Finish(w) \/ Claim(w) \/ NextOperation(w) \/ FailJob(w)
      \/ Tick \/ UNCHANGED job
  BY DEF Next, Work, Submit, StartRejected, Cleanup, StopAccepting, CloseExecutor, Take, Probe,
     ListReports, BuildReport, SaveReport, tableVars, vars
<1>10. QED
  BY <1>1, <1>2, <1>3, <1>4, <1>5, <1>6, <1>7, <1>8, <1>9

\* What waits for a thread goes on waiting, gets one, or is dropped.
LEMMA NotLostOnTheWay ==
  ASSUME TypeOK, [Next]_vars, NEW j \in Jobs, j \in submitting \/ InQueue(j)
  PROVE  closed' \/ j \in submitting' \/ InQueue(j)' \/ Handled(j)'
<1>0. queue \in Seq(Jobs)
  BY DEF TypeOK
<1>1. ASSUME NEW k \in Jobs, Start(k)
      PROVE  j \in submitting' \/ InQueue(j)'
  BY <1>1 DEF Start, InQueue
<1>2. ASSUME NEW k \in Jobs, Submit(k)
      PROVE  closed' \/ j \in submitting' \/ InQueue(j)'
  <2>1. CASE closed
    BY <1>2, <2>1 DEF Submit
  <2>2. CASE ~closed
    <3>1. queue' = Append(queue, k) /\ submitting' = submitting \ {k}
      BY <1>2, <2>2 DEF Submit
    <3>2. /\ Len(queue) \in Nat /\ DOMAIN queue = 1 .. Len(queue)
          /\ DOMAIN queue' = 1 .. Len(queue) + 1
          /\ \A i \in 1 .. Len(queue) : queue'[i] = queue[i]
          /\ queue'[Len(queue) + 1] = k
      BY <1>0, <3>1, AppendedQueue
    <3>3. InQueue(k)'
      BY <3>2 DEF InQueue
    <3>4. InQueue(j) => InQueue(j)'
      BY <3>2 DEF InQueue
    <3>5. QED
      BY <3>1, <3>3, <3>4
  <2>3. QED
    BY <2>1, <2>2
<1>3. ASSUME NEW w \in Workers, Take(w)
      PROVE  j \in submitting' \/ InQueue(j)' \/ Handled(j)'
  <2>1. /\ queue # <<>> /\ queue' = Tail(queue) /\ UNCHANGED submitting
        /\ worker'[w].job = Head(queue)
    BY <1>3 DEF Take, Held, TypeOK
  <2>2. /\ Len(queue) \in Nat \ {0} /\ DOMAIN queue = 1 .. Len(queue) /\ Head(queue) = queue[1]
        /\ DOMAIN queue' = 1 .. Len(queue) - 1
        /\ \A i \in 1 .. Len(queue) - 1 : queue'[i] = queue[i + 1]
    BY <1>0, <2>1, TailOfQueue
  <2>3. ASSUME NEW i \in DOMAIN queue, queue[i] = j, i # 1 PROVE InQueue(j)'
    <3>1. i - 1 \in 1 .. Len(queue) - 1 /\ (i - 1) + 1 = i
      BY <2>2, <2>3
    <3>2. queue'[i - 1] = j
      BY <2>2, <2>3, <3>1
    <3>3. QED
      BY <2>2, <3>1, <3>2 DEF InQueue
  <2>4. QED
    BY <2>1, <2>2, <2>3 DEF InQueue, Handled
<1>4. QED
  BY <1>1, <1>2, <1>3, PlacesNext DEF StaysInPlace, CloseExecutor, InQueue

LEMMA ForgottenStep ==
  ASSUME IInv, PlaceInv, NoJobForgotten, [Next]_vars
  PROVE  NoJobForgotten'
<1> DEFINE Safe(j) ==
      /\ job[j].status = "running" => \E w \in Workers : Past(w, j)
      /\ job[j].status = "queued" => closed \/ j \in submitting \/ InQueue(j) \/ Handled(j)
<1> SUFFICES ASSUME NEW j \in Jobs, job'[j].status \in ActiveStatus PROVE Safe(j)'
  BY DEF NoJobForgotten, RunningIsHeld, QueuedIsPlaced, ActiveStatus
<1>0. TypeOK /\ Safe(j)
  BY DEF IInv, NoJobForgotten, RunningIsHeld, QueuedIsPlaced
<1>1. closed => closed'
  BY DEF Next, Work, Start, Submit, Snapshot, Cancel, StartRejected, Cleanup, StopAccepting,
     CloseExecutor, Tick, Take, Claim, NextOperation, Probe, AppendResult, ListReports,
     BuildReport, SaveReport, FailJob, Finish, executorVars, vars
<1>2. CASE Start(j)
  <2>1. job'[j].status = "queued" /\ j \in submitting'
    BY <1>2, StartFacts DEF Start
  <2>2. QED
    BY <2>1
<1>3. ASSUME NEW w \in Workers, Claim(w), worker[w].job = j PROVE Safe(j)'
  <2>1. worker'[w].pc # "idle"
    BY <1>3, LetGoEnded, ThreadComes DEF Work
  <2>2. Past(w, j)'
    BY <1>0, <1>3, <2>1 DEF Claim, Goto, Return, Held, Idle, Past, TypeOK
  <2>3. QED
    BY <2>2 DEF Past, Handled
<1>4. CASE job'[j].status = job[j].status
  <2>1. ASSUME NEW w \in Workers, worker[w].job = j
        PROVE  worker'[w].job = j /\ (Past(w, j) => Past(w, j)')
    <3>1. CASE worker'[w] = worker[w]
      BY <2>1, <3>1 DEF Past
    <3>2. CASE worker'[w] # worker[w]
      <4>1. Work(w) \/ Probe(w)
        BY <1>0, <3>2, OneThread
      <4>2. worker[w].pc # "idle"
        <5>1. worker[w] \in WorkerState /\ worker[w].job \in Jobs
          BY <1>0, <2>1 DEF TypeOK
        <5>2. QED
          BY <5>1, JobsAssumption DEF WorkerState, Holding
      <4>3. ~Take(w)
        BY <4>2, ThreadComes
      <4>4. worker'[w].pc # "idle"
        BY <2>1, <4>1, <4>3, LetGoEnded
      <4>5. worker'[w].job \in Jobs
        BY <4>4, TypeStep DEF IInv, TypeOK, WorkerState
      <4>6. worker'[w].job = j
        BY <1>0, <2>1, <4>1, <4>3, <4>5, ThreadStays, JobsAssumption DEF StaysInPlace
      <4>7. worker'[w].pc = "claim" => worker[w].pc = "idle"
        BY <1>0, <4>1, ThreadGoes, ThreadComes DEF Work
      <4>8. QED
        BY <4>2, <4>4, <4>6, <4>7 DEF Past
    <3>3. QED
      BY <3>1, <3>2
  <2>2. Handled(j) => Handled(j)'
    BY <2>1 DEF Handled
  <2>3. CASE job[j].status = "running"
    BY <1>0, <1>4, <2>1, <2>3 DEF Past
  <2>4. CASE job[j].status = "queued"
    <3>1. closed \/ j \in submitting \/ InQueue(j) \/ Handled(j)
      BY <1>0, <2>4
    <3>2. j \in submitting \/ InQueue(j) =>
            closed' \/ j \in submitting' \/ InQueue(j)' \/ Handled(j)'
      BY <1>0, NotLostOnTheWay
    <3>3. QED
      BY <1>1, <1>4, <2>2, <2>4, <3>1, <3>2
  <2>5. QED
    BY <1>4, <2>3, <2>4 DEF ActiveStatus
<1>5. QED
  BY <1>2, <1>3, <1>4, BecomesActive

\* A job that is not ended has a thread or is on its way to one: only shutdown()
\* leaves a queued job that nothing but its age will end, and a running job is
\* never without its thread.
THEOREM NoJobIsForgotten == SafeSpec => []NoJobForgotten
BY InvHolds, PlaceHolds, ForgottenInit, ForgottenStep, PTL DEF SafeSpec

-----------------------------------------------------------------------------
(* The verdict.                                                            *)

VerdictMatches(j) ==
  \/ job[j].status \in {"completed", "warning"}
  \/ job[j].status = "error" /\ job[j].error = "none"
  => /\ Len(job[j].results) = job[j].ops
     /\ job[j].status = Verdict(job[j].results)
     /\ j \in saved

LEMMA VerdictInit == Init => VerdictInv
<1> SUFFICES ASSUME Init PROVE VerdictInv
  OBVIOUS
<1>1. \A w \in Workers : worker[w].pc = "idle"
  BY DEF Init, Idle
<1>2. \A j \in Jobs : job[j].status = "none"
  BY DEF Init, Unborn
<1>3. QED
  BY <1>1, <1>2 DEF VerdictInv, HeldRuns, LoopDone, SavedAtFinish, VerdictMatchesResults

\* A step on one job, by the only thread that has it or by none.
LEMMA OneJobStep ==
  ASSUME VerdictInv, [Next]_vars, NEW j \in Jobs,
         \A w \in Workers : worker[w].pc # "idle" => worker[w].job \in Jobs,
         \A k \in Jobs \ {j} : job'[k] = job[k],
         \A w \in Workers : worker'[w].pc \notin {"idle", "claim"} =>
           \/ worker'[w] = worker[w] /\ worker[w].job # j
           \/ worker'[w].pc = "loop" /\ RunsOrFailed(worker[w].job)',
         VerdictMatches(j)'
  PROVE  VerdictInv'
<1>1. HeldRuns'
  BY DEF VerdictInv, HeldRuns, RunsOrFailed
<1>2. LoopDone'
  BY DEF VerdictInv, LoopDone
<1>3. SavedAtFinish'
  BY SavedGrows DEF VerdictInv, SavedAtFinish
<1>4. VerdictMatchesResults'
  BY SavedGrows DEF VerdictInv, VerdictMatchesResults, VerdictMatches
<1>5. QED
  BY <1>1, <1>2, <1>3, <1>4 DEF VerdictInv

LEMMA VerdictStep == IInv /\ PlaceInv /\ VerdictInv /\ [Next]_vars => VerdictInv'
<1> SUFFICES ASSUME IInv, PlaceInv, VerdictInv, [Next]_vars PROVE VerdictInv'
  OBVIOUS
<1>0. TypeOK /\ \A w \in Workers : worker[w].pc # "idle" => worker[w].job \in Jobs
  BY HeldJob DEF IInv
<1>1. CASE \A j \in Jobs : Undisturbed(j)
  <2>1. HeldRuns'
    <3> SUFFICES ASSUME NEW w \in Workers, worker'[w].pc \notin {"idle", "claim"}
                 PROVE  RunsOrFailed(worker[w].job)'
      BY DEF HeldRuns
    <3>1. worker'[w].job = worker[w].job /\ worker[w].job \in Jobs
      BY WorkerStep
    <3>2. CASE worker[w].pc \notin {"idle", "claim"}
      BY <1>1, <3>1, <3>2 DEF VerdictInv, HeldRuns, RunsOrFailed, Undisturbed
    <3>3. CASE job'[worker[w].job].status = "running"
      BY <3>1, <3>3 DEF RunsOrFailed
    <3>4. QED
      BY <3>2, <3>3, WorkerStep
  <2>2. LoopDone'
    BY <1>0, <1>1, PastLoop DEF VerdictInv, LoopDone, Undisturbed
  <2>3. SavedAtFinish'
    BY <1>0, PastLoop, SavedGrows DEF VerdictInv, SavedAtFinish
  <2>4. VerdictMatchesResults'
    BY <1>1, SavedGrows DEF VerdictInv, VerdictMatchesResults, Undisturbed
  <2>5. QED
    BY <2>1, <2>2, <2>3, <2>4 DEF VerdictInv
<1>2. ASSUME NEW j \in Jobs, Start(j) PROVE VerdictInv'
  <2>1. /\ \A k \in Jobs \ {j} : job'[k] = job[k]
        /\ job[j].status = "none" /\ job'[j].status = "queued" /\ UNCHANGED worker
    BY <1>2, StartFacts DEF Start
  <2>2. \A w \in Workers : worker[w].job # j
    BY <2>1 DEF PlaceInv, PlacedIsBorn, Handled
  <2>3. VerdictMatches(j)'
    BY <2>1 DEF VerdictMatches
  <2>4. QED
    BY <1>0, <2>1, <2>2, <2>3, OneJobStep
<1>3. ASSUME NEW w \in Workers, AppendResult(w) \/ Finish(w) PROVE VerdictInv'
  <2>0. worker[w].pc \in {"append", "finish"} /\ worker[w].job \in Jobs
    BY <1>0, <1>3, ThreadComes
  <2> PICK j \in Jobs : j = worker[w].job
    BY <2>0
  <2>1. worker[w].pc \in {"append", "finish"} /\ j \in Jobs /\ job[j] \in JobRecord
    BY <1>0, <2>0 DEF TypeOK
  <2>2. /\ RunsOrFailed(j)
        /\ worker[w].pc = "finish" => Len(job[j].results) = job[j].ops /\ j \in saved
    BY <2>1 DEF VerdictInv, HeldRuns, LoopDone, SavedAtFinish
  <2>3. \A v \in Workers \ {w} : worker'[v] = worker[v]
    BY <1>0, <1>3, ThreadStays, ThreadComes DEF Work
  <2>4. \A v \in Workers \ {w} : worker[v].job # j
    BY <2>1, JobsAssumption DEF PlaceInv, HeldOnce
  <2>5. CASE UNCHANGED job
    BY <1>1, <2>5, UnchangedUndisturbed
  <2>6. CASE AppendResult(w) /\ job[j].status # "error"
    <3>1. worker[w].result \in Outcome
      <4>1. worker[w] \in WorkerState /\ worker[w].pc = "append"
        BY <1>0, <2>6, ThreadComes DEF TypeOK
      <4>2. QED
        BY <4>1 DEF WorkerState, Holding
    <3>2. /\ job'[j] = WithResult(job[j], worker[w].result)
          /\ \A k \in Jobs \ {j} : job'[k] = job[k]
      BY <1>0, <2>1, <2>6 DEF AppendResult, TypeOK
    <3>3. job'[j].status = "running"
      BY <2>1, <2>2, <2>6, <3>1, <3>2, WithResultRecord DEF RunsOrFailed
    <3>4. worker'[w].pc = "loop" /\ worker'[w].job = j
      BY <1>0, <2>6 DEF AppendResult, Goto, Held, TypeOK
    <3>5. VerdictMatches(j)' /\ RunsOrFailed(worker[w].job)'
      BY <3>3, <3>4 DEF VerdictMatches, RunsOrFailed
    <3>6. QED
      BY <1>0, <2>1, <2>3, <2>4, <3>2, <3>4, <3>5, OneJobStep
  <2>7. CASE Finish(w)
    <3>1. job[j].error \in ErrorCode /\ Verdict(job[j].results) \in TerminalStatus
      BY <2>1, VerdictIsTerminal DEF JobRecord, TerminalStatus
    <3>2. /\ job'[j] = End(job[j], Verdict(job[j].results), job[j].error)
          /\ \A k \in Jobs \ {j} : job'[k] = job[k]
      BY <1>0, <2>1, <2>7 DEF Finish, TypeOK
    <3>3. /\ job'[j].status = Verdict(job[j].results)
          /\ job'[j].results = job[j].results /\ job'[j].ops = job[j].ops
      BY <2>1, <3>1, <3>2, EndedJob
    <3>4. VerdictMatches(j)'
      BY <2>2, <2>7, <3>3, SavedGrows, ThreadComes DEF VerdictMatches
    <3>5. worker'[w].pc = "idle"
      BY <1>0, <2>7, ThreadGoes DEF Work
    <3>6. QED
      BY <1>0, <2>1, <2>3, <2>4, <3>2, <3>4, <3>5, OneJobStep
  <2>8. QED
    BY <1>3, <2>5, <2>6, <2>7 DEF AppendResult
<1>4. QED
  BY <1>1, <1>2, <1>3, NextUndisturbed

\* An ended job with no error set has a result of every operation, the status
\* these call for, and its report in the store: what ends a job behind its
\* thread's back is never taken for a verdict.
THEOREM VerdictsMatchResults == SafeSpec => []VerdictMatchesResults
<1>1. VerdictInv => VerdictMatchesResults
  BY DEF VerdictInv
<1>2. QED
  BY <1>1, InvHolds, PlaceHolds, VerdictInit, VerdictStep, PTL DEF SafeSpec

\* The results of a job only get longer.
ResultsExtend(j) ==
  /\ Len(job[j].results) <= Len(job'[j].results)
  /\ job[j].results = SubSeq(job'[j].results, 1, Len(job[j].results))

\* Every later snapshot of a job shows the results of every earlier one.
THEOREM ResultsOnlyGrow == SafeSpec => ResultsMonotonic
<1>1. ASSUME IInv, [Next]_vars, NEW j \in Jobs PROVE ResultsExtend(j)
  <2> USE DEF ResultsExtend
  <2> DEFINE s == job[j].results
  <2>1. s \in Seq(Outcome) /\ Len(s) \in Nat
    BY <1>1, LenProperties DEF IInv, TypeOK, JobRecord
  <2>2. CASE job'[j].results = s
    BY <2>1, <2>2, SubSeqFull
  <2>3. ASSUME NEW result \in Outcome, job'[j].results = Append(s, result)
        PROVE  ResultsExtend(j)
    <3>1. Len(Append(s, result)) = Len(s) + 1
      BY <2>1, AppendProperties
    <3>2. SubSeq(Append(s, result), 1, Len(s)) = s
      <4>1. CASE s = <<>>
        BY <4>1, <3>1, SubSeqEmpty
      <4>2. CASE s # <<>>
        <5>1. 1 \in 1 .. Len(s) /\ Len(s) \in 1 .. Len(s)
          BY <2>1, <4>2, EmptySeq
        <5>2. Append(s, result) = s \o <<result>> /\ <<result>> \in Seq(Outcome)
          BY <2>1, AppendIsConcat
        <5>3. SubSeq(s \o <<result>>, 1, Len(s)) = SubSeq(s, 1, Len(s))
          BY <2>1, <5>1, <5>2, SubSeqOfConcat1
        <5>4. QED
          BY <2>1, <5>2, <5>3, SubSeqFull
      <4>3. QED
        BY <4>1, <4>2
    <3>3. QED
      BY <2>1, <2>3, <3>1, <3>2
  <2>4. ASSUME NEW i \in Jobs, Start(i) PROVE job'[j].results = s
    BY <1>1, <2>4, StartFacts DEF IInv, NoEarlyResults, Began
  <2>5. QED
    BY <1>1, <2>2, <2>3, <2>4, NextMoves DEF Moves, Move, ResultsMove
<1>2. IInv /\ [Next]_vars => [\A j \in Jobs : ResultsExtend(j)]_job
  BY <1>1
<1>3. SafeSpec => [][\A j \in Jobs : ResultsExtend(j)]_job
  BY <1>2, InvHolds, PTL DEF SafeSpec
<1>4. QED
  BY <1>3, PTL DEF ResultsMonotonic, ResultsExtend

-----------------------------------------------------------------------------
(* The comparison with an older report.                                    *)

LEMMA ReportInit == Init => ReportInv
<1> SUFFICES ASSUME Init PROVE ReportInv
  OBVIOUS
<1>1. \A w \in Workers : worker[w].pc = "idle"
  BY DEF Init, Idle
<1>2. saved = {} /\ \A j \in Jobs : occurred[j] = 0
  BY DEF Init
<1>3. QED
  BY <1>1, <1>2 DEF ReportInv, UnreportedBefore, ReportedAtSave, SavedIsReported, UnsavedAtSave,
     ListedIsSaved, ComparisonGoesBack

\* A job that has no report yet had none before the step, wherever it was.
LEMMA StillUnreported ==
  ASSUME IInv, PlaceInv, ReportInv, [Next]_vars, NEW j \in Jobs,
         j \in submitting' \/ InQueue(j)' \/ job'[j].status = "none"
  PROVE  occurred[j] = 0 /\ ~Handled(j)
<1>1. j \in submitting \/ InQueue(j) \/ job[j].status = "none"
  <2>1. CASE job'[j].status = "none"
    BY <2>1, BornStaysBorn
  <2>2. ASSUME NEW i \in Jobs, Start(i), j \in submitting' \/ InQueue(j)'
        PROVE  j \in submitting \/ InQueue(j) \/ job[j].status = "none"
    BY <2>2 DEF Start, InQueue
  <2>3. ASSUME NEW i \in Jobs, Submit(i), j \in submitting' \/ InQueue(j)'
        PROVE  j \in submitting \/ InQueue(j)
    <3>1. CASE queue' = queue
      BY <2>3, <3>1 DEF Submit, InQueue
    <3>2. CASE queue' = Append(queue, i)
      <4>1. queue \in Seq(Jobs)
        BY DEF IInv, TypeOK
      <4>2. /\ Len(queue) \in Nat /\ DOMAIN queue = 1 .. Len(queue)
            /\ DOMAIN queue' = 1 .. Len(queue) + 1
            /\ \A p \in 1 .. Len(queue) : queue'[p] = queue[p]
            /\ queue'[Len(queue) + 1] = i
        BY <3>2, <4>1, AppendedQueue
      <4>3. InQueue(j)' => InQueue(j) \/ j = i
        BY <4>1, <4>2 DEF InQueue
      <4>4. QED
        BY <2>3, <4>3 DEF Submit
    <3>3. QED
      BY <2>3, <3>1, <3>2 DEF Submit
  <2>4. ASSUME CloseExecutor, j \in submitting' \/ InQueue(j)'
        PROVE  j \in submitting
    BY <2>4 DEF CloseExecutor, InQueue
  <2>5. ASSUME NEW w \in Workers, Take(w), j \in submitting' \/ InQueue(j)'
        PROVE  j \in submitting \/ InQueue(j)
    <3>1. queue \in Seq(Jobs) /\ queue # <<>> /\ queue' = Tail(queue) /\ UNCHANGED submitting
      BY <2>5 DEF Take, IInv, TypeOK
    <3>2. /\ Len(queue) \in Nat \ {0} /\ DOMAIN queue = 1 .. Len(queue)
          /\ DOMAIN queue' = 1 .. Len(queue) - 1
          /\ \A p \in 1 .. Len(queue) - 1 : queue'[p] = queue[p + 1]
      BY <3>1, TailOfQueue
    <3>3. InQueue(j)' => InQueue(j)
      BY <3>2 DEF InQueue
    <3>4. QED
      BY <2>5, <3>1, <3>3
  <2>6. ASSUME StaysInPlace, j \in submitting' \/ InQueue(j)'
        PROVE  j \in submitting \/ InQueue(j)
    BY <2>6 DEF StaysInPlace, InQueue
  <2>7. QED
    BY <2>1, <2>2, <2>3, <2>4, <2>5, <2>6, PlacesNext DEF IInv
<1>2. QED
  BY <1>1 DEF ReportInv, UnreportedBefore, PlaceInv, OnePlaceOnly, PlacedIsBorn

\* The job a thread has after a step is the one it had, or comes from the queue.
LEMMA ThreadJob ==
  ASSUME TypeOK, [Next]_vars, NEW w \in Workers, worker'[w].pc # "idle"
  PROVE  \/ worker'[w] = worker[w]
         \/ Take(w) /\ InQueue(worker'[w].job) /\ worker'[w].pc = "claim"
         \/ /\ Work(w) \/ Probe(w)
            /\ ~Take(w) /\ worker'[w].job = worker[w].job /\ worker[w].job \in Jobs
<1>1. CASE Take(w)
  <2>1. queue \in Seq(Jobs) /\ queue # <<>> /\ worker'[w] = Held("claim", Head(queue))
    BY <1>1 DEF Take, TypeOK
  <2>2. Len(queue) \in Nat \ {0} /\ DOMAIN queue = 1 .. Len(queue) /\ Head(queue) = queue[1]
    BY <2>1, TailOfQueue
  <2>3. InQueue(Head(queue))
    BY <2>2 DEF InQueue
  <2>4. QED
    BY <1>1, <2>1, <2>3 DEF Held
<1>2. CASE worker'[w] # worker[w] /\ ~Take(w)
  <2>1. Work(w) \/ Probe(w)
    BY <1>2, OneThread
  <2>2. worker[w].job \in Jobs /\ worker'[w].job \in {worker[w].job, NoJob}
    BY <1>2, <2>1, ThreadStays DEF StaysInPlace
  <2>3. worker'[w].job \in Jobs
    <3>1. TypeOK'
      BY TypeStep
    <3>2. worker'[w] \in WorkerState
      BY <3>1 DEF TypeOK
    <3>3. QED
      BY <3>2 DEF WorkerState
  <2>4. QED
    BY <1>2, <2>1, <2>2, <2>3, JobsAssumption
<1>3. QED
  BY <1>1, <1>2

\* Before the report of a job is built nothing of it is stored, and no stored or
\* compared report is of that job.
LEMMA UnreportedJob ==
  ASSUME ReportInv, NEW j \in Jobs, occurred[j] = 0
  PROVE  /\ j \notin saved
         /\ \A k \in Jobs : occurred[k] > 0 /\ previous[k] # NoJob => previous[k] # j
BY DEF ReportInv, SavedIsReported, ComparisonGoesBack

LEMMA ReportStep == IInv /\ PlaceInv /\ ReportInv /\ [Next]_vars => ReportInv'
<1> SUFFICES ASSUME IInv, PlaceInv, ReportInv, [Next]_vars PROVE ReportInv'
  OBVIOUS
<1> USE DEF ReportInv
<1>0. /\ TypeOK /\ \A w \in Workers : worker[w].pc # "idle" => worker[w].job \in Jobs
      /\ \A j \in Jobs : occurred[j] \in Nat
  BY HeldJob DEF IInv, TypeOK
<1>1. ASSUME NEW w \in Workers, ListReports(w) PROVE ReportInv'
  <2>0. worker[w].pc = "list" /\ worker[w].job \in Jobs
    BY <1>0, <1>1, ThreadComes
  <2> PICK j \in Jobs : j = worker[w].job
    BY <2>0
  <2>1. UNCHANGED <<occurred, saved>> /\ worker'[w].pc \in {"build", "fail"} /\ worker'[w].job = j
    BY <1>0, <1>1 DEF ListReports, Goto, Held, TypeOK
  <2>2. \A v \in Workers \ {w} : worker'[v] = worker[v] /\ worker[v].job # j
    BY <1>0, <1>1, <2>0, JobsAssumption, ThreadStays, ThreadComes DEF Work, PlaceInv, HeldOnce
  <2>3. /\ \A k \in Jobs \ {j} : previous'[k] = previous[k]
        /\ worker'[w].pc = "build" => previous'[j] \in saved \cup {NoJob}
    BY <1>0, <1>1 DEF ListReports, IsLatest, Goto, Held, TypeOK
  <2>4. occurred[j] = 0
    BY <2>0 DEF UnreportedBefore
  <2>5. UnreportedBefore'
    BY <2>1, <2>2, <2>4, StillUnreported DEF UnreportedBefore
  <2>6. ReportedAtSave' /\ SavedIsReported' /\ UnsavedAtSave'
    BY <2>1, <2>2 DEF ReportedAtSave, SavedIsReported, UnsavedAtSave
  <2>7. ListedIsSaved'
    BY <1>0, <2>1, <2>2, <2>3 DEF ListedIsSaved
  <2>8. ComparisonGoesBack'
    BY <2>1, <2>3, <2>4 DEF ComparisonGoesBack
  <2>9. QED
    BY <2>5, <2>6, <2>7, <2>8
<1>2. ASSUME NEW w \in Workers, BuildReport(w) PROVE ReportInv'
  <2>0. worker[w].pc = "build" /\ worker[w].job \in Jobs
    BY <1>0, <1>2, ThreadComes
  <2> PICK j \in Jobs : j = worker[w].job
    BY <2>0
  <2>1. UNCHANGED <<previous, saved>> /\ worker'[w].pc = "save" /\ worker'[w].job = j
    BY <1>0, <1>2 DEF BuildReport, Goto, Held, TypeOK
  <2>2. \A v \in Workers \ {w} : worker'[v] = worker[v] /\ worker[v].job # j
    BY <1>0, <1>2, <2>0, JobsAssumption, ThreadStays, ThreadComes DEF Work, PlaceInv, HeldOnce
  <2>3. occurred[j] = 0 /\ j \notin saved
    BY <2>0, UnreportedJob DEF UnreportedBefore
  <2>4. PICK t \in 1 .. Cardinality(Jobs) :
          /\ \A k \in Jobs : occurred[k] < t
          /\ occurred' = [occurred EXCEPT ![j] = t]
    BY <1>2 DEF BuildReport, Now
  <2>5. occurred'[j] = t /\ t \in Nat \ {0} /\ \A k \in Jobs \ {j} : occurred'[k] = occurred[k]
    <3>1. Cardinality(Jobs) \in Nat
      BY JobsAssumption, FS_CardinalityType
    <3>2. QED
      BY <2>4, <3>1 DEF IInv, TypeOK
  <2>6. UnreportedBefore'
    <3>1. Handled(j)
      BY DEF Handled
    <3>2. ASSUME NEW k \in Jobs, k \in submitting' \/ InQueue(k)' \/ job'[k].status = "none"
          PROVE  occurred'[k] = 0
      BY <2>5, <3>1, <3>2, StillUnreported
    <3>3. \A v \in Workers : worker'[v].pc \notin {"idle", "save", "finish"} =>
            occurred'[worker'[v].job] = 0
      BY <1>0, <2>1, <2>2, <2>5 DEF UnreportedBefore
    <3>4. QED
      BY <3>2, <3>3 DEF UnreportedBefore
  <2>7. ReportedAtSave'
    BY <1>0, <2>1, <2>2, <2>5 DEF ReportedAtSave
  <2>8. SavedIsReported'
    BY <2>1, <2>3, <2>5 DEF SavedIsReported, IInv, TypeOK
  <2>9. UnsavedAtSave'
    BY <1>0, <2>1, <2>2, <2>3 DEF UnsavedAtSave
  <2>10. ListedIsSaved'
    BY <2>1, <2>2 DEF ListedIsSaved
  <2>11. ComparisonGoesBack'
    <3> SUFFICES ASSUME NEW k \in Jobs, occurred'[k] > 0, previous[k] # NoJob
                 PROVE  previous[k] \in saved /\ occurred'[previous[k]] < occurred'[k]
      BY <2>1 DEF ComparisonGoesBack
    <3>1. CASE k = j
      <4>1. previous[j] \in saved
        BY <2>0, <3>1 DEF ListedIsSaved
      <4>2. previous[j] \in Jobs \ {j}
        BY <2>3, <4>1 DEF IInv, TypeOK
      <4>3. QED
        BY <2>4, <2>5, <3>1, <4>1, <4>2
    <3>2. CASE k # j
      <4>1. occurred[k] > 0 /\ previous[k] # j /\ previous[k] \in Jobs
        BY <2>3, <2>5, <3>2, UnreportedJob DEF IInv, TypeOK
      <4>2. QED
        BY <2>5, <3>2, <4>1 DEF ComparisonGoesBack
    <3>3. QED
      BY <3>1, <3>2
  <2>12. QED
    BY <2>6, <2>7, <2>8, <2>9, <2>10, <2>11
<1>3. ASSUME NEW w \in Workers, SaveReport(w) PROVE ReportInv'
  <2>0. worker[w].pc = "save" /\ worker[w].job \in Jobs
    BY <1>0, <1>3, ThreadComes
  <2> PICK j \in Jobs : j = worker[w].job
    BY <2>0
  <2>1. occurred[j] > 0 /\ j \notin saved /\ Handled(j)
    BY <2>0 DEF ReportedAtSave, UnsavedAtSave, Handled
  <2>2. \A v \in Workers \ {w} : worker'[v] = worker[v] /\ worker[v].job # j
    BY <1>0, <1>3, <2>0, JobsAssumption, ThreadStays, ThreadComes DEF Work, PlaceInv, HeldOnce
  <2>3. CASE saved' = saved \cup {j} /\ worker'[w].pc = "finish" /\ UNCHANGED <<occurred, previous>>
    <3>1. UnreportedBefore'
      BY <2>2, <2>3, StillUnreported DEF UnreportedBefore
    <3>2. ReportedAtSave' /\ SavedIsReported' /\ UnsavedAtSave' /\ ListedIsSaved'
      BY <2>1, <2>2, <2>3 DEF ReportedAtSave, SavedIsReported, UnsavedAtSave, ListedIsSaved
    <3>3. ComparisonGoesBack'
      BY <2>3 DEF ComparisonGoesBack
    <3>4. QED
      BY <3>1, <3>2, <3>3
  <2>4. CASE /\ worker'[w].pc = "unsaved" /\ worker'[w].job = j /\ UNCHANGED saved
             /\ occurred' = [occurred EXCEPT ![j] = 0] /\ previous' = [previous EXCEPT ![j] = NoJob]
    <3>1. /\ occurred'[j] = 0 /\ previous'[j] = NoJob
          /\ \A k \in Jobs \ {j} : occurred'[k] = occurred[k] /\ previous'[k] = previous[k]
      BY <2>4 DEF IInv, TypeOK
    <3>2. UnreportedBefore'
      <4>1. ASSUME NEW k \in Jobs, k \in submitting' \/ InQueue(k)' \/ job'[k].status = "none"
            PROVE  occurred'[k] = 0
        BY <3>1, <4>1, StillUnreported
      <4>2. \A v \in Workers : worker'[v].pc \notin {"idle", "save", "finish"} =>
              occurred'[worker'[v].job] = 0
        BY <1>0, <2>2, <2>4, <3>1 DEF UnreportedBefore
      <4>3. QED
        BY <4>1, <4>2 DEF UnreportedBefore
    <3>3. ReportedAtSave' /\ UnsavedAtSave' /\ ListedIsSaved'
      BY <1>0, <2>2, <2>4, <3>1 DEF ReportedAtSave, UnsavedAtSave, ListedIsSaved
    <3>4. SavedIsReported'
      BY <2>1, <2>4, <3>1 DEF SavedIsReported, IInv, TypeOK
    <3>5. ComparisonGoesBack'
      <4> SUFFICES ASSUME NEW k \in Jobs, occurred'[k] > 0, previous'[k] # NoJob
                   PROVE  previous'[k] \in saved /\ occurred'[previous'[k]] < occurred'[k]
        BY <2>4 DEF ComparisonGoesBack
      <4>1. k # j /\ occurred[k] > 0 /\ previous'[k] = previous[k]
        BY <3>1
      <4>2. previous[k] \in saved /\ occurred[previous[k]] < occurred[k]
        BY <3>1, <4>1 DEF ComparisonGoesBack
      <4>3. previous[k] \in Jobs \ {j}
        BY <2>1, <4>2 DEF IInv, TypeOK
      <4>4. QED
        BY <3>1, <4>1, <4>2, <4>3
    <3>6. QED
      BY <3>2, <3>3, <3>4, <3>5
  <2>5. QED
    BY <1>0, <1>3, <2>3, <2>4 DEF SaveReport, Goto, Held, TypeOK
<1>4. CASE ~\E w \in Workers : ListReports(w) \/ BuildReport(w) \/ SaveReport(w)
  <2>1. UNCHANGED reportVars
    BY <1>4 DEF Next, Work, Start, Submit, Snapshot, Cancel, StartRejected, Cleanup, StopAccepting,
       CloseExecutor, Tick, Take, Claim, NextOperation, Probe, AppendResult, FailJob, Finish,
       reportVars, vars
  <2>2. ASSUME NEW w \in Workers, worker'[w].pc # "idle", worker'[w] # worker[w]
        PROVE  occurred[worker'[w].job] = 0 /\ worker'[w].pc \notin {"build", "save"}
    <3>1. CASE Take(w) /\ InQueue(worker'[w].job) /\ worker'[w].pc = "claim"
      <4>1. worker'[w].job \in Jobs
        BY <3>1 DEF InQueue, IInv, TypeOK
      <4>2. QED
        BY <3>1, <4>1 DEF UnreportedBefore
    <3>2. CASE /\ Work(w) \/ Probe(w)
               /\ ~Take(w) /\ worker'[w].job = worker[w].job
      <4>1. worker[w].pc \in {"claim", "loop", "probe", "append", "unsaved", "fail", "finish"}
        BY <1>4, <3>2, ThreadComes DEF Work
      <4>2. worker'[w].pc \in {"loop", "probe", "append", "list"} /\ worker[w].pc # "finish"
        BY <1>0, <1>4, <2>2, <3>2, ThreadGoes, ThreadComes DEF Work
      <4>3. QED
        BY <3>2, <4>1, <4>2 DEF UnreportedBefore
    <3>3. QED
      BY <1>0, <2>2, <3>1, <3>2, ThreadJob
  <2>3. UnreportedBefore'
    BY <2>1, <2>2, StillUnreported DEF UnreportedBefore, reportVars
  <2>4. ReportedAtSave' /\ UnsavedAtSave' /\ ListedIsSaved'
    BY <2>1, <2>2 DEF ReportedAtSave, UnsavedAtSave, ListedIsSaved, reportVars
  <2>5. SavedIsReported' /\ ComparisonGoesBack'
    BY <2>1 DEF SavedIsReported, ComparisonGoesBack, reportVars
  <2>6. QED
    BY <2>3, <2>4, <2>5
<1>5. QED
  BY <1>1, <1>2, <1>3, <1>4

\* A report is compared with one that is still in the store and that occurred
\* before it, whatever other threads build, store or fail to store in between.
THEOREM ComparisonsGoBack == SafeSpec => []ComparisonGoesBack
<1>1. ReportInv => ComparisonGoesBack
  BY DEF ReportInv
<1>2. QED
  BY <1>1, InvHolds, PlaceHolds, ReportInit, ReportStep, PTL DEF SafeSpec

=============================================================================
