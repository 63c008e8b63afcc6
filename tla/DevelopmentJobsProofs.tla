------------------------ MODULE DevelopmentJobsProofs ------------------------
(***************************************************************************)
(* Proofs about DevelopmentJobs for every set of jobs, every number of     *)
(* threads and every bound that BoundsAssumption allows.                   *)
(***************************************************************************)
EXTENDS DevelopmentJobs, FiniteSetTheorems, TLAPS

-----------------------------------------------------------------------------
(* What the helpers do to a job record.                                    *)

\* Ending a record keeps it a record and leaves its results alone.
LEMMA EndRecord ==
    ASSUME NEW rec \in JobRecord, NEW st \in TerminalStatus, NEW e \in ErrorCode
    PROVE  /\ End(rec, st, e) \in JobRecord
           /\ End(rec, st, e).status = st /\ End(rec, st, e).finished = TRUE
           /\ End(rec, st, e).results = rec.results /\ End(rec, st, e).error = e
  BY Zenon DEF End, JobRecord

\* Expiry ends an active record or changes nothing.
LEMMA ExpireRecord ==
    ASSUME NEW rec \in JobRecord
    PROVE  /\ ExpireLocked(rec) \in JobRecord
           /\ ExpireLocked(rec).results = rec.results
           /\ \/ ExpireLocked(rec) = rec
              \/ /\ rec.status \in ActiveStatus
                 /\ ExpireLocked(rec).status = "error"
                 /\ ExpireLocked(rec).finished = TRUE
  <1>1. CASE rec.status \in ActiveStatus /\ rec.age >= MaxAge
    <2>1. PICK e \in ErrorCode : ExpireLocked(rec) = End(rec, "error", e)
      BY <1>1 DEF ExpireLocked, ErrorCode
    <2>2. "error" \in TerminalStatus
      BY DEF TerminalStatus
    <2>3. /\ End(rec, "error", e) \in JobRecord
          /\ End(rec, "error", e).status = "error" /\ End(rec, "error", e).finished = TRUE
          /\ End(rec, "error", e).results = rec.results
      BY <2>1, <2>2, EndRecord
    <2>. QED  BY <1>1, <2>1, <2>3
  <1>2. CASE ~(rec.status \in ActiveStatus /\ rec.age >= MaxAge)
    BY <1>2 DEF ExpireLocked
  <1>. QED  BY <1>1, <1>2

\* The clock changes nothing but ages.
LEMMA OlderRecord ==
    ASSUME NEW rec \in JobRecord
    PROVE  /\ Older(rec) \in JobRecord
           /\ Older(rec).status = rec.status /\ Older(rec).finished = rec.finished
           /\ Older(rec).results = rec.results /\ Older(rec).error = rec.error
  BY DEF Older, JobRecord

LEMMA UnbornRecord == Unborn \in JobRecord
  <1>1. <<>> \in Seq(Outcome) /\ 0 \in Nat /\ "none" \in ErrorCode
    BY DEF ErrorCode
  <1>. QED  BY <1>1, Zenon DEF Unborn, JobRecord

LEMMA QueuedRecord ==
    ASSUME NEW n \in 1 .. MaxOps
    PROVE  /\ Queued(n) \in JobRecord
           /\ Queued(n).status = "queued" /\ Queued(n).finished = FALSE
           /\ Queued(n).results = <<>>
  <1>1. n \in Nat /\ "queued" \in {"none"} \cup ActiveStatus \cup TerminalStatus
    BY BoundsAssumption DEF ActiveStatus
  <1>2. Queued(n) \in JobRecord
    BY <1>1, UnbornRecord, Zenon DEF Queued, JobRecord
  <1>. QED  BY <1>2, Zenon DEF Queued, Unborn

LEMMA StartedRecord ==
    ASSUME NEW rec \in JobRecord
    PROVE  /\ Started(rec) \in JobRecord
           /\ Started(rec).status = "running" /\ Started(rec).finished = rec.finished
           /\ Started(rec).results = rec.results /\ Started(rec).error = rec.error
  <1>1. "running" \in {"none"} \cup ActiveStatus \cup TerminalStatus
    BY DEF ActiveStatus
  <1>. QED  BY <1>1, Zenon DEF Started, JobRecord

LEMMA WithResultRecord ==
    ASSUME NEW rec \in JobRecord, NEW result \in Outcome
    PROVE  /\ WithResult(rec, result) \in JobRecord
           /\ WithResult(rec, result).status = rec.status
           /\ WithResult(rec, result).finished = rec.finished
           /\ WithResult(rec, result).results = Append(rec.results, result)
           /\ WithResult(rec, result).error = rec.error
  <1>1. Append(rec.results, result) \in Seq(Outcome)
    BY DEF JobRecord
  <1>. QED  BY <1>1, Zenon DEF WithResult, JobRecord

LEMMA VerdictIsTerminal ==
    ASSUME NEW results
    PROVE  Verdict(results) \in {"completed", "warning", "error"}
  BY DEF Verdict

-----------------------------------------------------------------------------
(* Type correctness.                                                       *)

LEMMA TypeInit == Init => TypeOK
  <1>. SUFFICES ASSUME Init PROVE TypeOK
    OBVIOUS
  <1>1. worker \in [Workers -> WorkerState]
    BY DEF Init, Idle, WorkerState
  <1>2. queue \in Seq(Jobs) /\ job \in [Jobs -> JobRecord]
    BY UnbornRecord DEF Init
  <1>3. occurred \in [Jobs -> Nat] /\ previous \in [Jobs -> Jobs \cup {NoJob}]
    BY DEF Init
  <1>. QED  BY <1>1, <1>2, <1>3 DEF Init, TypeOK

LEMMA GotoTyped ==
    ASSUME TypeOK, NEW w \in Workers, worker[w].pc # "idle", NEW pc \in Holding, Goto(w, pc)
    PROVE  worker' \in [Workers -> WorkerState]
  <1>1. worker[w].job \in Jobs
    BY DEF TypeOK, WorkerState
  <1>. QED  BY <1>1 DEF TypeOK, Goto, Held, WorkerState

LEMMA ReturnTyped ==
    ASSUME TypeOK, NEW w \in Workers, Return(w)
    PROVE  worker' \in [Workers -> WorkerState]
  BY DEF TypeOK, Return, WorkerState, Idle

\* A thread that is not idle holds a job.
LEMMA HeldJob ==
    ASSUME TypeOK, NEW w \in Workers, worker[w].pc # "idle"
    PROVE  worker[w].job \in Jobs
  BY DEF TypeOK, WorkerState

LEMMA PruneSubset ==
    ASSUME NEW kept \in PrunedRegistries PROVE kept \subseteq registry
  BY DEF PrunedRegistries

LEMMA TypeStep == TypeOK /\ [Next]_vars => TypeOK'
  <1>. SUFFICES ASSUME TypeOK, [Next]_vars PROVE TypeOK'
    OBVIOUS
  <1>1. ASSUME NEW j \in Jobs, Start(j) PROVE TypeOK'
    BY <1>1, PruneSubset, QueuedRecord DEF TypeOK, Start, reportVars
  <1>2. ASSUME NEW j \in Jobs, Submit(j) PROVE TypeOK'
    BY <1>2 DEF TypeOK, Submit, tableVars, reportVars
  <1>3. ASSUME NEW j \in Jobs, Snapshot(j) PROVE TypeOK'
    <2>1. ExpireLocked(job[j]) \in JobRecord
      BY ExpireRecord DEF TypeOK
    <2>. QED  BY <1>3, <2>1 DEF TypeOK, Snapshot, executorVars, reportVars
  <1>4. ASSUME NEW j \in Jobs, Cancel(j) PROVE TypeOK'
    <2>1. job[j] \in JobRecord /\ "cancelled" \in TerminalStatus
      BY DEF TypeOK, TerminalStatus
    <2>2. job[j].error \in ErrorCode
      BY <2>1 DEF JobRecord
    <2>3. End(job[j], "cancelled", job[j].error) \in JobRecord
      BY <2>1, <2>2, EndRecord
    <2>. QED  BY <1>4, <2>3 DEF TypeOK, Cancel, executorVars, reportVars
  <1>5. CASE StartRejected \/ Cleanup
    BY <1>5, PruneSubset DEF TypeOK, StartRejected, Cleanup, executorVars, reportVars
  <1>6. CASE StopAccepting \/ CloseExecutor
    <2>1. CASE StopAccepting
      BY <2>1 DEF TypeOK, StopAccepting, tableVars, executorVars, reportVars
    <2>2. CASE CloseExecutor
      <3>1. queue' \in Seq(Jobs) /\ closed' \in BOOLEAN
        BY <2>2 DEF CloseExecutor
      <3>. QED  BY <2>2, <3>1 DEF TypeOK, CloseExecutor, tableVars, reportVars
    <2>. QED  BY <1>6, <2>1, <2>2
  <1>7. ASSUME NEW w \in Workers, Take(w) PROVE TypeOK'
    <2>1. Head(queue) \in Jobs /\ Tail(queue) \in Seq(Jobs)
      BY <1>7 DEF Take, TypeOK
    <2>. QED  BY <1>7, <2>1 DEF TypeOK, Take, Held, WorkerState, Holding, tableVars, reportVars
  <1>8. ASSUME NEW w \in Workers, Claim(w) PROVE TypeOK'
    <2>1. worker' \in [Workers -> WorkerState]
      BY <1>8, GotoTyped, ReturnTyped DEF Claim, Holding
    <2>2. job' \in [Jobs -> JobRecord]
      <3>1. worker[w].job \in Jobs
        BY <1>8, HeldJob DEF Claim
      <3>2. Started(job[worker[w].job]) \in JobRecord
        BY <3>1, StartedRecord DEF TypeOK
      <3>. QED  BY <1>8, <3>1, <3>2 DEF TypeOK, Claim
    <2>. QED  BY <1>8, <2>1, <2>2 DEF TypeOK, Claim, executorVars, reportVars
  <1>9. ASSUME NEW w \in Workers, NextOperation(w) PROVE TypeOK'
    <2>1. worker' \in [Workers -> WorkerState]
      BY <1>9, GotoTyped, ReturnTyped DEF NextOperation, Holding
    <2>2. job' \in [Jobs -> JobRecord]
      <3>1. worker[w].job \in Jobs
        BY <1>9, HeldJob DEF NextOperation
      <3>2. ExpireLocked(job[worker[w].job]) \in JobRecord
        BY <3>1, ExpireRecord DEF TypeOK
      <3>. QED  BY <1>9, <3>1, <3>2 DEF TypeOK, NextOperation
    <2>. QED  BY <1>9, <2>1, <2>2 DEF TypeOK, NextOperation, executorVars, reportVars
  <1>10. ASSUME NEW w \in Workers, Probe(w) PROVE TypeOK'
    <2>1. worker[w].job \in Jobs
      BY <1>10, HeldJob DEF Probe
    <2>2. worker' \in [Workers -> WorkerState]
      BY <1>10, <2>1 DEF TypeOK, Probe, WorkerState
    <2>. QED  BY <1>10, <2>2 DEF TypeOK, Probe, tableVars, executorVars, reportVars
  <1>11. ASSUME NEW w \in Workers, AppendResult(w) PROVE TypeOK'
    <2>1. worker' \in [Workers -> WorkerState]
      BY <1>11, GotoTyped, ReturnTyped DEF AppendResult, Holding
    <2>2. worker[w].job \in Jobs /\ worker[w].result \in Outcome
      <3>1. worker[w] \in WorkerState /\ worker[w].pc = "append"
        BY <1>11 DEF TypeOK, AppendResult
      <3>. QED  BY <3>1 DEF WorkerState, Holding
    <2>3. WithResult(job[worker[w].job], worker[w].result) \in JobRecord
      BY <2>2, WithResultRecord DEF TypeOK
    <2>4. job' \in [Jobs -> JobRecord]
      BY <1>11, <2>2, <2>3 DEF TypeOK, AppendResult
    <2>. QED  BY <1>11, <2>1, <2>4 DEF TypeOK, AppendResult, executorVars, reportVars
  <1>12. ASSUME NEW w \in Workers, ListReports(w) PROVE TypeOK'
    <2>1. worker' \in [Workers -> WorkerState]
      BY <1>12, GotoTyped DEF ListReports, Holding
    <2>2. previous' \in [Jobs -> Jobs \cup {NoJob}]
      BY <1>12 DEF TypeOK, ListReports
    <2>. QED  BY <1>12, <2>1, <2>2 DEF TypeOK, ListReports, tableVars, executorVars
  <1>13. ASSUME NEW w \in Workers, BuildReport(w) PROVE TypeOK'
    <2>1. worker' \in [Workers -> WorkerState]
      BY <1>13, GotoTyped DEF BuildReport, Holding
    <2>2. Cardinality(Jobs) \in Nat
      BY JobsAssumption, FS_CardinalityType
    <2>3. PICK t \in 1 .. Cardinality(Jobs) : occurred' = [occurred EXCEPT ![worker[w].job] = t]
      BY <1>13 DEF BuildReport
    <2>4. t \in Nat
      BY <2>2
    <2>5. occurred' \in [Jobs -> Nat]
      BY <2>3, <2>4 DEF TypeOK
    <2>. QED  BY <1>13, <2>1, <2>5 DEF TypeOK, BuildReport, tableVars, executorVars
  <1>14. ASSUME NEW w \in Workers, SaveReport(w) PROVE TypeOK'
    <2>1. worker' \in [Workers -> WorkerState]
      BY <1>14, GotoTyped DEF SaveReport, Holding
    <2>2. worker[w].job \in Jobs
      BY <1>14, HeldJob DEF SaveReport
    <2>3. /\ occurred' \in [Jobs -> Nat] /\ saved' \subseteq Jobs
          /\ previous' \in [Jobs -> Jobs \cup {NoJob}]
      BY <1>14, <2>2 DEF TypeOK, SaveReport
    <2>. QED  BY <1>14, <2>1, <2>3 DEF TypeOK, SaveReport, tableVars, executorVars
  <1>15. ASSUME NEW w \in Workers, FailJob(w) PROVE TypeOK'
    <2>1. worker' \in [Workers -> WorkerState]
      BY <1>15, ReturnTyped DEF FailJob
    <2>2. worker[w].job \in Jobs
      BY <1>15, HeldJob DEF FailJob
    <2>3. \A e \in {"report_persistence_failed", "development_job_failed"} :
             End(job[worker[w].job], "error", e) \in JobRecord
      <3>1. job[worker[w].job] \in JobRecord /\ "error" \in TerminalStatus
        BY <2>2 DEF TypeOK, TerminalStatus
      <3>2. {"report_persistence_failed", "development_job_failed"} \subseteq ErrorCode
        BY DEF ErrorCode
      <3>. QED  BY <3>1, <3>2, EndRecord
    <2>4. job' \in [Jobs -> JobRecord]
      BY <1>15, <2>2, <2>3 DEF TypeOK, FailJob
    <2>. QED  BY <1>15, <2>1, <2>4 DEF TypeOK, FailJob, executorVars, reportVars
  <1>16. ASSUME NEW w \in Workers, Finish(w) PROVE TypeOK'
    <2>1. worker' \in [Workers -> WorkerState]
      BY <1>16, ReturnTyped DEF Finish
    <2>2. worker[w].job \in Jobs
      BY <1>16, HeldJob DEF Finish
    <2>3. job[worker[w].job] \in JobRecord /\ job[worker[w].job].error \in ErrorCode
      BY <2>2 DEF TypeOK, JobRecord
    <2>4. Verdict(job[worker[w].job].results) \in TerminalStatus
      BY VerdictIsTerminal DEF TerminalStatus
    <2>5. End(job[worker[w].job], Verdict(job[worker[w].job].results), job[worker[w].job].error)
             \in JobRecord
      BY <2>3, <2>4, EndRecord
    <2>6. job' \in [Jobs -> JobRecord]
      BY <1>16, <2>2, <2>5 DEF TypeOK, Finish
    <2>. QED  BY <1>16, <2>1, <2>6 DEF TypeOK, Finish, executorVars, reportVars
  <1>17. CASE Tick
    BY <1>17, OlderRecord DEF TypeOK, Tick, executorVars, reportVars
  <1>18. CASE UNCHANGED vars
    BY <1>18 DEF TypeOK, vars
  <1>. QED
    BY <1>1, <1>2, <1>3, <1>4, <1>5, <1>6, <1>7, <1>8, <1>9, <1>10, <1>11, <1>12,
       <1>13, <1>14, <1>15, <1>16, <1>17, <1>18 DEF Next, Work

\* Every reachable state is well typed, whatever the bounds.
THEOREM TypeCorrect == SafeSpec => []TypeOK
  BY TypeInit, TypeStep, PTL DEF SafeSpec

-----------------------------------------------------------------------------
(* The inductive invariant.  Every step but Start moves at most one job     *)
(* along the arrows of Move and only drops finished jobs from the table.    *)

StatusMoves(j) ==
    \/ job'[j].status = job[j].status /\ job'[j].finished = job[j].finished
    \/ job[j].status = "queued" /\ job'[j].status \in TerminalStatus /\ job'[j].finished
    \/ /\ job[j].status = "queued" /\ job'[j].status = "running"
       /\ job'[j].finished = job[j].finished
    \/ Began(j) /\ job'[j].status \in {"completed", "warning", "error"} /\ job'[j].finished

ResultsMove(j) ==
    \/ job'[j].results = job[j].results
    \/ /\ Began(j) /\ job[j].status # "error"
       /\ \E result \in Outcome : job'[j].results = Append(job[j].results, result)

Move(j) == StatusMoves(j) /\ ResultsMove(j)

AtMostOneMoves ==
    \A i, k \in Jobs : job'[i].status # job[i].status /\ job'[k].status # job[k].status => i = k

Moves ==
    /\ registry' \subseteq registry
    /\ \A j \in registry \ registry' : job[j].finished
    /\ registry' = registry \/ UNCHANGED job
    /\ \A j \in Jobs : Move(j)
    /\ AtMostOneMoves

\* Pruning drops ended jobs only.
LEMMA PruneDropsFinished ==
    ASSUME NEW kept \in PrunedRegistries, NEW j \in registry, j \notin kept
    PROVE  job[j].finished
  <1>1. PICK E \in Evictions(registry \ Stale) : kept = (registry \ Stale) \ E
    BY DEF PrunedRegistries
  <1>2. \A e \in E : job[e].finished
    BY <1>1 DEF Evictions
  <1>. QED  BY <1>1, <1>2 DEF Stale

LEMMA SameMoves ==
    ASSUME UNCHANGED job PROVE (\A j \in Jobs : Move(j)) /\ AtMostOneMoves
  BY DEF Move, StatusMoves, ResultsMove, AtMostOneMoves

\* A step that moves one job and touches no other.
LEMMA OneMoves ==
    ASSUME NEW j \in Jobs, Move(j), \A k \in Jobs \ {j} : job'[k] = job[k]
    PROVE  (\A k \in Jobs : Move(k)) /\ AtMostOneMoves
  BY DEF Move, StatusMoves, ResultsMove, AtMostOneMoves

\* Expiry is a move.
LEMMA ExpireMoves ==
    ASSUME NEW j \in Jobs, job[j] \in JobRecord, job'[j] = ExpireLocked(job[j])
    PROVE  Move(j)
  <1>1. "error" \in TerminalStatus
    BY DEF TerminalStatus
  <1>2. job[j].status \in ActiveStatus => job[j].status = "queued" \/ Began(j)
    BY DEF ActiveStatus, Began
  <1>. QED  BY <1>1, <1>2, ExpireRecord DEF Move, StatusMoves, ResultsMove

\* Ending an active job is a move, and so is a verdict on one that began.
LEMMA EndMoves ==
    ASSUME NEW j \in Jobs, NEW rec \in JobRecord, job[j] = rec,
           NEW st \in TerminalStatus, NEW e \in ErrorCode,
           job'[j] = End(rec, st, e),
           \/ job[j].status = "queued"
           \/ Began(j) /\ st \in {"completed", "warning", "error"}
    PROVE  Move(j)
  <1>1. rec \in JobRecord /\ st \in TerminalStatus /\ e \in ErrorCode
    OBVIOUS
  <1>2. /\ End(rec, st, e).status = st /\ End(rec, st, e).finished = TRUE
        /\ End(rec, st, e).results = rec.results
    BY ONLY <1>1, EndRecord
  <1>3. /\ job'[j].status = st /\ job'[j].finished = TRUE
        /\ job'[j].results = job[j].results
    BY <1>2
  <1>. QED  BY <1>3 DEF Move, StatusMoves, ResultsMove

LEMMA NextMoves ==
    ASSUME IInv, [Next]_vars PROVE Moves \/ \E j \in Jobs : Start(j)
  <1>. USE DEF IInv
  <1>2. ASSUME NEW j \in Jobs, Submit(j) PROVE Moves
    BY <1>2, SameMoves DEF Moves, Submit, tableVars
  <1>3. ASSUME NEW j \in Jobs, Snapshot(j) PROVE Moves
    <2>1. job[j] \in JobRecord /\ "error" \in TerminalStatus
      BY DEF TypeOK, TerminalStatus
    <2>2. job'[j] = ExpireLocked(job[j]) /\ \A k \in Jobs \ {j} : job'[k] = job[k]
      BY <1>3 DEF Snapshot, TypeOK
    <2>3. Move(j)
      BY <2>1, <2>2, ExpireMoves
    <2>. QED  BY <1>3, <2>2, <2>3, OneMoves DEF Moves, Snapshot
  <1>4. ASSUME NEW j \in Jobs, Cancel(j) PROVE Moves
    <2>1. job[j] \in JobRecord /\ "cancelled" \in TerminalStatus /\ job[j].status = "queued"
      BY <1>4 DEF TypeOK, TerminalStatus, Cancel
    <2>2. job[j].error \in ErrorCode
      BY <2>1 DEF JobRecord
    <2>3. \A k \in Jobs \ {j} : job'[k] = job[k]
      BY <1>4 DEF Cancel, TypeOK
    <2>4. job'[j] = End(job[j], "cancelled", job[j].error)
      BY <1>4 DEF Cancel, TypeOK
    <2>5. Move(j)
      BY <2>1, <2>2, <2>4, EndMoves
    <2>. QED  BY <1>4, <2>3, <2>5, OneMoves DEF Moves, Cancel
  <1>5. CASE StartRejected \/ Cleanup
    <2>1. UNCHANGED job /\ registry' \in PrunedRegistries
      BY <1>5 DEF StartRejected, Cleanup
    <2>. QED  BY <2>1, PruneSubset, PruneDropsFinished, SameMoves DEF Moves
  <1>6. CASE StopAccepting \/ CloseExecutor
    BY <1>6, SameMoves DEF Moves, StopAccepting, CloseExecutor, tableVars
  <1>7. ASSUME NEW w \in Workers, Take(w) PROVE Moves
    BY <1>7, SameMoves DEF Moves, Take, tableVars
  <1>8. ASSUME NEW w \in Workers, Claim(w) PROVE Moves
    <2>. DEFINE j == worker[w].job
    <2>1. CASE j \notin registry \/ job[j].status # "queued"
      BY <1>8, <2>1, SameMoves DEF Moves, Claim
    <2>2. CASE ~(j \notin registry \/ job[j].status # "queued")
      <3>1. j \in Jobs /\ job[j] \in JobRecord
        BY <1>8, HeldJob DEF Claim, TypeOK
      <3>2. job'[j] = Started(job[j]) /\ \A k \in Jobs \ {j} : job'[k] = job[k]
        BY <1>8, <2>2, <3>1 DEF Claim, TypeOK
      <3>3. Move(j)
        BY <2>2, <3>1, <3>2, StartedRecord DEF Move, StatusMoves, ResultsMove
      <3>. QED  BY <1>8, <3>1, <3>2, <3>3, OneMoves DEF Moves, Claim
    <2>. QED  BY <2>1, <2>2
  <1>9. ASSUME NEW w \in Workers, NextOperation(w) PROVE Moves
    <2>. DEFINE j == worker[w].job
    <2>1. CASE Len(job[j].results) = job[j].ops
      BY <1>9, <2>1, SameMoves DEF Moves, NextOperation
    <2>2. CASE Len(job[j].results) # job[j].ops
      <3>1. j \in Jobs /\ job[j] \in JobRecord /\ "error" \in TerminalStatus
        BY <1>9, HeldJob DEF NextOperation, TypeOK, TerminalStatus
      <3>2. job'[j] = ExpireLocked(job[j]) /\ \A k \in Jobs \ {j} : job'[k] = job[k]
        BY <1>9, <2>2, <3>1 DEF NextOperation, TypeOK
      <3>3. Move(j)
        BY <3>1, <3>2, ExpireMoves
      <3>. QED  BY <1>9, <3>1, <3>2, <3>3, OneMoves DEF Moves, NextOperation
    <2>. QED  BY <2>1, <2>2
  <1>10. ASSUME NEW w \in Workers, Probe(w) PROVE Moves
    BY <1>10, SameMoves DEF Moves, Probe, tableVars
  <1>11. ASSUME NEW w \in Workers, AppendResult(w) PROVE Moves
    <2>. DEFINE j == worker[w].job
    <2>1. CASE job[j].status = "error"
      BY <1>11, <2>1, SameMoves DEF Moves, AppendResult
    <2>2. CASE job[j].status # "error"
      <3>1. j \in Jobs /\ worker[w].result \in Outcome
        <4>1. worker[w] \in WorkerState /\ worker[w].pc = "append"
          BY <1>11 DEF TypeOK, AppendResult
        <4>. QED  BY <4>1 DEF WorkerState, Holding
      <3>2. job[j] \in JobRecord
        BY <3>1 DEF TypeOK
      <3>3. job'[j] = WithResult(job[j], worker[w].result) /\ \A k \in Jobs \ {j} : job'[k] = job[k]
        BY <1>11, <2>2, <3>1 DEF AppendResult, TypeOK
      <3>4. Began(j)
        BY <1>11 DEF AppendResult, HeldJobsBegan
      <3>5. Move(j)
        <4>1. PICK result \in Outcome : job'[j] = WithResult(job[j], result)
          BY <3>1, <3>3
        <4>2. StatusMoves(j)
          BY <3>2, <4>1, WithResultRecord DEF StatusMoves
        <4>3. job'[j].results = Append(job[j].results, result)
          BY <3>2, <4>1, WithResultRecord
        <4>. QED  BY <2>2, <3>4, <4>2, <4>3 DEF Move, ResultsMove
      <3>. QED  BY <1>11, <3>1, <3>3, <3>5, OneMoves DEF Moves, AppendResult
    <2>. QED  BY <2>1, <2>2
  <1>12. ASSUME NEW w \in Workers, ListReports(w) \/ BuildReport(w) \/ SaveReport(w) PROVE Moves
    BY <1>12, SameMoves DEF Moves, ListReports, BuildReport, SaveReport, tableVars
  <1>13. ASSUME NEW w \in Workers, FailJob(w) \/ Finish(w) PROVE Moves
    <2>. DEFINE j == worker[w].job
    <2>1. j \in Jobs /\ Began(j)
      BY <1>13, HeldJob DEF FailJob, Finish, HeldJobsBegan
    <2>2. job[j] \in JobRecord
      BY <2>1 DEF TypeOK
    <2>3. PICK st \in {"completed", "warning", "error"}, e \in ErrorCode :
             job' = [job EXCEPT ![j] = End(job[j], st, e)]
      <3>1. CASE FailJob(w)
        BY <3>1 DEF FailJob, ErrorCode
      <3>2. CASE Finish(w)
        <4>1. job[j].error \in ErrorCode
          BY <2>2 DEF JobRecord
        <4>. QED  BY <3>2, <4>1, VerdictIsTerminal DEF Finish
      <3>. QED  BY <1>13, <3>1, <3>2
    <2>4. st \in TerminalStatus
      BY DEF TerminalStatus
    <2>5. job'[j] = End(job[j], st, e) /\ \A k \in Jobs \ {j} : job'[k] = job[k]
      BY <2>1, <2>3 DEF TypeOK
    <2>6. Move(j)
      BY <2>1, <2>2, <2>4, <2>5, EndMoves
    <2>. QED  BY <1>13, <2>1, <2>5, <2>6, OneMoves DEF Moves, FailJob, Finish
  <1>14. CASE Tick
    <2>1. ASSUME NEW j \in Jobs PROVE Move(j)
      <3>1. job[j] \in JobRecord /\ (job'[j] = job[j] \/ job'[j] = Older(job[j]))
        BY <1>14 DEF Tick, TypeOK
      <3>. QED  BY <3>1, OlderRecord DEF Move, StatusMoves, ResultsMove
    <2>2. \A j \in Jobs : job'[j].status = job[j].status
      <3>1. ASSUME NEW j \in Jobs PROVE job'[j].status = job[j].status
        <4>1. job[j] \in JobRecord /\ (job'[j] = job[j] \/ job'[j] = Older(job[j]))
          BY <1>14 DEF Tick, TypeOK
        <4>. QED  BY <4>1, OlderRecord
      <3>. QED  BY <3>1
    <2>. QED  BY <1>14, <2>1, <2>2 DEF Moves, Tick, AtMostOneMoves
  <1>15. CASE UNCHANGED vars
    BY <1>15, SameMoves DEF Moves, vars
  <1>. QED
    BY <1>2, <1>3, <1>4, <1>5, <1>6, <1>7, <1>8, <1>9, <1>10, <1>11, <1>12, <1>13,
       <1>14, <1>15 DEF Next, Work

\* start() inserts one queued job in what pruning left of the table.
LEMMA StartFacts ==
    ASSUME IInv, NEW j \in Jobs, Start(j)
    PROVE  \E kept \in PrunedRegistries :
              /\ HasRoom(kept) /\ registry' = kept \cup {j} /\ kept \subseteq registry
              /\ job[j].status = "none" /\ job'[j].status = "queued"
              /\ job'[j].finished = FALSE /\ job'[j].results = <<>>
              /\ \A k \in Jobs \ {j} : job'[k] = job[k]
              /\ \A k \in registry \ kept : job[k].finished
  <1>1. PICK kept \in PrunedRegistries, n \in 1 .. MaxOps :
           /\ HasRoom(kept) /\ registry' = kept \cup {j}
           /\ job' = [job EXCEPT ![j] = Queued(n)]
    BY DEF Start
  <1>2. job'[j] = Queued(n) /\ \A k \in Jobs \ {j} : job'[k] = job[k]
    BY <1>1 DEF IInv, TypeOK
  <1>3. job[j].status = "none"
    BY DEF Start
  <1>. QED  BY <1>1, <1>2, <1>3, QueuedRecord, PruneSubset, PruneDropsFinished

LEMMA StatusCases ==
    ASSUME TypeOK, NEW j \in Jobs
    PROVE  job[j].status \in {"none"} \cup ActiveStatus \cup TerminalStatus
  BY DEF TypeOK, JobRecord

\* A finish time stays what ended jobs have and no other.
LEMMA FinishedStep ==
    ASSUME IInv, Moves \/ \E j \in Jobs : Start(j)
    PROVE  FinishedIffTerminal'
  <1>1. CASE Moves
    BY <1>1, StatusCases DEF IInv, Moves, Move, StatusMoves, FinishedIffTerminal, Began, TerminalStatus
  <1>2. ASSUME NEW j \in Jobs, Start(j) PROVE FinishedIffTerminal'
    BY <1>2, StartFacts DEF IInv, FinishedIffTerminal, TerminalStatus
  <1>. QED  BY <1>1, <1>2

\* A queued or running job stays in the table, and the table holds jobs only.
LEMMA RegisteredStep ==
    ASSUME IInv, Moves \/ \E j \in Jobs : Start(j)
    PROVE  ActiveIsRegistered' /\ RegisteredIsBorn'
  <1>1. CASE Moves
    <2>1. \A j \in Jobs : job[j].finished => job[j].status \in TerminalStatus
      BY DEF IInv, FinishedIffTerminal
    <2>2. ASSUME NEW j \in Jobs, IsActive(j)' PROVE IsActive(j)
      BY <1>1, <2>2 DEF Moves, Move, StatusMoves, IsActive, ActiveStatus, TerminalStatus
    <2>3. ActiveIsRegistered'
      BY <1>1, <2>1, <2>2 DEF IInv, Moves, ActiveIsRegistered, IsActive, ActiveStatus, TerminalStatus,
         Move, StatusMoves
    <2>4. RegisteredIsBorn'
      BY <1>1 DEF IInv, TypeOK, Moves, Move, StatusMoves, RegisteredIsBorn, TerminalStatus
    <2>. QED  BY <2>3, <2>4
  <1>2. ASSUME NEW j \in Jobs, Start(j) PROVE ActiveIsRegistered' /\ RegisteredIsBorn'
    <2>1. PICK kept \in PrunedRegistries :
              /\ registry' = kept \cup {j} /\ kept \subseteq registry
              /\ job'[j].status = "queued"
              /\ \A k \in Jobs \ {j} : job'[k] = job[k]
              /\ \A k \in registry \ kept : job[k].finished
      BY <1>2, StartFacts
    <2>2. ActiveIsRegistered'
      BY <2>1 DEF IInv, ActiveIsRegistered, IsActive, FinishedIffTerminal, ActiveStatus, TerminalStatus
    <2>3. RegisteredIsBorn'
      BY <2>1 DEF IInv, TypeOK, RegisteredIsBorn
    <2>. QED  BY <2>2, <2>3
  <1>. QED  BY <1>1, <1>2

\* A job that has not begun has no results.
LEMMA EarlyStep ==
    ASSUME IInv, Moves \/ \E j \in Jobs : Start(j)
    PROVE  NoEarlyResults'
  <1>1. CASE Moves
    BY <1>1 DEF IInv, Moves, Move, StatusMoves, ResultsMove, NoEarlyResults, Began, TerminalStatus
  <1>2. ASSUME NEW j \in Jobs, Start(j) PROVE NoEarlyResults'
    BY <1>2, StartFacts DEF IInv, NoEarlyResults, Began
  <1>. QED  BY <1>1, <1>2

\* A thread past its claim keeps its job, and gets there with a running job.
LEMMA WorkerStep ==
    ASSUME IInv, [Next]_vars, NEW w \in Workers, worker'[w].pc \notin {"idle", "claim"}
    PROVE  /\ worker'[w].job = worker[w].job /\ worker'[w].job \in Jobs
           /\ \/ worker[w].pc \notin {"idle", "claim"}
              \/ job'[worker[w].job].status = "running"
  <1>. USE DEF IInv
  <1>1. CASE UNCHANGED worker
    BY <1>1, HeldJob
  <1>2. ASSUME NEW v \in Workers, Take(v) PROVE worker' = [worker EXCEPT ![v] = Held("claim", Head(queue))]
    BY <1>2 DEF Take
  <1>3. ASSUME NEW v \in Workers, Take(v), v = w PROVE FALSE
    BY <1>2, <1>3 DEF TypeOK, Held
  <1>4. ASSUME NEW v \in Workers, Work(v) \/ Probe(v), v # w PROVE worker'[w] = worker[w]
    BY <1>4 DEF Work, Take, Claim, NextOperation, AppendResult, ListReports, BuildReport,
       SaveReport, FailJob, Finish, Probe, Goto, Return, TypeOK
  <1>5. CASE Claim(w)
    <2>1. worker[w].job \in Jobs
      BY <1>5, HeldJob DEF Claim
    <2>2. worker'[w] # Idle
      BY DEF Idle
    <2>3. /\ job' = [job EXCEPT ![worker[w].job] = Started(@)]
          /\ worker' = [worker EXCEPT ![w] = Held("loop", @.job)]
      BY <1>5, <2>2 DEF Claim, Goto, Return, TypeOK
    <2>4. job'[worker[w].job] = Started(job[worker[w].job]) /\ job[worker[w].job] \in JobRecord
      BY <2>1, <2>3 DEF TypeOK
    <2>5. job'[worker[w].job].status = "running"
      BY <2>4, StartedRecord
    <2>. QED  BY <2>1, <2>3, <2>5 DEF TypeOK, Held
  <1>6. ASSUME worker[w].pc \notin {"idle", "claim"}, Work(w) \/ Probe(w)
        PROVE  worker'[w].job = worker[w].job
    BY <1>6 DEF Work, Take, Claim, NextOperation, AppendResult, ListReports, BuildReport,
       SaveReport, FailJob, Finish, Probe, Goto, Return, Held, Idle, TypeOK
  <1>7. Work(w) \/ Probe(w) => Take(w) \/ Claim(w) \/ worker[w].pc \notin {"idle", "claim"}
    BY DEF Work, Take, Claim, NextOperation, AppendResult, ListReports, BuildReport,
       SaveReport, FailJob, Finish, Probe
  <1>8. CASE Work(w) \/ Probe(w)
    <2>1. CASE worker[w].pc \notin {"idle", "claim"}
      BY <1>6, <1>8, <2>1, HeldJob
    <2>. QED  BY <1>3, <1>5, <1>7, <1>8, <2>1
  <1>9. ASSUME NEW v \in Workers, Work(v) \/ Probe(v), v # w
        PROVE  worker[w].pc \notin {"idle", "claim"} /\ worker'[w] = worker[w]
    BY <1>4, <1>9
  <1>10. UNCHANGED worker \/ \E v \in Workers : Work(v) \/ Probe(v)
    BY DEF Next, vars, Start, Submit, Snapshot, Cancel, StartRejected, Cleanup, StopAccepting,
       CloseExecutor, Tick
  <1>. QED  BY <1>1, <1>8, <1>9, <1>10, HeldJob

\* A thread past its claim holds a job that began.
LEMMA HeldStep ==
    ASSUME IInv, [Next]_vars, Moves \/ \E j \in Jobs : Start(j)
    PROVE  HeldJobsBegan'
  <1>1. ASSUME NEW j \in Jobs, Began(j) PROVE Began(j)'
    <2>1. CASE Moves
      BY <1>1, <2>1 DEF Moves, Move, StatusMoves, Began
    <2>2. ASSUME NEW i \in Jobs, Start(i) PROVE Began(j)'
      BY <1>1, <2>2, StartFacts DEF Began
    <2>. QED  BY <2>1, <2>2
  <1>2. ASSUME NEW w \in Workers, worker'[w].pc \notin {"idle", "claim"}
        PROVE  Began(worker[w].job)' /\ worker'[w].job = worker[w].job
    <2>1. CASE worker[w].pc \notin {"idle", "claim"}
      BY <1>1, <1>2, <2>1, WorkerStep DEF IInv, HeldJobsBegan
    <2>2. CASE job'[worker[w].job].status = "running"
      BY <1>2, <2>2, WorkerStep DEF Began
    <2>. QED  BY <1>2, <2>1, <2>2, WorkerStep
  <1>. QED  BY <1>2 DEF HeldJobsBegan

-----------------------------------------------------------------------------
(* The two bounds of the table.                                            *)

LEMMA RegistryFinite ==
    ASSUME TypeOK, NEW S \in SUBSET registry
    PROVE  IsFiniteSet(S) /\ Cardinality(S) \in Nat
  <1>1. IsFiniteSet(S)
    BY JobsAssumption, FS_Subset DEF TypeOK
  <1>. QED  BY <1>1, FS_CardinalityType

LEMMA ActiveBoundStep ==
    ASSUME IInv, Moves \/ \E j \in Jobs : Start(j)
    PROVE  ActiveBound'
  <1>. TypeOK /\ ActiveBound /\ ActiveIn(registry) \in SUBSET registry
    BY DEF IInv, ActiveIn
  <1>1. CASE Moves
    <2>1. ActiveIn(registry)' \subseteq ActiveIn(registry)
      BY <1>1 DEF ActiveIn, IsActive, TypeOK, Moves, Move, StatusMoves, ActiveStatus, TerminalStatus
    <2>2. /\ Cardinality(ActiveIn(registry)') <= Cardinality(ActiveIn(registry))
          /\ Cardinality(ActiveIn(registry)') \in Nat /\ Cardinality(ActiveIn(registry)) \in Nat
      BY <2>1, RegistryFinite, FS_Subset
    <2>. QED  BY <2>2, BoundsAssumption DEF ActiveBound
  <1>2. ASSUME NEW j \in Jobs, Start(j) PROVE ActiveBound'
    <2>1. PICK kept \in PrunedRegistries :
              /\ HasRoom(kept) /\ registry' = kept \cup {j} /\ kept \subseteq registry
              /\ job[j].status = "none"
              /\ \A k \in Jobs \ {j} : job'[k] = job[k]
      BY <1>2, StartFacts
    <2>2. ActiveIn(registry)' \subseteq ActiveIn(kept) \cup {j}
      BY <2>1 DEF ActiveIn, IsActive, TypeOK
    <2>3. /\ IsFiniteSet(ActiveIn(kept)) /\ Cardinality(ActiveIn(kept)) \in Nat
          /\ IsFiniteSet(ActiveIn(kept) \cup {j})
          /\ Cardinality(ActiveIn(kept) \cup {j}) <= Cardinality(ActiveIn(kept)) + 1
      <3>1. ActiveIn(kept) \in SUBSET registry
        BY <2>1 DEF ActiveIn
      <3>2. IsFiniteSet(ActiveIn(kept)) /\ Cardinality(ActiveIn(kept)) \in Nat
        BY <3>1, RegistryFinite
      <3>. QED  BY <3>2, FS_AddElement
    <2>4. /\ Cardinality(ActiveIn(registry)') <= Cardinality(ActiveIn(kept) \cup {j})
          /\ Cardinality(ActiveIn(registry)') \in Nat /\ Cardinality(ActiveIn(kept) \cup {j}) \in Nat
      BY <2>2, <2>3, FS_Subset, FS_CardinalityType
    <2>5. Cardinality(ActiveIn(kept)) < MaxActive
      BY <2>1 DEF HasRoom
    <2>. QED  BY <2>3, <2>4, <2>5, BoundsAssumption DEF ActiveBound
  <1>. QED  BY <1>1, <1>2

\* Pruning leaves room for one more job, because it can drop every job of the
\* table but the active ones and these are fewer than Capacity.
LEMMA PruneMakesRoom ==
    ASSUME IInv, NEW kept \in PrunedRegistries
    PROVE  Cardinality(kept) < Capacity
  <1>. DEFINE K == registry \ Stale
              ended == {k \in K : job[k].finished}
  <1>1. PICK E \in Evictions(K) : kept = K \ E
    BY DEF PrunedRegistries
  <1>2. IsFiniteSet(K) /\ Cardinality(K) \in Nat /\ Capacity \in Nat
    BY RegistryFinite, BoundsAssumption DEF IInv
  <1>3. CASE Cardinality(K) < Capacity
    <2>1. E = {}
      BY <1>1, <1>3 DEF Evictions
    <2>. QED  BY <1>1, <1>3, <2>1
  <1>4. CASE ~(Cardinality(K) < Capacity)
    <2>1. /\ E \subseteq ended
          /\ Cardinality(E) = Cardinality(K) - (Capacity - 1) \/ E = ended
      BY <1>1, <1>4 DEF Evictions
    <2>2. E \in SUBSET K
      BY <2>1
    <2>3. CASE Cardinality(E) = Cardinality(K) - (Capacity - 1)
      <3>1. IsFiniteSet(E) /\ Cardinality(E) \in Nat
        BY <2>2, RegistryFinite DEF IInv
      <3>2. IsFiniteSet(K \ E) /\ Cardinality(K \ E) \in Nat
        BY RegistryFinite DEF IInv
      <3>3. Cardinality((K \ E) \cup E) = Cardinality(K \ E) + Cardinality(E) - Cardinality((K \ E) \cap E)
        BY <3>1, <3>2, FS_Union
      <3>4. (K \ E) \cup E = K /\ (K \ E) \cap E = {}
        BY <2>2
      <3>5. Cardinality(K) = Cardinality(K \ E) + Cardinality(E) - 0
        BY <3>3, <3>4, FS_EmptySet
      <3>. QED  BY <1>1, <1>2, <2>3, <3>1, <3>2, <3>5
    <2>4. CASE E = ended
      <3>1. \A k \in kept : IsActive(k)
        BY <1>1, <2>4, StatusCases DEF IInv, TypeOK, FinishedIffTerminal, RegisteredIsBorn, IsActive
      <3>2. kept \subseteq ActiveIn(registry)
        BY <1>1, <3>1 DEF ActiveIn
      <3>3. ActiveIn(registry) \in SUBSET registry
        BY DEF ActiveIn
      <3>4. /\ Cardinality(kept) <= Cardinality(ActiveIn(registry))
            /\ Cardinality(kept) \in Nat /\ Cardinality(ActiveIn(registry)) \in Nat
        BY <1>1, <3>2, <3>3, RegistryFinite, FS_Subset DEF IInv
      <3>. QED  BY <3>4, BoundsAssumption DEF IInv, ActiveBound
    <2>. QED  BY <2>1, <2>3, <2>4
  <1>. QED  BY <1>3, <1>4

LEMMA RetainedBoundStep ==
    ASSUME IInv, Moves \/ \E j \in Jobs : Start(j)
    PROVE  RetainedBound'
  <1>. TypeOK /\ RetainedBound /\ Capacity \in Nat
    BY BoundsAssumption DEF IInv
  <1>1. CASE Moves
    <2>1. registry' \in SUBSET registry
      BY <1>1 DEF Moves
    <2>2. /\ Cardinality(registry') <= Cardinality(registry)
          /\ Cardinality(registry') \in Nat /\ Cardinality(registry) \in Nat
      BY <2>1, RegistryFinite, FS_Subset
    <2>. QED  BY <2>2 DEF RetainedBound
  <1>2. ASSUME NEW j \in Jobs, Start(j) PROVE RetainedBound'
    <2>1. PICK kept \in PrunedRegistries : registry' = kept \cup {j} /\ kept \subseteq registry
      BY <1>2, StartFacts
    <2>2. IsFiniteSet(kept) /\ Cardinality(kept) \in Nat
      BY <2>1, RegistryFinite
    <2>3. Cardinality(kept \cup {j}) = IF j \in kept THEN Cardinality(kept) ELSE Cardinality(kept) + 1
      BY <2>2, FS_AddElement
    <2>4. Cardinality(kept) < Capacity
      BY PruneMakesRoom
    <2>. QED  BY <2>1, <2>2, <2>3, <2>4 DEF RetainedBound
  <1>. QED  BY <1>1, <1>2

-----------------------------------------------------------------------------
(* The invariant, and what follows from it.                                *)

LEMMA InvInit == Init => IInv
  <1>. SUFFICES ASSUME Init PROVE IInv
    OBVIOUS
  <1>1. TypeOK
    BY TypeInit
  <1>2. \A j \in Jobs : job[j] = Unborn
    BY DEF Init
  <1>3. Unborn.status = "none" /\ Unborn.finished = FALSE /\ Unborn.results = <<>>
    BY DEF Unborn
  <1>4. FinishedIffTerminal /\ ActiveIsRegistered /\ NoEarlyResults
    BY <1>2, <1>3 DEF FinishedIffTerminal, ActiveIsRegistered, NoEarlyResults, IsActive,
       ActiveStatus, TerminalStatus
  <1>5. RegisteredIsBorn /\ HeldJobsBegan
    BY DEF Init, Idle, RegisteredIsBorn, HeldJobsBegan
  <1>6. ActiveBound /\ RetainedBound
    <2>1. ActiveIn(registry) = {} /\ registry = {}
      BY DEF Init, ActiveIn
    <2>. QED  BY <2>1, FS_EmptySet, BoundsAssumption DEF ActiveBound, RetainedBound
  <1>. QED  BY <1>1, <1>4, <1>5, <1>6 DEF IInv

LEMMA InvStep == IInv /\ [Next]_vars => IInv'
  <1>. SUFFICES ASSUME IInv, [Next]_vars PROVE IInv'
    OBVIOUS
  <1>1. TypeOK'
    BY TypeStep DEF IInv
  <1>2. Moves \/ \E j \in Jobs : Start(j)
    BY NextMoves
  <1>3. FinishedIffTerminal' /\ ActiveIsRegistered' /\ RegisteredIsBorn' /\ NoEarlyResults'
    BY <1>2, FinishedStep, RegisteredStep, EarlyStep
  <1>4. HeldJobsBegan'
    BY <1>2, HeldStep
  <1>5. ActiveBound' /\ RetainedBound'
    BY <1>2, ActiveBoundStep, RetainedBoundStep
  <1>. QED  BY <1>1, <1>3, <1>4, <1>5 DEF IInv

LEMMA InvHolds == SafeSpec => []IInv
  BY InvInit, InvStep, PTL DEF SafeSpec

\* start() never lets more jobs be queued or running than MAX_ACTIVE_JOBS,
\* for any number of callers, threads, expiries and evictions.
THEOREM ActiveBounded == SafeSpec => []ActiveBound
  <1>1. IInv => ActiveBound
    BY DEF IInv
  <1>. QED  BY <1>1, InvHolds, PTL

\* The table of jobs is bounded, because pruning finds enough ended jobs.
THEOREM RetainedBounded == SafeSpec => []RetainedBound
  <1>1. IInv => RetainedBound
    BY DEF IInv
  <1>. QED  BY <1>1, InvHolds, PTL

\* No queued or running job is ever dropped from the table.
THEOREM ActiveStaysRegistered == SafeSpec => []ActiveIsRegistered
  <1>1. IInv => ActiveIsRegistered
    BY DEF IInv
  <1>. QED  BY <1>1, InvHolds, PTL

\* A job has a finish time exactly when it ended, whichever of expiry, cancel, a
\* failure or the verdict ended it: pruning drops by that time.
THEOREM FinishedWhenEnded == SafeSpec => []FinishedIffTerminal
  <1>1. IInv => FinishedIffTerminal
    BY DEF IInv
  <1>. QED  BY <1>1, InvHolds, PTL

\* A cancelled job never runs and never changes again, wherever its future is.
THEOREM CancelledForGood == SafeSpec => CancelIsFinal
  <1>1. ASSUME IInv, [Next]_vars, NEW j \in Jobs, job[j].status = "cancelled"
        PROVE  job'[j].status = "cancelled" /\ job'[j].results = <<>>
    <2>1. CASE Moves
      <3>1. ~Began(j) /\ job[j].results = <<>>
        BY <1>1 DEF IInv, Began, NoEarlyResults
      <3>. QED  BY <1>1, <2>1, <3>1 DEF Moves, Move, StatusMoves, ResultsMove
    <2>2. ASSUME NEW i \in Jobs, Start(i)
          PROVE  job'[j].status = "cancelled" /\ job'[j].results = <<>>
      <3>1. j # i /\ job'[j] = job[j]
        BY <1>1, <2>2, StartFacts
      <3>2. ~Began(j) /\ job[j].results = <<>>
        BY <1>1 DEF IInv, Began, NoEarlyResults
      <3>. QED  BY <1>1, <3>1, <3>2
    <2>. QED  BY <1>1, <2>1, <2>2, NextMoves
  <1>2. IInv /\ [Next]_vars => [\A j \in Jobs : job[j].status = "cancelled" =>
                                   job'[j].status = "cancelled" /\ job'[j].results = <<>>]_job
    BY <1>1
  <1>. QED  BY <1>2, InvHolds, PTL DEF SafeSpec, CancelIsFinal

\* A job that timed out gathers no result of the probe that was in flight.
THEOREM ErrorGathers == SafeSpec => ErrorGathersNothing
  <1>1. ASSUME IInv, [Next]_vars, NEW j \in Jobs, job[j].status = "error"
        PROVE  job'[j].results = job[j].results
    <2>1. CASE Moves
      BY <1>1, <2>1 DEF Moves, Move, ResultsMove
    <2>2. ASSUME NEW i \in Jobs, Start(i) PROVE job'[j].results = job[j].results
      BY <1>1, <2>2, StartFacts
    <2>. QED  BY <1>1, <2>1, <2>2, NextMoves
  <1>2. IInv /\ [Next]_vars => [\A j \in Jobs : job[j].status = "error" =>
                                   job'[j].results = job[j].results]_job
    BY <1>1
  <1>. QED  BY <1>2, InvHolds, PTL DEF SafeSpec, ErrorGathersNothing

-----------------------------------------------------------------------------
(* DevelopmentJobs implements JobLifecycle.                                *)

Phases == [j \in Jobs |-> Phase(j)]

PhaseOfStatus ==
    \A j \in Jobs :
        /\ IsActive(j) => Phases[j] = job[j].status /\ j \in registry
        /\ job[j].status \in TerminalStatus =>
             Phases[j] = IF j \in registry THEN "ended" ELSE "forgotten"
        /\ job[j].status = "none" => Phases[j] = "unborn"

LEMMA PhasesNow == IInv => PhaseOfStatus
  <1>. SUFFICES ASSUME IInv, NEW j \in Jobs
       PROVE  /\ IsActive(j) => Phases[j] = job[j].status /\ j \in registry
              /\ job[j].status \in TerminalStatus =>
                   Phases[j] = IF j \in registry THEN "ended" ELSE "forgotten"
              /\ job[j].status = "none" => Phases[j] = "unborn"
    BY DEF PhaseOfStatus
  <1>2. IsActive(j) => j \in registry
    BY DEF IInv, ActiveIsRegistered
  <1>3. CASE IsActive(j)
    BY <1>2, <1>3 DEF Phases, Phase, IsActive, ActiveStatus, TerminalStatus
  <1>4. CASE job[j].status \in TerminalStatus
    BY <1>4 DEF Phases, Phase, IsActive, ActiveStatus, TerminalStatus
  <1>5. CASE job[j].status = "none"
    BY <1>5 DEF Phases, Phase, IsActive, ActiveStatus, TerminalStatus
  <1>. QED  BY <1>2, <1>3, <1>4, <1>5 DEF IsActive

LEMMA PhasesNext == IInv' => PhaseOfStatus'
  BY PhasesNow, PTL

\* Dropping ended jobs from the table is the console forgetting them.
LEMMA DropIsForget ==
    ASSUME IInv, IInv', UNCHANGED job, registry' \subseteq registry,
           \A j \in registry \ registry' : job[j].finished
    PROVE  Lifecycle!Forget
  <1>. DEFINE F == registry \ registry'
  <1>. /\ PhaseOfStatus /\ PhaseOfStatus'
    BY PhasesNow, PhasesNext
  <1>1. ASSUME NEW j \in F PROVE j \in Jobs /\ Phases[j] = "ended" /\ Phases'[j] = "forgotten"
    <2>1. j \in Jobs /\ job[j].status \in TerminalStatus /\ job'[j].status \in TerminalStatus
      BY DEF IInv, TypeOK, FinishedIffTerminal
    <2>. QED  BY <2>1 DEF PhaseOfStatus
  <1>2. ASSUME NEW j \in Jobs \ F PROVE Phases'[j] = Phases[j]
    <2>1. job'[j] = job[j] /\ (j \in registry' <=> j \in registry)
      OBVIOUS
    <2>. QED  BY <2>1 DEF Phases, Phase, IsActive
  <1>3. F \in SUBSET Lifecycle!Ended
    BY <1>1 DEF Lifecycle!Ended, Phases
  <1>4. Phases' = [j \in Jobs |-> IF j \in F THEN "forgotten" ELSE Phases[j]]
    BY <1>1, <1>2 DEF Phases
  <1>. QED  BY <1>3, <1>4 DEF Lifecycle!Forget, Lifecycle!Forgetting, Phases

\* A step that keeps the table begins a job, ends one, or stutters.
LEMMA MoveIsStep ==
    ASSUME IInv, IInv', Moves, registry' = registry
    PROVE  [Lifecycle!Next]_Phases
  <1>. PhaseOfStatus /\ PhaseOfStatus'
    BY PhasesNow, PhasesNext
  <1>1. ASSUME NEW j \in Jobs, job'[j].status = job[j].status PROVE Phases'[j] = Phases[j]
    BY <1>1 DEF Phases, Phase, IsActive
  <1>2. CASE \A j \in Jobs : job'[j].status = job[j].status
    <2>1. Phases' = Phases
      BY <1>1, <1>2 DEF Phases
    <2>. QED  BY <2>1
  <1>3. ASSUME NEW j \in Jobs, job'[j].status # job[j].status PROVE [Lifecycle!Next]_Phases
    <2>1. \A k \in Jobs \ {j} : Phases'[k] = Phases[k]
      BY <1>1, <1>3 DEF Moves, AtMostOneMoves
    <2>2. Phases' = [Phases EXCEPT ![j] = Phases'[j]]
      BY <2>1 DEF Phases
    <2>3. CASE job[j].status = "queued" /\ job'[j].status = "running"
      <3>1. Phases[j] = "queued" /\ Phases'[j] = "running"
        BY <2>3 DEF PhaseOfStatus, IsActive, ActiveStatus
      <3>. QED  BY <2>2, <3>1 DEF Lifecycle!Next, Lifecycle!Begin, Phases
    <2>4. CASE IsActive(j) /\ job'[j].status \in TerminalStatus
      <3>1. Phases[j] \in {"queued", "running"} /\ Phases'[j] = "ended"
        BY <2>4 DEF PhaseOfStatus, IsActive, ActiveStatus
      <3>. QED  BY <2>2, <3>1 DEF Lifecycle!Next, Lifecycle!End, Phases
    <2>5. CASE job[j].status \in TerminalStatus /\ job'[j].status \in TerminalStatus
      <3>1. Phases'[j] = Phases[j]
        BY <2>5 DEF PhaseOfStatus
      <3>2. Phases' = Phases
        BY <2>2, <3>1 DEF Phases
      <3>. QED  BY <3>2
    <2>. QED
      BY <1>3, <2>3, <2>4, <2>5 DEF Moves, Move, StatusMoves, Began, IsActive, ActiveStatus,
         TerminalStatus
  <1>. QED  BY <1>2, <1>3

\* start() accepts a job and forgets what its pruning dropped.
LEMMA StartIsAccept ==
    ASSUME IInv, IInv', NEW j \in Jobs, Start(j)
    PROVE  Lifecycle!Accept(j)
  <1>. PhaseOfStatus /\ PhaseOfStatus'
    BY PhasesNow, PhasesNext
  <1>1. PICK kept \in PrunedRegistries :
           /\ HasRoom(kept) /\ registry' = kept \cup {j} /\ kept \subseteq registry
           /\ job[j].status = "none" /\ job'[j].status = "queued"
           /\ \A k \in Jobs \ {j} : job'[k] = job[k]
           /\ \A k \in registry \ kept : job[k].finished
    BY StartFacts
  <1>. DEFINE F == registry \ kept
  <1>2. j \notin registry /\ Phases[j] = "unborn" /\ Phases'[j] = "queued"
    BY <1>1 DEF IInv, RegisteredIsBorn, PhaseOfStatus, IsActive, ActiveStatus
  <1>3. ASSUME NEW k \in F
        PROVE  k \in Jobs /\ k # j /\ Phases[k] = "ended" /\ Phases'[k] = "forgotten"
    <2>1. k \in Jobs /\ k # j /\ k \notin registry' /\ job'[k] = job[k]
      BY <1>1, <1>2 DEF IInv, TypeOK
    <2>2. job[k].status \in TerminalStatus
      BY <1>1, <2>1 DEF IInv, FinishedIffTerminal
    <2>. QED  BY <2>1, <2>2 DEF PhaseOfStatus
  <1>4. ASSUME NEW k \in Jobs \ (F \cup {j}) PROVE Phases'[k] = Phases[k]
    <2>1. job'[k] = job[k] /\ (k \in registry' <=> k \in registry)
      BY <1>1
    <2>. QED  BY <2>1 DEF Phases, Phase, IsActive
  <1>5. F \in SUBSET Lifecycle!Ended
    BY <1>3 DEF Lifecycle!Ended, Phases
  <1>6. Phases' = [[k \in Jobs |-> IF k \in F THEN "forgotten" ELSE Phases[k]] EXCEPT ![j] = "queued"]
    BY <1>2, <1>3, <1>4 DEF Phases
  <1>7. Cardinality(Lifecycle!Live) < MaxActive
    <2>1. \A k \in Jobs : Phases[k] \in {"queued", "running"} <=> IsActive(k)
      BY StatusCases DEF IInv, PhaseOfStatus, IsActive, ActiveStatus, TerminalStatus
    <2>2. \A k \in Jobs : IsActive(k) => k \in kept
      BY <1>1 DEF IInv, ActiveIsRegistered, FinishedIffTerminal, IsActive, ActiveStatus, TerminalStatus
    <2>3. Lifecycle!Live = ActiveIn(kept)
      BY <1>1, <2>1, <2>2 DEF Lifecycle!Live, Phases, ActiveIn, IInv, TypeOK
    <2>. QED  BY <1>1, <2>3 DEF HasRoom
  <1>8. Phases' = [Lifecycle!Forgetting(F) EXCEPT ![j] = "queued"]
    BY <1>6 DEF Lifecycle!Forgetting, Phases
  <1>9. \E G \in SUBSET Lifecycle!Ended : Phases' = [Lifecycle!Forgetting(G) EXCEPT ![j] = "queued"]
    BY <1>5, <1>8
  <1>10. [k \in Jobs |-> Phase(k)][j] = "unborn"
    BY <1>2 DEF Phases
  <1>11. \E G \in SUBSET Lifecycle!Ended :
            [k \in Jobs |-> Phase(k)]' = [Lifecycle!Forgetting(G) EXCEPT ![j] = "queued"]
    BY <1>9 DEF Phases
  <1>12. Lifecycle!Cardinality(Lifecycle!Live) = Cardinality(Lifecycle!Live)
    BY DEF Lifecycle!Cardinality, Cardinality
  <1>. QED  BY ONLY <1>7, <1>10, <1>11, <1>12 DEF Lifecycle!Accept

\* The table keeps the console's promise: every job is accepted into one of
\* MaxActive places, begins at most once, ends for good and is forgotten last.
THEOREM ImplementsLifecycle == SafeSpec => KeepsLifecycle
  <1>1. Init => Lifecycle!Init
    <2>1. Unborn.status = "none"
      BY DEF Unborn
    <2>. QED  BY <2>1 DEF Init, Lifecycle!Init, Phase
  <1>2. IInv /\ IInv' /\ [Next]_vars => [Lifecycle!Next]_Phases
    <2>. SUFFICES ASSUME IInv, IInv', [Next]_vars PROVE [Lifecycle!Next]_Phases
      OBVIOUS
    <2>1. CASE Moves /\ registry' = registry
      BY <2>1, MoveIsStep
    <2>2. CASE Moves /\ registry' # registry
      BY <2>2, DropIsForget DEF Moves, Lifecycle!Next
    <2>3. ASSUME NEW j \in Jobs, Start(j) PROVE [Lifecycle!Next]_Phases
      BY <2>3, StartIsAccept DEF Lifecycle!Next
    <2>. QED  BY <2>1, <2>2, <2>3, NextMoves
  <1>. QED  BY <1>1, <1>2, InvHolds, PTL DEF SafeSpec, KeepsLifecycle, Lifecycle!Spec, Phases

=============================================================================
