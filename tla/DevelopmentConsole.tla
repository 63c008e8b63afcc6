-------------------------- MODULE DevelopmentConsole --------------------------
(***************************************************************************)
(* The development console of the App UI: it queues a job, polls it until  *)
(* it sees it end or loses its patience, and then loads the reports.       *)
(*                                                                         *)
(* The job itself is the one of DevelopmentJobs, as its polls see it: it   *)
(* may be cancelled by another client, may expire while its thread goes    *)
(* on, and may be forgotten.  A request fails at any time, and no request  *)
(* is tried again.                                                         *)
(***************************************************************************)
EXTENDS Naturals, FiniteSets

CONSTANTS
  Outcome,  \* the statuses a probe ends with
  MaxRun,   \* bound of the model: runs of the console, and their jobs
  Patience  \* the 300 s of the watch, in waits between two polls

VARIABLES
  job,                 \* the jobs of the server: status and rows of results
  stored,              \* the jobs whose report the server keeps
  run,                 \* executeDevelopmentJob(), each call of it
  developmentBusy, developmentProgress, developmentResults, developmentReports,
  error

consoleVars == <<job, stored, run, developmentBusy, developmentProgress,
                 developmentResults, developmentReports>>
vars == <<consoleVars, error>>
server == <<job, stored>>
evidence == <<developmentProgress, developmentResults>>

Run == 1 .. MaxRun
JobStatus == {"unborn", "queued", "running", "completed", "warning", "error",
              "cancelled", "forgotten"}
Phase == {"none", "posting", "asking", "waiting", "finished", "listing", "over", "failed"}
NoError == [by |-> "none", call |-> 0]
Started == {r \in Run : run[r].phase # "none"}
Running == {r \in Started : run[r].phase \notin {"over", "failed"}}

\* Mutant: the watch takes a running job for a finished one.
EndsWatchEarly(status) == status # "queued"

\* The watch does not know "cancelled".
EndsWatch(status) == status \in {"completed", "warning", "error"}

IsProblemStatus(status) == status \in {"error", "warning", "unavailable"}
\* What copyProblemReports() copies, and whether its button is enabled.
ProblemReports == {row \in developmentResults.rows : IsProblemStatus(row)}
CanCopyProblems == ProblemReports # {}

\* The verdict of _execute over the rows.
Verdict(rows) ==
  IF rows \cap {"error", "unavailable"} # {} THEN "error"
  ELSE IF "warning" \in rows THEN "warning" ELSE "completed"

-----------------------------------------------------------------------------
Init ==
  /\ job = [r \in Run |-> [status |-> "unborn", rows |-> {}]] /\ stored = {}
  /\ run = [r \in Run |-> [phase |-> "none", age |-> 0, list |-> {}]]
  /\ developmentBusy = FALSE /\ developmentReports = {}
  /\ developmentProgress = [status |-> "idle", job |-> 0]
  /\ developmentResults = [job |-> 0, rows |-> {}]
  /\ error = NoError

(* startDevelopmentJob(): the progress starts over, the results stay.      *)
Start ==
  LET r == Cardinality(Started) + 1 IN
  /\ r <= MaxRun
  /\ run' = [run EXCEPT ![r].phase = "posting"]
  /\ developmentBusy' = TRUE /\ error' = NoError
  /\ developmentProgress' = [status |-> "queued", job |-> 0]
  /\ UNCHANGED <<server, developmentResults, developmentReports>>

\* The buttons of an operation, a pack and all of them.
RunDevelopment == ~developmentBusy /\ Start

(* The button of a row that is not ok.  It is not disabled while a run is  *)
(* on its way.                                                             *)
RetryDevelopment == developmentResults.rows \ {"ok"} # {} /\ Start

(* A call that fails ends its run; the finally block clears the flag,      *)
(* whichever run it belongs to now.                                        *)
Fail(r) ==
  /\ run' = [run EXCEPT ![r].phase = "failed", ![r].age = 0]
  /\ error' = [by |-> "console", call |-> r] /\ developmentBusy' = FALSE
  /\ UNCHANGED <<evidence, developmentReports>>

(* POST /development/run: the server accepts a job or refuses, and its     *)
(* answer arrives or not.                                                  *)
Queue(r) ==
  /\ run[r].phase = "posting"
  /\ \/ /\ job' = [job EXCEPT ![r].status = "queued"]
        /\ \/ /\ run' = [run EXCEPT ![r].phase = "asking"]
              /\ UNCHANGED <<developmentBusy, evidence, developmentReports, error>>
           \/ Fail(r)
     \/ UNCHANGED job /\ Fail(r)
  /\ UNCHANGED stored

(* One poll.  The answer is shown as it comes; a job that is forgotten is  *)
(* a failed call.                                                          *)
Poll(r) ==
  /\ run[r].phase = "asking"
  /\ \/ /\ job[r].status # "forgotten"
        /\ developmentProgress' = [status |-> job[r].status, job |-> r]
        /\ developmentResults' = [job |-> r, rows |-> job[r].rows]
        /\ run' = [run EXCEPT ![r].phase =
                     IF EndsWatch(job[r].status) THEN "finished" ELSE "waiting"]
        /\ UNCHANGED <<developmentBusy, developmentReports, error>>
     \/ Fail(r)
  /\ UNCHANGED server

\* Mutant: the loop looks for the end of the job only.
WaitForever(r) ==
  /\ run[r].phase = "waiting" /\ run' = [run EXCEPT ![r].phase = "asking"]
  /\ UNCHANGED <<server, developmentBusy, evidence, developmentReports, error>>

(* The delay before the next poll, and the condition of the loop.          *)
Wait(r) ==
  /\ run[r].phase = "waiting"
  /\ \/ /\ run[r].age + 1 < Patience
        /\ run' = [run EXCEPT ![r].phase = "asking", ![r].age = @ + 1]
        /\ UNCHANGED <<developmentBusy, evidence, developmentReports, error>>
     \/ run[r].age + 1 >= Patience /\ Fail(r)
  /\ UNCHANGED server

(* onFinished: the reports are read, and shown when they arrive.  A        *)
(* failure is swallowed.                                                   *)
ListReports(r) ==
  /\ run[r].phase = "finished"
  /\ run' = [run EXCEPT ![r].phase = "listing", ![r].list = stored]
  /\ UNCHANGED <<server, developmentBusy, evidence, developmentReports, error>>

Finish(r) ==
  /\ \/ run[r].phase = "listing" /\ developmentReports' = run[r].list
     \/ run[r].phase = "finished" /\ UNCHANGED developmentReports
  /\ run' = [run EXCEPT ![r].phase = "over", ![r].age = 0, ![r].list = {}]
  /\ developmentBusy' = FALSE
  /\ UNCHANGED <<server, evidence, error>>

-----------------------------------------------------------------------------
(* The job on the server, one visible change at a time, as long as its run *)
(* looks at it: afterwards it shows in the list of the reports at most.    *)
SetStatus(r, from, to) == job[r].status = from /\ job' = [job EXCEPT ![r].status = to]

JobStep(r) ==
  /\ r \in Running
  /\ \/ SetStatus(r, "queued", "running") /\ UNCHANGED stored
     \/ SetStatus(r, "queued", "cancelled") /\ UNCHANGED stored
     \/ /\ job[r].status = "running" /\ r \notin stored
        /\ \E o \in Outcome : job' = [job EXCEPT ![r].rows = @ \cup {o}]
        /\ UNCHANGED stored
     \* Expired by a poll, or a report that could not be stored.
     \/ SetStatus(r, "running", "error") /\ UNCHANGED stored
     \* The report, and then the verdict, of a job that may expire before either.
     \/ /\ job[r].status \in {"running", "error"} /\ job[r].rows # {}
        /\ stored' = stored \cup {r} /\ UNCHANGED job
     \/ /\ r \in stored /\ job[r].status \in {"running", "error"}
        /\ job' = [job EXCEPT ![r].status = Verdict(job[r].rows)] /\ UNCHANGED stored
     \* Pruned, evicted, or lost with the process.
     \/ /\ job[r].status \notin {"unborn", "forgotten"}
        /\ job' = [job EXCEPT ![r].status = "forgotten"] /\ UNCHANGED stored
  /\ UNCHANGED <<run, developmentBusy, evidence, developmentReports, error>>

User == RunDevelopment \/ RetryDevelopment
Watch(r) == Queue(r) \/ Poll(r) \/ Wait(r) \/ ListReports(r) \/ Finish(r)
Next == User \/ \E r \in Run : Watch(r) \/ JobStep(r)

\* The browser settles every request and fires every timer; nothing is
\* assumed of the job.
Fairness == \A r \in Run : WF_vars(Watch(r))

Spec == Init /\ [][Next]_vars /\ Fairness

-----------------------------------------------------------------------------
(* With no run on its way and none that failed, the console shows a job    *)
(* that has ended: it never stops watching on a progress that would go on, *)
(* however the runs of two clicks interleave (development-service.ts:26).  *)
NoGhostProgress ==
  Running = {} /\ Started # {} /\ (\A r \in Started : run[r].phase = "over")
    => developmentProgress.status \in {"completed", "warning", "error"}

\* Every variable in its domain.
TypeOK ==
  /\ job \in [Run -> [status : JobStatus, rows : SUBSET Outcome]] /\ stored \subseteq Run
  /\ run \in [Run -> [phase : Phase, age : 0 .. Patience, list : SUBSET Run]]
  /\ developmentBusy \in BOOLEAN /\ developmentReports \subseteq Run
  /\ developmentProgress \in [status : JobStatus \cup {"idle"}, job : 0 .. MaxRun]
  /\ developmentResults \in [job : 0 .. MaxRun, rows : SUBSET Outcome]
  /\ error \in [by : {"none", "console"}, call : Nat]
=============================================================================
