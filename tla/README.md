# Verification of Home Assistant Gateway

TLA+ specifications of the gateway's stateful core, the TLC runs that model-check
them on small instances, and theorems about them that TLAPS proves for every value
of the constants. Paths are relative to `src/src/homeassistant_gateway/` unless
they start with `docs/` or `frontend/`, which are relative to `src/`.

## 1. The system

One process serves everything. Synchronous HTTP handlers run in a thread pool, in
parallel; MCP tools run in the event loop, one at a time but concurrently with the
pool; two executor threads run development jobs. Durable state is in one SQLite
file; every store method opens its own connection and commits on its own, so **any
two store calls of a handler are two transactions** and anything may run between
them. In-memory state is lost on a restart.

| Component | State | Operations | Hard behaviour | What makes it correct |
|---|---|---|---|---|
| Development jobs (`application/development_jobs.py`) | table of jobs, shutdown flag, executor queue, what each thread holds | start, snapshot, cancel, cleanup, shutdown, the thread's `_execute` | polls, expiry and cancellation race the thread; probes hang; the report store fails; shutdown drops futures | bounded table and admission; a job in one place; results grow; a verdict says what ran; every job ends |
| Probes and reports (`development.py`, `development_result_policy.py`, `storage/sqlite_development.py`) | stored reports | run a probe, compare with the newest report, save | two jobs finish together | comparison goes back in time |
| Operator mutations (`operator_mutations.py`, `operator_security.py`, `storage/sqlite_operator.py`, `service_mutation.py`) | approvals, reserved idempotency keys, audit rows; what Home Assistant did | request an approval, execute | six store transactions and a POST in one request; crash, retry, time-out after the effect, expiry and purge in between | a key is sent at most once and for what was approved; a dead approval never works; audit is true |
| Client registry (`clients.py`, `storage/sqlite_clients.py`) | client rows, tokens handed out | issue, update capabilities, rotate, revoke, delete | read-modify-write of a whole row in two transactions | a token is of one client; a retired token is dead; an observer cannot write |
| Authentication, authorisation (`authentication.py`, `authorization.py`, `domain/policy.py`) | none of their own | authenticate, authorize | two reads of a row that may change in between | only what the profile and the grants allow |
| Operator service policy (`operator_policy.py`, `composition.py`, `client_routes.py`) | table of allowed services | read, replace | a second reading of the allowlist in the adapter | the ceiling holds at the time of the call |
| Home Assistant client (`infrastructure/home_assistant/`) | per-execution trace and fallback flag | WebSocket command, GET, POST, template | retry of a GET, three-level fallback | a mutation is never retried; a refusal is not hidden by a fallback |
| Audit and middleware (`http_middleware.py`, `storage/sqlite_audit.py`) | audit rows | record, list | the row is written after the effect | every effect that returned has a row |
| MCP and HTTP presentation (`presentation/`) | bearer token of the current request | routes, tools | - | every tool authorises before it acts |
| App UI, bootstrap (`frontend/src/main.ts`, `gateway-api.ts`) | version, abort controller, list of checks, resources on the screen | refresh, the answer to a check, invalidation | nine requests at once; a newer attempt or a mutation overtakes them | one whole snapshot; only the newest attempt speaks; checking ends |
| App UI, clients (`main.ts`, `clients-view.ts`, `capability-policy.ts`) | rows, mutation version, token dialog, two drafts of grants | five mutations, manual and background list, form and card | aborted mutations that happened; lists that arrive late; controls of the browser that keep their own state | own results stay; flags follow calls; no draft grants what it must not |
| App UI, policy card (`operator-policy-service.ts`, `policy-view.ts`) | selection, queue of saves | toggle, evaluate | one save per click, lost and late requests, a catalog that changes | the last click wins |
| App UI, development console (`development-service.ts`, `development-view.ts`) | progress, results, reports | run, retry, watch | the job is cancelled elsewhere, forgotten, or never ends | no watch ends on a moving job, none goes on for ever |
| App UI, inquiries (`audit-view.ts`, `mcp-view.ts`) | audit rows, discovery, probe | ask | answers in any order | their flags are cleared |
| Port diagnostics, static UI, styles, translations | - | - | - | input and output only |

Interactions: routes and MCP tools call `AuthenticateClient`, then
`AuthorizeRequest`, then a use case. `OperatorMutationService` calls the
idempotency registry, the approval service, the mutation adapter (which posts
through the Home Assistant client) and the audit adapter, in this order.
`DevelopmentJobManager` is shared by HTTP threads and its own two threads under one
lock, and calls the probe runner and the report store outside it. The App UI
talks to the HTTP API only; its panels share one alert, and a client mutation takes
the version away from a bootstrap on its way.

The hazards of this code, each at its line and with the properties that would catch
it, are listed in `PROJECT.json`.

## 2. Modules

| Module | Role |
|---|---|
| `DevelopmentJobs` | the job manager, its executor and its report store |
| `JobLifecycle` | abstract: what the console promises about a job |
| `DevelopmentJobsProofs` | theorems about `DevelopmentJobs`: the table, the states of a job, the refinement |
| `DevelopmentReportsProofs` | theorems about what its threads do: places, results, verdicts, reports |
| `OperatorMutations` | approval and execution of mutations down to each store call |
| `MutationLedger` | abstract: what a client may rely on about an idempotency key |
| `OperatorMutationsProofs` | theorems about `OperatorMutations` |
| `ClientLifecycle`, `ClientLifecycleProofs` | the client registry, authentication and authorisation; theorems |
| `Boot`, `BootProofs` | the bootstrap of the App UI; theorems about it |
| `ClientsPanel`, `ClientsPanelProofs` | the list of clients, the mutations and lists on their way, the registry; theorems |
| `ClientForm`, `ClientFormProofs` | the drafts of grants and the browser's controls that edit them; theorems |
| `PolicyPanel` | the policy card, its queue of saves, the server's table |
| `DevelopmentConsole` | the console and its watch over a job as polls see it |
| `Inquiries` | the calls that only ask |
| `Panels`, `PanelsProofs` | the last three modules side by side over one view and one alert (`PolicyPanel` by EXTENDS, the others by INSTANCE); theorems about the card, alone and composed, about the console and about the busy flags |
| `MC...` | values of constants and symmetry sets for TLC |

Definitions marked *Mutant* in a module are plausible bugs; nothing of the
specification refers to them. Putting one in the place of the definition that
follows it makes TLC find the property violated that `PROJECT.json` names for it.

### DevelopmentJobs

One action is one critical section of `self._lock` or one step outside it.

| Code | Action |
|---|---|
| `start` under the lock: prune, refuse or insert | `Start`, `StartRejected` |
| `start` after the lock: `submit()` | `Submit` (raises, and leaves the job, once the executor is closed) |
| `snapshot`, `cancel`, `cleanup` | `Snapshot`, `Cancel`, `Cleanup` |
| `shutdown`: the flag, then the executor | `StopAccepting`, `CloseExecutor` |
| executor hands out a future | `Take` |
| `_execute`: claim; head of the loop; probe; append | `Claim`, `NextOperation`, `Probe`, `AppendResult` |
| `list(1)`; `build_development_report`; `save`; the two `except` clauses; the verdict | `ListReports`, `BuildReport`, `SaveReport`, `FailJob`, `Finish` |
| `time()` | `Tick` |

`registry` is the dictionary, `job` the objects: a thread keeps working on a job
the dictionary dropped. Abstractions: a result is its status; a report is the rank
of its `occurred_at` and the job whose report it was compared with; the report
store may also hold reports of an earlier run of the process, which are older than
any of this run and count as no predecessor; a time is an age, kept only as far as
the code asks (see the head of the module); which `finished_at` is older within a
tick is left open, so eviction may order them either way. `progress` is a function
of the status and two counts and is left out.

### OperatorMutations

A thread's `pc` names the store call it is about to make: `issue_purge`,
`issue_size`, `save` for an approval; `find`, `size`, `put` (the registry),
`purge`, `get`, `mark` (the approval), `call` (the adapter and the POST), `audit`
for an execution. `StoreFails` ends a request at any store call, `Crash` ends all
of them; both leave what is committed. `Post` covers every answer: carried out and
confirmed, carried out and lost, not carried out. `posted`, `spent` and `applied`
record what reached Home Assistant and are not visible to the gateway; `live` is a
history field of a request. Authorisation and the validation of a proposal come
before `RequestApproval` and `RequestExecution`, which range over proposals that
pass; the adapter's own checks are the nondeterministic `Refuse`. An approval or a
token a client never received is not offered: identifiers and tokens are random.

### ClientLifecycle

`Issue`, `UpdateCapabilities`, `Rotate`, `Revoke` and `Delete` are the use cases up
to their write: they take the row `get()` answers, check it and keep the row they
will save. `Save` upserts all of it and `DeleteRow` deletes, whatever the table
holds by then. `Authenticate` finds a row by its token, `Authorize` reads the row
of that client id again and evaluates the policy. `Crash` restarts the process,
perhaps with another `operator_enabled`. Capabilities are abstracted to one read
and one write; a token stands for its digest. `retired` is a history variable: how
a token lost its client, by a save that no other use case was racing ("quietly") or
by one that another was. The column `operator_services` is left out.

### Boot

JavaScript runs a handler to its next `await`, so in the modules of the App UI an
action is what happens between two of them.

| Code | Action |
|---|---|
| `refresh()` up to the first await | `Refresh` |
| the answer to one request, its contract, the progress callback | `Settle` |
| the continuation: `applyBootstrap`, the catch clause, or neither, each with the finally block | `Apply`, `ShowError`, `Ignore` |
| `invalidateRefresh()` | `InvalidateRefresh` |

`attempt` is the promise of each attempt, `bootChecks` the list on the page. The
status "pending", which lasts for no await, is not kept apart from "running". A
response is its status, its code and how good its body is; a request that `fetch`
rejects, on the network or by an abort, has status 0. `screen` says which attempt a
resource came from. An aborted request may have been answered before the abort, so
every kind of answer may arrive for an obsolete attempt.

### ClientsPanel

`registry` is the history of the server's registry, whose last state is now; a list
is the time it was read at. `Begin` is any of the five mutations up to its await,
`Serve` the server's answer, aborted or not, `Lose` a request that did not reach it,
`Done` and `Refused` the continuation of a mutation that is still `Current`. An
obsolete continuation changes nothing and is no action. `SyncRead`, `SyncReturn` and
`SyncFail` are `syncClientsInBackground()`, `RefreshClients`, `RefreshRead` and
`RefreshReturn` the button. `ForeignChange` is another administrator. Buttons are
disabled while `clientsBusy`; with `Scripted` a mutation may start under another one,
as the abort in `beginMutation()` provides for. `acked` is a history variable: the
last result of this page for each client. The module does not repeat the bootstrap.

### ClientForm

Two drafts (`selectedCapabilities`, `editingCapabilities`) and the services share one
kind of box. `clicked` is the browser's part: a box that was clicked shows what it
was clicked to and no longer follows its attribute, until `form.reset()` or until it
is made anew; `profileSelect` is what the select shows, which the code never writes;
`named` says whether the two required fields are filled in, without which the
browser submits nothing. `Click`, `SelectAll`, `Clear`, `SetClientProfile`, `Fill`,
`SetPermissionTab`, `SetView`, `EditClientCapabilities`, `CancelCapabilityEdit`,
`SaveClientCapabilities` and `CreateClient` are the controls, `Created`, `Saved` and
`Refused` the answers, `SavedIt` the dialog. The server's verdict is settled when a
request is sent, because what it depends on does not change while the page is open. A foreign change of the edited client
belongs to `ClientsPanel`.

### PolicyPanel, DevelopmentConsole, Inquiries, Panels

`PolicyPanel`: `ToggleOperatorService` and `ToggleOperatorServiceGroup` queue a save
with its snapshot; `Send` is the queue of promises, `Serve` the route (the catalog is
read when the save is served), `Return` the two handlers. `Lose` and `ServeLate` are
a connection that breaks while the request is on its way: the page goes on, and the
server may store the selection later, which the history variable `late` records.

`DevelopmentConsole`: a `run` is a call of `executeDevelopmentJob()`: `Queue`, `Poll`,
`Wait`, `ListReports`, `Finish`, and `Fail` for a call that fails. `JobStep` is what
`DevelopmentJobs` may do to the job between two polls: claim, cancellation, results,
expiry while the thread goes on, the report, the verdict, and being forgotten.

`Inquiries`: `LoadAudit`, `LoadDiscovery`, `ProbeCapabilities` and their `Return` in any
order. `Panels` lets the controls of a view act only while it is shown and what they
started go on behind another.

## 3. Runs

Bounds are the sets and limits in the `.cfg` files. The back end's modules have no
bound in their guards, except that identifiers, tokens and approvals are never used
twice, so their number bounds how many are handed out. The App UI's modules bound
what a user may start (`MaxVersion`, `MaxCall`, `MaxSave`, `MaxAsk`, `MaxRun`,
`MaxQuestion`, `MaxClicked`) and the states of the registry (`MaxTime`).

| Run | Instance | Distinct states | Shows |
|---|---|---|---|
| `MCJobsTable` | 3 jobs, 2 threads, 1 active place, table of 2, 1 operation | 519,809 | the table: admission, capacity, nothing active pruned, finish times, one place per job, comparison with older reports, final cancellation, and `KeepsLifecycle`, the refinement of `JobLifecycle` |
| `MCJobsWorker` | 2 jobs, 1 thread, up to 2 operations | 269,443 | the thread: verdicts, growth of results, no late results; `EveryJobEnds` and `QueueDrains` under fairness |
| `MCOperatorExecution` | 2 requests at a time, 2 approvals, 2 keys, 2 proposals | 2,345,085 | one key one mutation, what was approved, dead approvals, audit, `KeepsLedger`, the refinement of `MutationLedger` |
| `MCClients` | 2 clients, 3 tokens, 2 requests | 442,751 | tokens and profiles over issue, update, rotate, revoke, delete, restart |
| `MCBoot` | 2 checks, 5 kinds of answer, 3 attempts or invalidations | 248,673 | one snapshot, progress, alert and busy flag of the newest attempt, `CheckingEnds` |
| `MCClientsPanel` | 2 clients, 2 mutations, 3 states of the registry | 1,299,152 | own results stay, flags and alert follow calls, `BusyEnds` |
| `MCClientForm` | 1 capability each to read, to write and not implemented, 1 service, 1 client, 1 clicked box at a time | 667,344 | no forbidden grant, removed stays removed, a fresh form |
| `MCPanels` | 1 service, 2 saves, 2 runs, 2 inquiries, 2 calls in all, a patience of 2 | 906,076 | the last click wins, no watch ends on a moving job, the page comes to rest |
| `MCJobsTerminalError` | 2 jobs | | violated: `TerminalErrorIsFinal` |
| `MCOperatorOneTime` | 2 requests, 1 approval, 2 keys | | violated: `OneTimeApproval` |
| `MCOperatorKeys` | 1 thread, 3 keys, limit 2 | | violated: `KeysBound` |
| `MCClientsRevocation` | 1 client, 2 tokens, 2 requests | | violated: `RetiredIsDead` |

Why these bounds are enough to be interesting. Three jobs over one active place and
a table of two make every branch of pruning and eviction happen while a dropped
job's thread still runs; the proofs cover any number. `MaxAge = 1` and
`Retention = 0` let a tick expire or outdate a job between any two steps. Two
threads suffice for every race: each hazard is between two requests. Two approvals
over a limit of one let the table overshoot and fill again. Three tokens allow two
clients and a rotation, or a delete and an issue again. In `MCBoot` three numbers
give an attempt that is overtaken by another and by a mutation; two checks fail in
different ways, one of which looks inside its container and one of which does not.
In `MCClientsPanel` two mutations of two clients overlap each other, a manual
refresh and a foreign change; the proofs cover any number. In `MCClientForm` one
capability of each kind suffices because boxes do not influence each other. In
`MCPanels` any two calls overlap, of one panel or of two, and a third would only
repeat what the finally blocks of two do to each other.

Deadlock is not checked where the bounds stop a run that has used up its calls and
has no control left that changes anything: `MCBoot`, `MCClientsPanel`, `MCPanels`.

**The four violations** are disagreements of code and documentation, quoted in
`PROJECT.json` under `findings`: a terminal error may be overwritten by the verdict;
an approval serves overlapping requests more than once; the capacity of the
idempotency registry is checked against the number of unused approvals, because one
SQLite class implements both stores and has one `size()`; a save of a stale row
revives a replaced or revoked token. What holds nonetheless: an approval is never
used by more requests than overlap (theorem `SpentBounded`) nor by one that arrives
later (`DoomedNeverPosts`), and a token retired without a race stays dead
(`QuietlyRetiredStaysDead`).

**Behaviour to know of** that the models contain and no property forbids:

* `shutdown()` drops queued futures and leaves their records "queued" until a poll
  finds them too old (`development_jobs.py:176`; its docstring says "cancel queued
  jobs").
* The console's retry button is not disabled during a run, and the finally block of
  either run clears the flag of both (`main.ts:413`); `evaluatePolicy()` clears the
  flag of a save on its way (`main.ts:540`). `DESIGN.md:498` asks for the opposite.
* A background list asked for before a manual refresh may arrive after it and put an
  older list of other administrators' changes on the screen (`main.ts:218`).
* After another view the form's select shows observer while the draft may still be an
  operator's; a box clicked before and written by "select all" or "clear" since keeps
  showing the click (`ui/ui-primitives.ts:120`).
* "Select all" in the capability card drops the legacy grants of the edited client
  (`main.ts:329`).
* A policy save that fails leaves the screen and the table apart; a selected service
  that left the catalog makes every later save fail (`client_routes.py:105`).
* Answers to two filters of the audit log may arrive in either order, and after
  another view the select shows "all" over a filtered list (`main.ts:519`).

### Fairness

`MCJobsWorker`: weak fairness of each thread's own steps and of `Submit`: threads
are scheduled and hold the lock briefly. Of `Tick`: the clock runs. Of `Snapshot`:
the client polls its job, as docs/development-console.md asks and the App UI does.
Not of `Probe`: a probe may hang; `EveryJobEnds` holds without it, because a poll
looks at the age of its job. `QueueDrains` assumes it in its premise. Nothing is
assumed of new requests, `Cancel` or shutdown.

The App UI: the browser settles every request sooner or later, with an answer or a
failure, runs the continuation of a settled promise and fires every timer. Hence weak
fairness of `Answer` and `Return` (`Boot`, `ClientsPanel`), of the manual refresh
(`RefreshRead \/ RefreshReturn`), and of `SaveStep`, `Evaluated`, `WatchStep` and
`Answered` (`Panels`). Nobody has to click, no job has to end, no request has to be
lost, and the background list may hang. `QuietAgain` therefore says that a
watch on a job that never ends gives up by itself.

The other specifications state safety only: a request of theirs ends or crashes.

## 4. Proofs

Proved with TLAPS from the named assumptions on the constants only.
`TypeCorrect` and its like are by an inductive `TypeOK`, the rest as follows.

**Development jobs** (`JobsAssumption`: identifiers are finitely many;
`BoundsAssumption`: `MaxActive < Capacity`, as 2 < 32, and the types of the limits):

* `TypeCorrect`: `TypeOK` is inductive by itself.
* `ActiveBounded`, `RetainedBounded`, `ActiveStaysRegistered`, `FinishedWhenEnded`:
  from the inductive invariant `IInv`. The capacity bound needs the most: pruning makes room only if
  some job of a full table has ended, which follows from `ActiveBound` and
  `MaxActive < Capacity` if exactly the jobs with a terminal status have a finish
  time (`FinishedIffTerminal`); that in turn needs that a thread past its claim
  holds a job that began (`HeldJobsBegan`), else `Finish` could end a cancelled
  or unborn one.
* `CancelledForGood`, `ErrorGathers`: action properties. The lemma `NextMoves`
  says what a step may do to a job in terms of status, results and finish time,
  and both follow from it and `IInv`; `NoEarlyResults` gives that a cancelled job
  has no results.
* `ImplementsLifecycle`: each step maps to a step of `JobLifecycle` or a stutter.
  `IInv` is needed because `Finish` and `FailJob` write the status unconditionally:
  only a job that began and whose end is already `"ended"` may be overwritten.
* `EveryJobInOnePlace`: from `PlaceInv`. The queue holds a job once (`QueuedOnce`),
  one thread at most holds it (`HeldOnce`), never both (`OnePlaceOnly`); `start`
  adds a place only for a job that had none, because a job with a place was born
  (`PlacedIsBorn`).
* `VerdictsMatchResults`: from `VerdictInv`, with `PlaceInv`. A thread counts results
  and reads the status outside the lock. What it found stays true because nobody
  else has the job (`OneThread`) and all that HTTP threads can do to it is to end it
  with an error (`HeldRuns`); it leaves the loop with a result of every operation
  (`LoopDone`) and reaches the verdict with its report stored (`SavedAtFinish`).
* `ResultsOnlyGrow`: an action property, from `HeldRuns` and the lemma
  `NextUndisturbed`, which says what a step may do to a job that no thread appends to.
* `ComparisonsGoBack`: from `ReportInv`, with `PlaceInv`. Between `list(1)` and the
  build others store reports, but none is taken away (`ListedIsSaved`), a stored
  report was built (`SavedIsReported`), and a job is not reported twice
  (`UnreportedBefore`, `UnsavedAtSave`): hence the one compared with is of another
  job, and occurred before.

* `NoJobIsForgotten`: from `PlaceInv` and itself. A running job has the thread that
  runs it; a queued one is on its way to a thread, unless the executor was shut down.
  A thread lets go of its job only when the job has ended (`LetGoEnded`): the claim of
  a job that is not in the table any more would let go of a live one, which
  `ActiveIsRegistered` excludes, and of a job that already runs, which `HeldOnce` does.
  This is what `EveryJobEnds` and `QueueDrains` lean on: after a shutdown a queued
  job has nothing left but its age.

**Operator mutations** (`SetsAssumption`: the sets are finite, there is a thread,
`None` is none of the values; `LimitsAssumption`: the limits are positive):

* `TypeCorrect`: `TypeOK` is inductive by itself, because a `Request` past its
  arrival has a proposal, and an execution a key and an approval.
* `Inductive`, and from it `ApprovedProposalCorrect`, `AuditCorrect` and
  `ReplayRefused`. `IInv` adds what a request between two of its transactions may
  count on: it holds its key alone from `put` to `audit` (`OneHolder`), nothing was
  sent or audited under the key yet (`HeldKey`), the approval it passed is for its
  proposal (`PassedApproval`), a request that came too late finds no usable row
  after its own purge (`DoomedApproval`). The proof has one lemma for approvals,
  whose rows only ever get less usable (`ApprovalsEvolve`), and one for keys, where
  only `Put`, `Unsupported`, `Post` and `Audit` are not `Quiet`.
* `LedgerRefined`: under the mapping `Entry`, `Put` is `Reserve`, `Post` is `Send`,
  and every other step stutters. That a key is sent once is `HeldKey`.
* `SpentBounded`: from `UseIsBounded`. While an approval is stored nothing was sent
  with it, so its uses are by distinct threads; once it is not, no use is added.
* `GrantsBounded`: from `SavesAreBounded`, the approvals stored or about to be. It
  grows only in `IssueSize`, which has seen less than `MaxGrants` of them.

**Client registry** (`NamesAssumption`: `None` is no token and no client): `TypesHold`
by itself; `TokensNameOneClient`, `RetiredTokensStayDead` and `ObserversNeverWrite`
from one `IInv`. None of the three is inductive of the table alone, because a use case
saves the row it read a while ago: each is stated of the rows in the table and of the
rows about to be saved together. A token that a row or a pending save carries is of
one client (`OneOwner`) and was handed out (`OnlyIssued`), so a fresh one is nobody's.
A token retired quietly opens nothing, now or when a pending row is saved
(`QuietlyRetiredOpensNothing`); that a rotation does not write back what it replaces is
`ReplacesAway`. Retired in a race, it may come back: that is the finding of
`MCClientsRevocation`, and why the theorem says "quietly".

**Bootstrap** (`BootAssumption`: there is a check, a response is a status, a code and
a body): `SnapshotIsWhole`, `ProgressIsNewest`, `ErrorIsTrue`, `BusyIsNewest` and
`ScreenAdvances` from an `IInv` that adds what the comparisons of versions rely on: no
attempt has a number not given out (`NoneFromTheFuture`); the controller held is of no
later attempt and an aborted one is obsolete (`AbortedIsObsolete`), so the catch
clause is never cut short for the newest; the newest attempt is loading only while the
page is checking (`LoadingIsChecking`), so an invalidation, which needs a ready page,
never leaves the flag behind; what is on the screen is of the past (`ScreenIsPast`).
`CheckingIsNotForgotten`, the safety half of `CheckingEnds`: while the page is checking,
the newest attempt is loading and not aborted, so its answers reach the page.

**Clients panel** (`ClientsPanelAssumption`: `None` is no client, and the registry may
have a state more than the page has mutations; both are bounds of the model, and
`TypeOK` would fail without the second, because a mutation is served whatever the
bound): `BusyWithACall`, `NewestSpeaks` and `NoOldListOverAResult`. A list may be
applied without a look at what it replaces because the page shows no result of its own
while the list is on its way, and a list is read no earlier than it is asked for
(`ListsAreFresh`). For the button that is because mutations and refreshes exclude each
other (`Exclusive`), for the background because it is asked for when its mutation is
over (`SyncAfterCall`) and applied only while that is the newest. `ErrorStands`,
`CallsMade` and `TimesArePast` say what has a number, an error or a time at all.
`PanelTypes`, the type invariant, needs `Bounds` beside `IInv`: the states of the
registry and the mutations not yet answered fit into `MaxTime` together (`Room`), and
a list that was read is of a state the registry was in (`ListsOfThePast`), so what it
puts on the screen are rows. `ControlsAreNotForgotten` is the safety half of `BusyEnds`:
whenever the controls are disabled, the mutation that holds the controller has a
request to be answered or an answer to be looked at, or a refresh is on its way.

**Form and capability card** (`ClientFormAssumption`: the three kinds of capabilities
are disjoint, diagnostics is one to read, `Registered` gives grants to each client):
`NothingForbiddenInDrafts`, `RemovedForGood`, `FormStartsOver` and
`LegacyGrantsOnlyShrink`. The page tests a capability in three places of its own, the
click, the group buttons and the change of the profile; the lemmas `ClickGrows` and
`GroupButtonsGrow` say that each grows a draft by what the profile permits only
(`DraftsGrow`). `IInv` follows the card's draft to the request that saves it
(`SavingFits`) and to the row, whose profile is the card's (`CardFits`). The last
theorem is about the rows: `LegacyGrantsShrink`, stated beside its proof and checked
by TLC on the instance of `MCClientForm`.

**Policy card** (`PolicyPanelAssumption`, `PanelsAssumption`): a save that has left the
page has only settled saves before it (`InOrder`), and an accepted one was stored with
nothing older since (`AcceptedIsStored`), so the newest accepted save is what the
server holds and what the screen shows (`Numbered`, `StoredIsSnapshot`).
`LastClickWins` is about `PanelsSpec`: the invariant speaks of the card's variables
alone, and every step of the composition is a step of the card or leaves them
(`CardStep`). `CardTypeCorrect` and `SaveErrors` are about the card by itself.

**Console and flags among the views** (`PanelsAssumption`), about `PanelsSpec`:

* `ConsoleComesToAnEnd`: two runs write one progress, so nothing ties the progress to a
  run. `ConsoleInv` is about all of them: if every run that started is past its watch,
  the progress is an end. It is inductive because a run gets past its watch only by
  the poll that writes an end (`PollConsoleInv`), while a start or a poll that writes
  anything else leaves its own run on its way (`OnItsWay`).
* `FlagsHaveACall`: a busy flag has a call of its panel on its way
  (`NoFlagLeftBehind`), which is the safety half of `QuietAgain`. Flags may go out too
  early; none stays on by itself. For the card this rests on the queue: the handler
  of an older save leaves the flag alone, and the newest save is then still to come
  (`CardFlag`, `Numbered`).
* `InquiriesAlone`: there is one discovery and one probe at a time, because a call that
  is not of the audit log holds its flag alone (`InquiriesFlags`). The audit log's
  select is never disabled, and its answers do overtake each other.

`NoFlagLeftBehind`, `OneInquiryAtATime`, `NoJobForgotten`, `CheckingHasAttempt` and
`BusyHasRequest` are stated beside their proofs and were checked by TLC on the instances
of `MCPanels`, `MCJobsTable`, `MCBoot` and `MCClientsPanel`.

Every `IInv` was also checked by TLC on the instance of its run, and so were
`UseIsBounded`, `SavesAreBounded`, `PlaceInv`, `VerdictInv`, `ReportInv`, `Bounds`,
`ConsoleInv` and the flags.

Only model-checked: the liveness properties `EveryJobEnds`, `QueueDrains`,
`CheckingEnds`, `BusyEnds` and `QuietAgain`, which rest on fairness and `ENABLED` and
are out of the prover's reach. Every invariant and every action property of the
passing runs is a theorem. What a recursive definition computes for all inputs would
need induction over data; no theorem claims it.

## 5. Not modelled

* Authorisation inside `OperatorMutations`, the ceiling of the service policy and its
  second reading by the adapter.
* Reads of Home Assistant: the GET retry, the WebSocket, REST and template fallback
  and the trace.
* The audit rows of HTTP requests.
* The App UI's bootstrap and clients together with its other views: they share only
  the alert, and each is a specification of its own. Two pages that edit the policy at
  once: each saves its own selection and the later one stands.
* Validation and counting of probe results, the catalog, response shapes, header
  parsing, port diagnostics, rendering, styles, translations, the browser test
  runtime, deployment scripts: data and formatting no property here tells apart.
* A wall clock that steps back, and whether the web framework calls the shutdown
  hook of an application with its own lifespan.

## 6. Plan

1. `DevelopmentJobs` with `JobLifecycle` and proofs (done).
2. `OperatorMutations` with `MutationLedger` and proofs (done).
3. `ClientLifecycle` with proofs (done).
4. The App UI: `Boot`, `ClientsPanel`, `ClientForm`, `Panels`, with proofs (done).
5. `HomeAssistantReads`: `_request`'s two attempts, `extended_read`'s fallbacks and
   the trace, with "a refusal is never hidden" and "a mutation is never retried".
6. `Gateway`: clients, policy and mutations composed, for the properties that need
   all three (what is posted was granted at some time during the request).
7. Proofs of the results, verdicts and reports of `DevelopmentJobs` (done).
8. Proofs of the safety the liveness properties lean on: nothing is waited for that
   is not on its way (done).
