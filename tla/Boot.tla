-------------------------------- MODULE Boot --------------------------------
(***************************************************************************)
(* The bootstrap of the App UI: GatewayApp.refresh() of main.ts over       *)
(* loadBootstrap() of gateway-api.ts.  One attempt sends a request per     *)
(* check and all of them run at the same time; a newer attempt, or a       *)
(* client mutation, takes the version away from an older one and aborts    *)
(* it, and whatever still arrives for the older one must change nothing.   *)
(*                                                                         *)
(* JavaScript runs a handler to its next await, so an action here is what  *)
(* happens between two awaits: the start of an attempt, the answer to one  *)
(* of its requests, and the continuation after Promise.all.                *)
(***************************************************************************)
EXTENDS Naturals

CONSTANTS
  Check,       \* the checks of an attempt: BootstrapCheckId
  Response,    \* what the browser may get for a request
  MaxVersion   \* bound of the model: attempts and invalidations in a run

KnownCodes == {"network_error", "unauthorized", "forbidden", "not_found", "validation_error",
               "operator_service_policy_invalid", "invalid_response", "server_error", "unknown_error"}

Body == {"valid", "hollow", "shapeless", "garbage"}

ASSUME BootAssumption ==
  /\ MaxVersion \in Nat \ {0}
  /\ Check # {}
  /\ Response \subseteq [status : Nat, code : STRING, body : Body]

VARIABLES
  refreshVersion,     \* the number of the newest attempt or invalidation
  refreshController,  \* the attempt whose AbortController is held, 0 for null
  aborted,            \* the attempts whose signal is aborted
  attempt,            \* what the promise of each attempt has come to
  bootState, busy,
  bootChecks,         \* the list of checks on the loading view
  error,              \* the failures the alert names; {} is the empty string
  screen              \* the attempt each resource on the screen came from

vars == <<refreshVersion, refreshController, aborted, attempt, bootState, busy,
          bootChecks, error, screen>>

Version == 1 .. MaxVersion
NoFailure == [code |-> "", http |-> 0]
Failure == [code : KnownCodes, http : Nat]
Entry == [status : {"running", "ok"}, failure : {NoFailure}]
           \cup [status : {"failed"}, failure : Failure]
Running == [c \in Check |-> [status |-> "running", failure |-> NoFailure]]
Attempt == [phase : {"none", "loading", "done"}, checks : [Check -> Entry]]

(* Status 0 stands for a fetch() that rejects: the network, or the abort.  *)
Rejected(r) == r.status = 0

StatusCode(status) ==
  CASE status = 401 -> "unauthorized"
    [] status = 403 -> "forbidden"
    [] status = 404 -> "not_found"
    [] status = 422 -> "validation_error"
    [] status >= 500 -> "server_error"
    [] OTHER -> "unknown_error"

\* Mutant: a code the UI does not know is kept.
FromResponseRaw(r) == IF r.code # "" THEN r.code ELSE StatusCode(r.status)

FromResponse(r) == IF r.code \in KnownCodes THEN r.code ELSE StatusCode(r.status)

(* The runtime contract of a check.  A hollow body is the right container  *)
(* with a wrong part in it; the contracts of the catalog and of the        *)
(* reports look at the container only.                                     *)
Accepts(c, body) ==
  \/ body = "valid"
  \/ body = "hollow" /\ c \in {"catalog", "development_reports"}

(* How api() and the contract turn a response into a check's result.       *)
Result(c, r) ==
  CASE Rejected(r) ->
         [status |-> "failed", failure |-> [code |-> "network_error", http |-> 0]]
    [] ~Rejected(r) /\ r.status \notin 200 .. 299 ->
         [status |-> "failed", failure |-> [code |-> FromResponse(r), http |-> r.status]]
    [] r.status \in 200 .. 299 /\ r.status # 204 /\ r.body = "garbage" ->
         [status |-> "failed", failure |-> [code |-> "invalid_response", http |-> r.status]]
    [] r.status = 204 \/ (r.status \in 200 .. 299 /\ r.body # "garbage" /\ ~Accepts(c, r.body)) ->
         [status |-> "failed", failure |-> [code |-> "invalid_response", http |-> 0]]
    [] OTHER -> [status |-> "ok", failure |-> NoFailure]

Failed(checks) == {c \in Check : checks[c].status = "failed"}
Settled(checks) == \A c \in Check : checks[c].status # "running"
Message(checks) == {[check |-> c, failure |-> checks[c].failure] : c \in Failed(checks)}

(* The snapshot an attempt resolves with: every resource is its own.       *)
Snapshot(v) == [c \in Check |-> v]

(* The view with the list of checks, shown instead of all others.          *)
LoadingView == bootState # "ready"

-----------------------------------------------------------------------------
Init ==
  /\ refreshVersion = 0 /\ refreshController = 0 /\ aborted = {}
  /\ attempt = [v \in Version |-> [phase |-> "none", checks |-> Running]]
  /\ bootState = "checking" /\ busy = FALSE
  /\ bootChecks = Running /\ error = {}
  /\ screen = [c \in Check |-> 0]

Abort == aborted \cup ({refreshController} \ {0})

(* refresh(): from connectedCallback(), the retry button or a script of    *)
(* the page, up to the first await.  Every request is on its way then.     *)
Refresh ==
  LET v == refreshVersion + 1 IN
  /\ v <= MaxVersion
  /\ refreshVersion' = v /\ refreshController' = v /\ aborted' = Abort
  /\ attempt' = [attempt EXCEPT ![v] = [phase |-> "loading", checks |-> Running]]
  /\ bootState' = "checking" /\ busy' = TRUE /\ error' = {}
  /\ bootChecks' = Running
  /\ UNCHANGED screen

\* Mutant: the progress callback does not check the version.
SettleUnversioned(v, c, r) ==
  /\ attempt[v].phase = "loading" /\ attempt[v].checks[c].status = "running"
  /\ attempt' = [attempt EXCEPT ![v].checks[c] = Result(c, r)]
  /\ bootChecks' = [bootChecks EXCEPT ![c] = Result(c, r)]
  /\ UNCHANGED <<refreshVersion, refreshController, aborted, bootState, busy, error, screen>>

\* Mutant: one failure settles the attempt and the other answers are lost.
SettleOnlySuccess(v, c, r) ==
  /\ attempt[v].phase = "loading" /\ attempt[v].checks[c].status = "running"
  /\ \A d \in Check : attempt[v].checks[d].status # "failed"
  /\ attempt' = [attempt EXCEPT ![v].checks[c] = Result(c, r)]
  /\ bootChecks' = IF v = refreshVersion
                     THEN [bootChecks EXCEPT ![c] = Result(c, r)] ELSE bootChecks
  /\ UNCHANGED <<refreshVersion, refreshController, aborted, bootState, busy, error, screen>>

(* The answer to one request: the check is marked in the attempt's own     *)
(* map, and on the screen unless the attempt is obsolete.  An aborted      *)
(* request may have been answered before the abort.                        *)
Settle(v, c, r) ==
  /\ attempt[v].phase = "loading" /\ attempt[v].checks[c].status = "running"
  /\ attempt' = [attempt EXCEPT ![v].checks[c] = Result(c, r)]
  /\ bootChecks' = IF v = refreshVersion
                     THEN [bootChecks EXCEPT ![c] = Result(c, r)] ELSE bootChecks
  /\ UNCHANGED <<refreshVersion, refreshController, aborted, bootState, busy, error, screen>>

\* Mutant: the finally block does not check the version.
FinallyAlwaysIdle(v) ==
  /\ attempt' = [attempt EXCEPT ![v].phase = "done"]
  /\ refreshController' = IF refreshController = v THEN 0 ELSE refreshController
  /\ busy' = FALSE
  /\ UNCHANGED <<refreshVersion, aborted>>

Finally(v) ==
  /\ attempt' = [attempt EXCEPT ![v].phase = "done"]
  /\ refreshController' = IF refreshController = v THEN 0 ELSE refreshController
  /\ busy' = IF v = refreshVersion THEN FALSE ELSE busy
  /\ UNCHANGED <<refreshVersion, aborted>>

Returned(v) == attempt[v].phase = "loading" /\ Settled(attempt[v].checks)

\* Mutant: the version is not checked after the await.
ApplyAnyVersion(v) ==
  /\ Returned(v) /\ Failed(attempt[v].checks) = {}
  /\ screen' = Snapshot(v) /\ bootState' = "ready"
  /\ Finally(v) /\ UNCHANGED <<bootChecks, error>>

\* Mutant: what passed is applied, whatever failed.
ApplyPartial(v) ==
  /\ Returned(v) /\ v = refreshVersion
  /\ screen' = [c \in Check |-> IF attempt[v].checks[c].status = "ok" THEN v ELSE screen[c]]
  /\ bootState' = "ready"
  /\ Finally(v) /\ UNCHANGED <<bootChecks, error>>

(* The snapshot resolves: applyBootstrap() replaces every resource.        *)
Apply(v) ==
  /\ Returned(v) /\ Failed(attempt[v].checks) = {} /\ v = refreshVersion
  /\ screen' = Snapshot(v) /\ bootState' = "ready"
  /\ Finally(v) /\ UNCHANGED <<bootChecks, error>>

\* Mutant: the catch block checks neither version nor signal.
ShowErrorAnyVersion(v) ==
  /\ Returned(v) /\ Failed(attempt[v].checks) # {}
  /\ bootChecks' = attempt[v].checks /\ error' = Message(attempt[v].checks)
  /\ bootState' = "error"
  /\ Finally(v) /\ UNCHANGED screen

(* BootstrapError: at least one of the checks failed.                      *)
ShowError(v) ==
  /\ Returned(v) /\ Failed(attempt[v].checks) # {}
  /\ v = refreshVersion /\ v \notin aborted
  /\ bootChecks' = attempt[v].checks /\ error' = Message(attempt[v].checks)
  /\ bootState' = "error"
  /\ Finally(v) /\ UNCHANGED screen

(* Either of the two, too late: only the finally block runs.               *)
Ignore(v) ==
  /\ Returned(v)
  /\ \/ v # refreshVersion
     \/ Failed(attempt[v].checks) # {} /\ v \in aborted
  /\ Finally(v) /\ UNCHANGED <<bootState, bootChecks, error, screen>>

(* invalidateRefresh(), called by beginMutation().  The loading view has   *)
(* no control that starts a mutation.                                      *)
InvalidateRefresh ==
  /\ ~LoadingView /\ refreshVersion < MaxVersion
  /\ refreshVersion' = refreshVersion + 1
  /\ refreshController' = 0 /\ aborted' = Abort
  /\ UNCHANGED <<attempt, bootState, busy, bootChecks, error, screen>>

Answer == \E v \in Version, c \in Check, r \in Response : Settle(v, c, r)
Return == \E v \in Version : Apply(v) \/ ShowError(v) \/ Ignore(v)
Next == Refresh \/ Answer \/ Return \/ InvalidateRefresh

(* The browser settles every request sooner or later and runs the          *)
(* continuation of a settled promise.  Nobody has to press a button.       *)
Spec == Init /\ [][Next]_vars /\ WF_vars(Answer) /\ WF_vars(Return)

-----------------------------------------------------------------------------
TypeOK ==
  /\ refreshVersion \in 0 .. MaxVersion /\ refreshController \in 0 .. MaxVersion
  /\ aborted \subseteq Version
  /\ attempt \in [Version -> Attempt]
  /\ bootState \in {"checking", "ready", "error"} /\ busy \in BOOLEAN
  /\ bootChecks \in [Check -> Entry]
  /\ error \subseteq [check : Check, failure : Failure]
  /\ screen \in [Check -> 0 .. MaxVersion]

(* What the page shows as ready is one snapshot: every resource came from  *)
(* the same attempt and all of that attempt's checks passed (the guards    *)
(* and applyBootstrap() of refresh(), main.ts:152-179).                    *)
ReadyIsOneSnapshot ==
  bootState = "ready" =>
    \E v \in Version : /\ \A c \in Check : screen[c] = v
                       /\ attempt[v].phase = "done"
                       /\ \A c \in Check : attempt[v].checks[c].status = "ok"

(* Progress of an obsolete attempt never reaches the loading view          *)
(* (main.ts:173; docs/development-console.md: retry "ignores stale         *)
(* progress from the previous attempt").                                   *)
ProgressOfNewest ==
  LoadingView /\ refreshVersion # 0 => bootChecks = attempt[refreshVersion].checks

(* The alert appears when the newest attempt is over, names every check    *)
(* that failed in it and no other, and an abort never shows one            *)
(* (main.ts:181-185).                                                      *)
ErrorNamesFailures ==
  /\ bootState = "error" =>
       /\ refreshVersion # 0 /\ refreshVersion \notin aborted
       /\ Settled(attempt[refreshVersion].checks)
       /\ error = Message(attempt[refreshVersion].checks) /\ error # {}
  /\ bootState # "error" => error = {}

(* The finally block of an obsolete attempt does not end the busy state    *)
(* of a newer one, and no attempt leaves it behind (main.ts:186-189).      *)
BusyWhileChecking == refreshVersion # 0 => (busy <=> bootState = "checking")

(* A resource on the screen is never replaced by an older attempt's.       *)
NeverGoesBack == [][\A c \in Check : screen'[c] >= screen[c]]_vars

(* "Checking gateway" ends, with the page or with an alert.                *)
CheckingEnds == bootState = "checking" /\ busy ~> bootState # "checking"
=============================================================================
