------------------------------ MODULE BootProofs ------------------------------
(***************************************************************************)
(* Proofs about Boot for every set of checks and responses and any number  *)
(* of attempts.                                                            *)
(*                                                                         *)
(* The guards of refresh() compare version numbers; what makes them enough *)
(* is that only the newest attempt can be loading while the page says it   *)
(* is checking, and that an abort only ever hits an older one.             *)
(***************************************************************************)
EXTENDS Boot, TLAPS

-----------------------------------------------------------------------------
\* The two names that stand for one formula each, visible in every proof.
USE DEF Snapshot, LoadingView

\* No attempt has a number that was not given out yet.
NoneFromTheFuture == \A v \in Version : v > refreshVersion => attempt[v].phase = "none"

\* The AbortController held is of an attempt, and an aborted one is obsolete.
AbortedIsObsolete ==
  /\ refreshController <= refreshVersion
  /\ \A v \in aborted : v < refreshVersion

\* The newest attempt is loading only while the page is checking.
LoadingIsChecking ==
  \A v \in Version : v = refreshVersion /\ attempt[v].phase = "loading" => bootState = "checking"

ScreenIsPast == \A c \in Check : screen[c] <= refreshVersion

IInv ==
  /\ TypeOK
  /\ NoneFromTheFuture /\ AbortedIsObsolete /\ LoadingIsChecking /\ ScreenIsPast
  /\ ReadyIsOneSnapshot /\ ProgressOfNewest /\ ErrorNamesFailures /\ BusyWhileChecking

-----------------------------------------------------------------------------
\* Every response becomes a passed check or a failure with a known code.
LEMMA ResultEntry ==
    ASSUME NEW c \in Check, NEW r \in Response
    PROVE  Result(c, r) \in Entry
  <1>1. r.status \in Nat
    BY BootAssumption
  <1>2. StatusCode(r.status) \in KnownCodes
    BY <1>1, SMT DEF StatusCode, KnownCodes
  <1>3. FromResponse(r) \in KnownCodes
    BY <1>2 DEF FromResponse
  <1>4. /\ "network_error" \in KnownCodes /\ "invalid_response" \in KnownCodes
        /\ 0 \in Nat
    BY DEF KnownCodes
  <1>. DEFINE Bad == [status : {"failed"}, failure : Failure]
  <1>5. /\ [status |-> "failed", failure |-> [code |-> "network_error", http |-> 0]] \in Bad
        /\ [status |-> "failed", failure |-> [code |-> FromResponse(r), http |-> r.status]] \in Bad
        /\ [status |-> "failed", failure |-> [code |-> "invalid_response", http |-> r.status]] \in Bad
        /\ [status |-> "failed", failure |-> [code |-> "invalid_response", http |-> 0]] \in Bad
    BY <1>1, <1>3, <1>4 DEF Failure
  <1>6. [status |-> "ok", failure |-> NoFailure] \in [status : {"running", "ok"}, failure : {NoFailure}]
    OBVIOUS
  <1>. HIDE DEF Bad
  <1>7. \/ Result(c, r) \in Bad
        \/ Result(c, r) = [status |-> "ok", failure |-> NoFailure]
    BY <1>5, Zenon DEF Result
  <1>. QED  BY <1>6, <1>7 DEF Bad, Entry

LEMMA RunningChecks == Running \in [Check -> Entry]
  BY DEF Running, Entry

\* What an attempt's checks can be named for is a set of failures.
LEMMA MessageOfFailures ==
    ASSUME NEW checks \in [Check -> Entry]
    PROVE  Message(checks) \subseteq [check : Check, failure : Failure]
  <1>1. \A c \in Failed(checks) : checks[c].failure \in Failure
    BY DEF Failed, Entry
  <1>. QED  BY <1>1 DEF Message, Failed

LEMMA InitIInv == Init => IInv
  <1>. SUFFICES ASSUME Init PROVE IInv
    OBVIOUS
  <1>1. [phase |-> "none", checks |-> Running] \in Attempt
    BY RunningChecks DEF Attempt
  <1>2. TypeOK
    <2>1. 0 \in 0 .. MaxVersion
      BY BootAssumption
    <2>2. attempt \in [Version -> Attempt] /\ bootChecks \in [Check -> Entry]
      BY <1>1, RunningChecks DEF Init
    <2>3. screen \in [Check -> 0 .. MaxVersion]
      BY <2>1 DEF Init
    <2>. QED  BY <2>1, <2>2, <2>3 DEF Init, TypeOK
  <1>3. NoneFromTheFuture /\ LoadingIsChecking
    BY DEF Init, NoneFromTheFuture, LoadingIsChecking
  <1>4. AbortedIsObsolete /\ ScreenIsPast
    BY DEF Init, AbortedIsObsolete, ScreenIsPast
  <1>5. ReadyIsOneSnapshot /\ ProgressOfNewest /\ ErrorNamesFailures /\ BusyWhileChecking
    BY DEF Init, ReadyIsOneSnapshot, ProgressOfNewest, ErrorNamesFailures, BusyWhileChecking
  <1>. QED  BY <1>2, <1>3, <1>4, <1>5 DEF IInv

\* A new attempt: nothing of an older one is left but the screen.
LEMMA RefreshIInv == IInv /\ Refresh => IInv'
  <1>. SUFFICES ASSUME IInv, Refresh PROVE IInv'
    OBVIOUS
  <1>. DEFINE n == refreshVersion + 1
  <1>0. n \in Version /\ refreshVersion \in 0 .. MaxVersion /\ MaxVersion \in Nat
    BY BootAssumption DEF IInv, TypeOK, Refresh, Version
  <1>1. [phase |-> "loading", checks |-> Running] \in Attempt
    BY RunningChecks DEF Attempt
  <1>2. attempt' \in [Version -> Attempt]
    BY <1>0, <1>1 DEF IInv, TypeOK, Refresh
  <1>3. Abort \subseteq Version
    BY <1>0 DEF IInv, TypeOK, Abort, Version
  <1>4. TypeOK'
    BY <1>0, <1>2, <1>3, RunningChecks DEF IInv, TypeOK, Refresh, Version
  <1>5. /\ attempt'[n] = [phase |-> "loading", checks |-> Running]
        /\ \A v \in Version \ {n} : attempt'[v] = attempt[v]
    BY <1>0 DEF IInv, TypeOK, Refresh
  <1>6. NoneFromTheFuture'
    BY <1>0, <1>5 DEF IInv, NoneFromTheFuture, Refresh, Version
  <1>7. AbortedIsObsolete'
    BY <1>0 DEF IInv, TypeOK, AbortedIsObsolete, Refresh, Abort, Version
  <1>8. LoadingIsChecking' /\ ReadyIsOneSnapshot' /\ BusyWhileChecking'
    BY DEF LoadingIsChecking, ReadyIsOneSnapshot, BusyWhileChecking, Refresh
  <1>9. ScreenIsPast'
    BY <1>0 DEF IInv, TypeOK, ScreenIsPast, Refresh
  <1>10. ProgressOfNewest' /\ ErrorNamesFailures'
    BY <1>5 DEF ProgressOfNewest, ErrorNamesFailures, Refresh
  <1>. QED  BY <1>4, <1>6, <1>7, <1>8, <1>9, <1>10 DEF IInv

\* An answer touches a loading attempt only, and the list of the newest.
LEMMA SettleIInv ==
    ASSUME IInv, NEW v \in Version, NEW c \in Check, NEW r \in Response, Settle(v, c, r)
    PROVE  IInv'
  <1>. DEFINE e == Result(c, r)
              old == attempt[v]
              new == [old EXCEPT !.checks[c] = e]
  <1>1. e \in Entry
    BY ResultEntry
  <1>. HIDE DEF e
  <1>2. attempt \in [Version -> Attempt] /\ old \in Attempt /\ old.phase = "loading"
    BY DEF IInv, TypeOK, Settle
  <1>3. new \in Attempt /\ new.phase = "loading" /\ new.checks = [old.checks EXCEPT ![c] = e]
    BY <1>1, <1>2 DEF Attempt
  <1>4. attempt' = [attempt EXCEPT ![v] = new]
    BY <1>2 DEF Settle, e
  <1>. HIDE DEF new, old
  <1>5. attempt' \in [Version -> Attempt]
    BY <1>2, <1>3, <1>4
  <1>6. bootChecks' \in [Check -> Entry]
    BY <1>1 DEF IInv, TypeOK, Settle, e
  <1>7. TypeOK'
    BY <1>5, <1>6 DEF IInv, TypeOK, Settle
  <1>8. /\ attempt'[v] = new /\ \A w \in Version \ {v} : attempt'[w] = attempt[w]
        /\ \A w \in Version : attempt'[w].phase = attempt[w].phase
    BY <1>2, <1>3, <1>4 DEF old
  <1>9. NoneFromTheFuture' /\ AbortedIsObsolete' /\ LoadingIsChecking' /\ ScreenIsPast'
    BY <1>8 DEF IInv, NoneFromTheFuture, AbortedIsObsolete, LoadingIsChecking, ScreenIsPast, Settle
  <1>10. v = refreshVersion => bootState = "checking"
    BY <1>2 DEF IInv, LoadingIsChecking, old
  <1>11. ReadyIsOneSnapshot'
    <2>. SUFFICES ASSUME bootState = "ready" PROVE ReadyIsOneSnapshot'
      BY DEF ReadyIsOneSnapshot, Settle
    <2>1. PICK w \in Version : /\ \A d \in Check : screen[d] = w
                               /\ attempt[w].phase = "done"
                               /\ \A d \in Check : attempt[w].checks[d].status = "ok"
      BY DEF IInv, ReadyIsOneSnapshot
    <2>2. w # v
      BY <1>2, <2>1 DEF old
    <2>. QED  BY <1>8, <2>1, <2>2 DEF ReadyIsOneSnapshot, Settle
  <1>12. ProgressOfNewest'
    <2>. SUFFICES ASSUME bootState # "ready", refreshVersion # 0
                  PROVE  bootChecks' = attempt'[refreshVersion].checks
      BY DEF ProgressOfNewest, Settle
    <2>1. bootChecks = attempt[refreshVersion].checks /\ refreshVersion \in Version
      BY BootAssumption DEF IInv, ProgressOfNewest, TypeOK, Version
    <2>2. CASE v = refreshVersion
      BY <1>3, <1>8, <2>1, <2>2 DEF Settle, old, e
    <2>3. CASE v # refreshVersion
      BY <1>8, <2>1, <2>3 DEF Settle
    <2>. QED  BY <2>2, <2>3
  <1>13. ErrorNamesFailures'
    <2>1. bootState = "error" => refreshVersion \in Version \ {v}
      BY <1>10, BootAssumption DEF IInv, ErrorNamesFailures, TypeOK, Version
    <2>2. bootState = "error" => attempt'[refreshVersion] = attempt[refreshVersion]
      BY <2>1, <1>8
    <2>. QED  BY <2>2 DEF IInv, ErrorNamesFailures, Settle
  <1>14. BusyWhileChecking'
    BY DEF IInv, BusyWhileChecking, Settle
  <1>. QED  BY <1>7, <1>9, <1>11, <1>12, <1>13, <1>14 DEF IInv

-----------------------------------------------------------------------------
\* What the finally block keeps, whatever ran before it.
LEMMA FinallyKeeps ==
    ASSUME IInv, NEW v \in Version, Returned(v), Finally(v),
           bootState' \in {"checking", "ready", "error"},
           v = refreshVersion => bootState' # "checking",
           v # refreshVersion => bootState' = bootState
    PROVE  /\ attempt' \in [Version -> Attempt]
           /\ refreshVersion' = refreshVersion /\ aborted' = aborted
           /\ refreshController' \in 0 .. MaxVersion /\ busy' \in BOOLEAN
           /\ \A w \in Version : attempt'[w].checks = attempt[w].checks
           /\ attempt'[v].phase = "done"
           /\ \A w \in Version \ {v} : attempt'[w] = attempt[w]
           /\ NoneFromTheFuture' /\ AbortedIsObsolete' /\ LoadingIsChecking'
           /\ BusyWhileChecking'
  <1>. DEFINE new == [attempt[v] EXCEPT !.phase = "done"]
  <1>1. /\ attempt \in [Version -> Attempt] /\ attempt[v].phase = "loading"
        /\ refreshVersion \in 0 .. MaxVersion /\ MaxVersion \in Nat
        /\ refreshController \in 0 .. MaxVersion /\ busy \in BOOLEAN
    BY BootAssumption DEF IInv, TypeOK, Returned
  <1>2. /\ new \in Attempt /\ new.phase = "done" /\ new.checks = attempt[v].checks
        /\ attempt' = [attempt EXCEPT ![v] = new]
    BY <1>1 DEF Attempt, Finally
  <1>. HIDE DEF new
  <1>3. /\ attempt' \in [Version -> Attempt]
        /\ attempt'[v] = new
        /\ \A w \in Version \ {v} : attempt'[w] = attempt[w]
    BY <1>1, <1>2
  <1>4. \A w \in Version : attempt'[w].checks = attempt[w].checks
    BY <1>2, <1>3
  <1>5. /\ refreshVersion' = refreshVersion /\ aborted' = aborted
        /\ refreshController' \in 0 .. MaxVersion /\ busy' \in BOOLEAN
        /\ refreshController' <= refreshVersion
    <2>1. /\ refreshVersion' = refreshVersion /\ aborted' = aborted
          /\ refreshController' \in {0, refreshController} /\ busy' \in {FALSE, busy}
      BY DEF Finally
    <2>2. busy' \in BOOLEAN
      BY <1>1, <2>1, Zenon
    <2>3. refreshController' \in 0 .. MaxVersion /\ refreshController' <= refreshVersion
      BY <1>1, <2>1 DEF IInv, AbortedIsObsolete
    <2>. QED  BY <2>1, <2>2, <2>3
  <1>6. v <= refreshVersion
    BY <1>1 DEF IInv, NoneFromTheFuture, Version
  <1>7. NoneFromTheFuture'
    BY <1>3, <1>5, <1>6, <1>1 DEF IInv, NoneFromTheFuture, Version
  <1>8. AbortedIsObsolete'
    BY <1>5 DEF IInv, AbortedIsObsolete
  <1>9. LoadingIsChecking'
    BY <1>2, <1>3, <1>5 DEF IInv, LoadingIsChecking
  <1>10. BusyWhileChecking'
    BY <1>5 DEF IInv, BusyWhileChecking, Finally
  <1>. QED  BY <1>2, <1>3, <1>4, <1>5, <1>7, <1>8, <1>9, <1>10

LEMMA ApplyIInv ==
    ASSUME IInv, NEW v \in Version, Apply(v)
    PROVE  IInv'
  <1>1. /\ Returned(v) /\ Finally(v) /\ bootState' = "ready" /\ v = refreshVersion
        /\ screen' = [c \in Check |-> v] /\ bootChecks' = bootChecks /\ error' = error
    BY DEF Apply
  <1>2. /\ attempt' \in [Version -> Attempt] /\ refreshVersion' = refreshVersion
        /\ aborted' = aborted
        /\ refreshController' \in 0 .. MaxVersion /\ busy' \in BOOLEAN
        /\ \A w \in Version : attempt'[w].checks = attempt[w].checks
        /\ attempt'[v].phase = "done"
        /\ NoneFromTheFuture' /\ AbortedIsObsolete' /\ LoadingIsChecking' /\ BusyWhileChecking'
    BY <1>1, FinallyKeeps
  <1>3. TypeOK'
    BY <1>1, <1>2 DEF IInv, TypeOK, Version
  <1>4. ScreenIsPast'
    BY <1>1, <1>2 DEF ScreenIsPast, Version
  <1>5. \A c \in Check : attempt[v].checks[c].status = "ok"
    <2>1. attempt[v].checks \in [Check -> Entry]
      BY DEF IInv, TypeOK, Attempt
    <2>2. \A c \in Check : /\ attempt[v].checks[c].status # "running"
                           /\ attempt[v].checks[c].status # "failed"
      BY <1>1 DEF Apply, Returned, Settled, Failed
    <2>. QED  BY <2>1, <2>2 DEF Entry
  <1>6. ReadyIsOneSnapshot'
    BY <1>1, <1>2, <1>5 DEF ReadyIsOneSnapshot
  <1>7. attempt[v].phase = "loading"
    BY <1>1 DEF Returned
  <1>8. error = {}
    BY <1>1, <1>7 DEF IInv, LoadingIsChecking, ErrorNamesFailures
  <1>9. ProgressOfNewest' /\ ErrorNamesFailures'
    BY <1>1, <1>8 DEF ProgressOfNewest, ErrorNamesFailures
  <1>. QED  BY <1>2, <1>3, <1>4, <1>6, <1>9 DEF IInv

LEMMA ShowErrorIInv ==
    ASSUME IInv, NEW v \in Version, ShowError(v)
    PROVE  IInv'
  <1>1. /\ Returned(v) /\ Finally(v) /\ bootState' = "error" /\ v = refreshVersion
        /\ v \notin aborted /\ Failed(attempt[v].checks) # {}
        /\ bootChecks' = attempt[v].checks /\ error' = Message(attempt[v].checks)
        /\ screen' = screen
    BY DEF ShowError
  <1>2. /\ attempt' \in [Version -> Attempt] /\ refreshVersion' = refreshVersion
        /\ aborted' = aborted
        /\ refreshController' \in 0 .. MaxVersion /\ busy' \in BOOLEAN
        /\ \A w \in Version : attempt'[w].checks = attempt[w].checks
        /\ NoneFromTheFuture' /\ AbortedIsObsolete' /\ LoadingIsChecking' /\ BusyWhileChecking'
    BY <1>1, FinallyKeeps
  <1>3. attempt[v].checks \in [Check -> Entry]
    BY DEF IInv, TypeOK, Attempt
  <1>4. TypeOK'
    BY <1>1, <1>2, <1>3, MessageOfFailures DEF IInv, TypeOK
  <1>5. ScreenIsPast' /\ ReadyIsOneSnapshot'
    BY <1>1, <1>2 DEF IInv, ScreenIsPast, ReadyIsOneSnapshot
  <1>6. ProgressOfNewest'
    BY <1>1, <1>2 DEF ProgressOfNewest
  <1>7. Message(attempt[v].checks) # {}
    BY <1>1 DEF Message
  <1>8. Settled(attempt[v].checks) /\ v # 0
    BY <1>1 DEF Returned, Version
  <1>9. ErrorNamesFailures'
    BY <1>1, <1>2, <1>7, <1>8 DEF ErrorNamesFailures, Settled
  <1>. QED  BY <1>2, <1>4, <1>5, <1>6, <1>9 DEF IInv

\* A newest attempt is never ignored: it was not aborted.
LEMMA IgnoreIInv ==
    ASSUME IInv, NEW v \in Version, Ignore(v)
    PROVE  IInv'
  <1>1. /\ Returned(v) /\ Finally(v) /\ bootState' = bootState
        /\ bootChecks' = bootChecks /\ error' = error /\ screen' = screen
    BY DEF Ignore
  <1>2. v # refreshVersion
    <2>1. v \notin aborted \/ v # refreshVersion
      BY BootAssumption DEF IInv, AbortedIsObsolete, TypeOK, Version
    <2>. QED  BY <2>1 DEF Ignore
  <1>3. bootState' \in {"checking", "ready", "error"}
    BY <1>1 DEF IInv, TypeOK
  <1>4. /\ attempt' \in [Version -> Attempt] /\ refreshVersion' = refreshVersion
        /\ aborted' = aborted
        /\ refreshController' \in 0 .. MaxVersion /\ busy' \in BOOLEAN
        /\ \A w \in Version : attempt'[w].checks = attempt[w].checks
        /\ \A w \in Version \ {v} : attempt'[w] = attempt[w]
        /\ NoneFromTheFuture' /\ AbortedIsObsolete' /\ LoadingIsChecking' /\ BusyWhileChecking'
    BY <1>1, <1>2, <1>3, FinallyKeeps
  <1>5. TypeOK' /\ ScreenIsPast'
    BY <1>1, <1>3, <1>4 DEF IInv, TypeOK, ScreenIsPast
  <1>6. ReadyIsOneSnapshot'
    <2>. SUFFICES ASSUME bootState = "ready" PROVE ReadyIsOneSnapshot'
      BY <1>1 DEF ReadyIsOneSnapshot
    <2>1. PICK w \in Version : /\ \A d \in Check : screen[d] = w
                               /\ attempt[w].phase = "done"
                               /\ \A d \in Check : attempt[w].checks[d].status = "ok"
      BY DEF IInv, ReadyIsOneSnapshot
    <2>2. w # v
      BY <1>1, <2>1 DEF Returned
    <2>. QED  BY <1>1, <1>4, <2>1, <2>2 DEF ReadyIsOneSnapshot
  <1>7. refreshVersion # 0 => refreshVersion \in Version \ {v}
    BY <1>2, BootAssumption DEF IInv, TypeOK, Version
  <1>8. ProgressOfNewest'
    BY <1>1, <1>4, <1>7 DEF IInv, ProgressOfNewest
  <1>9. refreshVersion # 0 => attempt'[refreshVersion] = attempt[refreshVersion]
    BY <1>4, <1>7
  <1>10. ErrorNamesFailures'
    BY <1>1, <1>4, <1>9 DEF IInv, ErrorNamesFailures, Settled, Message, Failed
  <1>. QED  BY <1>4, <1>5, <1>6, <1>8, <1>10 DEF IInv

LEMMA InvalidateIInv == IInv /\ InvalidateRefresh => IInv'
  <1>. SUFFICES ASSUME IInv, InvalidateRefresh PROVE IInv'
    OBVIOUS
  <1>0. /\ refreshVersion \in 0 .. MaxVersion /\ refreshVersion' \in 1 .. MaxVersion
        /\ refreshVersion' = refreshVersion + 1 /\ MaxVersion \in Nat /\ bootState = "ready"
        /\ refreshController \in 0 .. MaxVersion /\ refreshController <= refreshVersion
    BY BootAssumption DEF IInv, TypeOK, AbortedIsObsolete, InvalidateRefresh
  <1>1. Abort \subseteq Version
    BY <1>0 DEF IInv, TypeOK, Abort, Version
  <1>2. TypeOK'
    BY <1>0, <1>1 DEF IInv, TypeOK, InvalidateRefresh
  <1>3. NoneFromTheFuture'
    BY <1>0 DEF IInv, NoneFromTheFuture, InvalidateRefresh, Version
  <1>4. AbortedIsObsolete'
    BY <1>0 DEF IInv, TypeOK, AbortedIsObsolete, InvalidateRefresh, Abort, Version
  <1>5. LoadingIsChecking'
    BY <1>0 DEF IInv, NoneFromTheFuture, LoadingIsChecking, InvalidateRefresh, Version
  <1>6. ScreenIsPast'
    BY <1>0 DEF IInv, TypeOK, ScreenIsPast, InvalidateRefresh
  <1>7. ReadyIsOneSnapshot' /\ ProgressOfNewest' /\ ErrorNamesFailures'
    BY <1>0 DEF IInv, ReadyIsOneSnapshot, ProgressOfNewest, ErrorNamesFailures, InvalidateRefresh
  <1>8. BusyWhileChecking'
    <2>1. bootState = "ready" => ~busy
      <3>. SUFFICES ASSUME bootState = "ready" PROVE ~busy
        OBVIOUS
      <3>1. PICK w \in Version : attempt[w].phase = "done"
        BY DEF IInv, ReadyIsOneSnapshot
      <3>2. refreshVersion # 0
        BY <3>1, <1>0 DEF IInv, NoneFromTheFuture, Version
      <3>. QED  BY <3>2 DEF IInv, BusyWhileChecking
    <2>. QED  BY <1>0, <2>1 DEF BusyWhileChecking, InvalidateRefresh
  <1>. QED  BY <1>2, <1>3, <1>4, <1>5, <1>6, <1>7, <1>8 DEF IInv

LEMMA StepIInv == IInv /\ [Next]_vars => IInv'
  <1>. SUFFICES ASSUME IInv, [Next]_vars PROVE IInv'
    OBVIOUS
  <1>1. CASE Refresh
    BY <1>1, RefreshIInv
  <1>2. CASE Answer
    BY <1>2, SettleIInv DEF Answer
  <1>3. CASE Return
    BY <1>3, ApplyIInv, ShowErrorIInv, IgnoreIInv DEF Return
  <1>4. CASE InvalidateRefresh
    BY <1>4, InvalidateIInv
  <1>5. CASE UNCHANGED vars
    BY <1>5 DEF vars, IInv, TypeOK, NoneFromTheFuture, AbortedIsObsolete, LoadingIsChecking,
                ScreenIsPast, ReadyIsOneSnapshot, ProgressOfNewest, ErrorNamesFailures,
                BusyWhileChecking, Settled, Message, Failed
  <1>. QED  BY <1>1, <1>2, <1>3, <1>4, <1>5 DEF Next

-----------------------------------------------------------------------------
LEMMA Invariant == Spec => []IInv
  BY InitIInv, StepIInv, PTL DEF Spec

\* Every variable keeps its domain, whatever the server answers.
THEOREM TypeCorrect == Spec => []TypeOK
  <1>. IInv => TypeOK
    BY DEF IInv
  <1>. QED  BY Invariant, PTL

\* A page that is ready shows one snapshot (applyBootstrap of main.ts).
THEOREM SnapshotIsWhole == Spec => []ReadyIsOneSnapshot
  <1>. IInv => ReadyIsOneSnapshot
    BY DEF IInv
  <1>. QED  BY Invariant, PTL

\* The loading view shows the progress of the newest attempt only.
THEOREM ProgressIsNewest == Spec => []ProgressOfNewest
  <1>. IInv => ProgressOfNewest
    BY DEF IInv
  <1>. QED  BY Invariant, PTL

\* The alert names what failed in the newest attempt and nothing else.
THEOREM ErrorIsTrue == Spec => []ErrorNamesFailures
  <1>. IInv => ErrorNamesFailures
    BY DEF IInv
  <1>. QED  BY Invariant, PTL

\* The busy flag is the newest attempt's.
THEOREM BusyIsNewest == Spec => []BusyWhileChecking
  <1>. IInv => BusyWhileChecking
    BY DEF IInv
  <1>. QED  BY Invariant, PTL

\* No resource on the screen is replaced by that of an older attempt.
THEOREM ScreenAdvances == Spec => NeverGoesBack
  <1>1. IInv /\ [Next]_vars => [\A c \in Check : screen'[c] >= screen[c]]_vars
    <2>. SUFFICES ASSUME IInv, Next, NEW c \in Check PROVE screen'[c] >= screen[c]
      BY DEF vars
    <2>1. screen[c] \in Nat /\ screen[c] <= refreshVersion
      BY DEF IInv, TypeOK, ScreenIsPast
    <2>2. CASE screen' = screen
      BY <2>1, <2>2
    <2>3. ASSUME NEW v \in Version, Apply(v) PROVE screen'[c] >= screen[c]
      BY <2>1, <2>3 DEF Apply
    <2>. QED  BY <2>2, <2>3 DEF Next, Refresh, Answer, Settle, Return, ShowError, Ignore,
                                InvalidateRefresh
  <1>. QED  BY <1>1, Invariant, PTL DEF Spec, NeverGoesBack

-----------------------------------------------------------------------------
\* While the page says it is checking, the newest attempt is loading and was not
\* aborted: there is an answer or a continuation that ends the checking.
CheckingHasAttempt ==
  bootState = "checking" /\ busy =>
    /\ refreshVersion \in Version /\ refreshVersion \notin aborted
    /\ attempt[refreshVersion].phase = "loading"

\* The page never says it is checking with nothing left that could end it: the
\* finally block of the newest attempt runs after bootState was set, and nothing
\* else takes the newest attempt away (main.ts:152-189).
THEOREM CheckingIsNotForgotten == Spec => []CheckingHasAttempt
  <1>1. Init => CheckingHasAttempt
    BY DEF Init, CheckingHasAttempt
  <1>2. IInv /\ CheckingHasAttempt /\ [Next]_vars => CheckingHasAttempt'
    <2>. SUFFICES ASSUME IInv, CheckingHasAttempt, [Next]_vars, (bootState = "checking" /\ busy)'
                  PROVE  /\ refreshVersion' \in Version /\ refreshVersion' \notin aborted'
                         /\ attempt'[refreshVersion'].phase = "loading"
      BY DEF CheckingHasAttempt
    <2>0. attempt \in [Version -> Attempt] /\ refreshVersion \in 0 .. MaxVersion
      BY DEF IInv, TypeOK
    <2>1. ASSUME Refresh
          PROVE  refreshVersion' \in Version /\ attempt'[refreshVersion'].phase = "loading"
      <3>. DEFINE n == refreshVersion + 1
      <3>1. n \in Version /\ refreshVersion' = n
        BY <2>0, <2>1, BootAssumption DEF Refresh, Version
      <3>2. attempt'[n] = [phase |-> "loading", checks |-> Running]
        BY <2>0, <2>1, <3>1 DEF Refresh
      <3>. QED  BY <3>1, <3>2
    <2>2. ASSUME NEW v \in Version, NEW c \in Check, NEW r \in Response, Settle(v, c, r)
          PROVE  refreshVersion' \in Version /\ attempt'[refreshVersion'].phase = "loading"
      <3>1. refreshVersion \in Version /\ attempt[refreshVersion].phase = "loading"
        BY <2>2 DEF Settle, CheckingHasAttempt
      <3>2. attempt'[refreshVersion].phase = attempt[refreshVersion].phase
        BY <2>0, <2>2, <3>1 DEF Settle, Attempt
      <3>. QED  BY <2>2, <3>1, <3>2 DEF Settle
    <2>3. ASSUME NEW v \in Version, Apply(v) \/ ShowError(v) \/ Ignore(v)
          PROVE  refreshVersion' \in Version /\ attempt'[refreshVersion'].phase = "loading"
      <3>1. Ignore(v) /\ Finally(v) /\ UNCHANGED <<refreshVersion, bootState>>
        BY <2>3 DEF Apply, ShowError, Ignore, Finally
      <3>2. v # refreshVersion
        BY <3>1 DEF Finally
      <3>3. busy /\ bootState = "checking"
        BY <3>1, <3>2 DEF Finally
      <3>4. attempt'[refreshVersion] = attempt[refreshVersion]
        BY <2>0, <3>1, <3>2, <3>3 DEF Finally, CheckingHasAttempt
      <3>. QED  BY <3>1, <3>3, <3>4 DEF CheckingHasAttempt
    <2>4. CASE InvalidateRefresh
      BY <2>4 DEF InvalidateRefresh
    <2>5. CASE UNCHANGED vars
      BY <2>5 DEF vars, CheckingHasAttempt
    <2>6. refreshVersion' \in Version /\ attempt'[refreshVersion'].phase = "loading"
      BY <2>1, <2>2, <2>3, <2>4, <2>5 DEF Next, Answer, Return
    <2>7. refreshVersion' \notin aborted'
      <3>1. IInv'
        BY StepIInv
      <3>. QED  BY <2>6, <3>1, BootAssumption DEF IInv, AbortedIsObsolete, Version
    <2>. QED  BY <2>6, <2>7
  <1>. QED  BY <1>1, <1>2, Invariant, PTL DEF Spec
=============================================================================
