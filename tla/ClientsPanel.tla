---------------------------- MODULE ClientsPanel ----------------------------
(***************************************************************************)
(* The list of clients in the App UI and the calls that change it: create, *)
(* edit capabilities, revoke, delete and rotate, the manual refresh, and   *)
(* the refresh in the background that follows a mutation.                  *)
(*                                                                         *)
(* Other administrators change the same registry; a request may be lost on *)
(* its way or on its way back; and a newer mutation aborts an older one,   *)
(* whose request the server may serve all the same, before or after.       *)
(* The bootstrap is module Boot: beginMutation()'s invalidateRefresh() is  *)
(* an action there.                                                        *)
(***************************************************************************)
EXTENDS Naturals, Sequences, FiniteSets

CONSTANTS
  Client,   \* client ids
  None,     \* null
  MaxCall,  \* bound of the model: mutations in a run
  MaxTime,  \* bound of the model: states of the registry in a run
  Scripted  \* whether mutations are also called while another one runs

ASSUME ClientsPanelAssumption ==
  /\ None \notin Client /\ MaxCall \in Nat \ {0}
  \* Every mutation of the page may add a state to the one it begins with.
  /\ MaxTime \in Nat /\ MaxCall < MaxTime
  /\ Scripted \in BOOLEAN

VARIABLES
  registry,            \* the states the server's registry went through; the last is now
  mutationVersion,     \* the number of the newest mutation
  mutationController,  \* the mutation whose AbortController is held, 0 for null
  call,                \* each mutation: what was asked and what was answered
  sync, refresh,       \* the lists on their way: after a mutation, and by the button
  clients, listed,     \* the rows on the screen, and the time the list was read
  clientsBusy, error, issuedToken, editingClientId,
  acked                \* history: the last mutation of each client that changed its row

vars == <<registry, mutationVersion, mutationController, call, sync, refresh, clients,
          listed, clientsBusy, error, issuedToken, editingClientId, acked>>

calls == <<mutationVersion, mutationController, call>>
lists == <<sync, refresh>>
rows == <<clients, listed>>
page == <<clientsBusy, error, issuedToken, editingClientId>>

Call == 1 .. MaxCall
Time == 1 .. MaxTime
Status == {"active", "revoked"}
Mutation == {"create", "save", "revoke", "delete", "rotate"}
Row == [id : Client, status : Status, asof : Time]
CallState == [kind : Mutation \cup {"none"}, id : Client \cup {None},
              phase : {"none", "sent", "answered", "over"}, ok : BOOLEAN, time : 0 .. MaxTime]
List == [phase : {"none", "asked", "read"}, time : 0 .. MaxTime]
NoCall == [kind |-> "none", id |-> None, phase |-> "none", ok |-> FALSE, time |-> 0]
NoList == [phase |-> "none", time |-> 0]
NoError == [by |-> "none", call |-> 0]

Now == Len(registry)
Rows(t) == {[id |-> c, status |-> registry[t][c], asof |-> t] :
              c \in {d \in Client : registry[t][d] # "absent"}}
Shown(c) == {r \in clients : r.id = c}

(* What the use cases of the server make of a request for a client in      *)
(* state s: revoking is idempotent, the others insist on the state.        *)
Accepts(kind, s) ==
  CASE kind = "create" -> s = "absent"
    [] kind = "delete" -> s = "revoked"
    [] kind = "revoke" -> TRUE
    [] OTHER -> s = "active"
\* Mutant: the status written by hand is not the registry's.
AfterUntyped(kind, s) ==
  CASE kind = "delete" -> "absent"
    [] kind = "revoke" -> IF s = "active" THEN "disabled" ELSE s
    [] OTHER -> "active"

After(kind, s) ==
  CASE kind = "delete" -> "absent"
    [] kind = "revoke" -> IF s = "active" THEN "revoked" ELSE s
    [] OTHER -> "active"

\* A create or a rotation answers with a token; a save only with the row.
IssuesToken(kind) == kind \in {"create", "rotate"}

\* Mutant: a mutation is current until its controller is replaced by null.
CurrentAnyVersion(v) == mutationController # 0 /\ v <= mutationVersion

Current(v) == v = mutationVersion /\ mutationController = v

-----------------------------------------------------------------------------
Init ==
  /\ registry \in {<<r>> : r \in [Client -> Status \cup {"absent"}]}
  /\ mutationVersion = 0 /\ mutationController = 0
  /\ call = [v \in Call |-> NoCall]
  /\ sync = [v \in Call |-> NoList] /\ refresh = NoList
  /\ clients = Rows(1) /\ listed = 1
  /\ clientsBusy = FALSE /\ error = NoError /\ issuedToken = 0 /\ editingClientId = None
  /\ acked = [c \in Client |-> [kind |-> "none", time |-> 0]]

(* The button of a row, or the form.  A button is disabled while           *)
(* clientsBusy; a script of the page may call the method all the same.     *)
Offered(kind, c) ==
  CASE kind = "create" -> TRUE
    [] kind = "save" -> editingClientId = c
    [] kind = "delete" -> \E r \in Shown(c) : r.status = "revoked"
    [] OTHER -> \E r \in Shown(c) : r.status = "active"

Begin(kind, c) ==
  LET v == mutationVersion + 1 IN
  /\ v <= MaxCall /\ Offered(kind, c)
  /\ ~clientsBusy \/ (Scripted /\ mutationController # 0)
  /\ mutationVersion' = v /\ mutationController' = v
  /\ call' = [call EXCEPT ![v] = [kind |-> kind, id |-> c, phase |-> "sent",
                                  ok |-> FALSE, time |-> 0]]
  /\ clientsBusy' = TRUE /\ error' = NoError
  /\ UNCHANGED <<registry, lists, rows, issuedToken, editingClientId, acked>>

(* The server takes a request, aborted or not, and its answer arrives, or  *)
(* is lost, or is one the contract refuses.                                *)
Serve(v) ==
  /\ call[v].phase = "sent"
  /\ LET c == call[v].id
         s == registry[Now][c]
         n == After(call[v].kind, s)
         accepted == Accepts(call[v].kind, s)
     IN  /\ registry' = IF accepted /\ (n # s \/ call[v].kind \in {"save", "rotate"})
                          THEN Append(registry, [registry[Now] EXCEPT ![c] = n])
                          ELSE registry
         /\ \E ok \in {FALSE, accepted} :
              call' = [call EXCEPT ![v].phase = "answered", ![v].ok = ok,
                                   ![v].time = IF ok THEN Len(registry') ELSE 0]
  /\ UNCHANGED <<mutationVersion, mutationController, lists, rows, page, acked>>

\* The request never reaches the server.
Lose(v) ==
  /\ call[v].phase = "sent" /\ call' = [call EXCEPT ![v].phase = "answered"]
  /\ UNCHANGED <<registry, mutationVersion, mutationController, lists, rows, page,
                 acked>>

Finally(v) ==
  /\ clientsBusy' = FALSE /\ mutationController' = 0
  /\ call' = [call EXCEPT ![v].phase = "over"]

(* The rows after a mutation: the answered row for create, save and        *)
(* rotate; a status written by hand for revoke; no row for delete.         *)
Result(kind, c, t) ==
  LET row == [id |-> c, status |-> After(kind, "active"), asof |-> t] IN
  CASE kind = "create" -> clients \cup {row}
    [] kind = "delete" -> clients \ Shown(c)
    [] OTHER -> (clients \ Shown(c)) \cup (IF Shown(c) = {} THEN {} ELSE {row})

(* The continuation of a mutation that is still the newest one.  An        *)
(* obsolete one changes nothing, whatever comes back.                      *)
Done(v) ==
  /\ call[v].phase = "answered" /\ call[v].ok /\ Current(v)
  /\ clients' = Result(call[v].kind, call[v].id, call[v].time)
  /\ acked' = IF call[v].kind \in {"create", "delete"} \/ Shown(call[v].id) # {}
                THEN [acked EXCEPT ![call[v].id] = [kind |-> call[v].kind, time |-> call[v].time]]
                ELSE acked
  /\ issuedToken' = IF IssuesToken(call[v].kind) THEN v ELSE issuedToken
  /\ editingClientId' = IF call[v].kind = "save" THEN None ELSE editingClientId
  /\ sync' = IF call[v].kind = "save" THEN sync ELSE [sync EXCEPT ![v].phase = "asked"]
  /\ Finally(v)
  /\ UNCHANGED <<registry, mutationVersion, refresh, listed, error>>

\* Mutant: the finally block enables the controls, but not after an error.
RefusedStaysBusy(v) ==
  /\ call[v].phase = "answered" /\ ~call[v].ok /\ Current(v)
  /\ error' = [by |-> "mutation", call |-> v]
  /\ mutationController' = 0 /\ call' = [call EXCEPT ![v].phase = "over"]
  /\ UNCHANGED <<registry, mutationVersion, lists, rows, clientsBusy, issuedToken,
                 editingClientId, acked>>

Refused(v) ==
  /\ call[v].phase = "answered" /\ ~call[v].ok /\ Current(v)
  /\ error' = [by |-> "mutation", call |-> v]
  /\ Finally(v)
  /\ UNCHANGED <<registry, mutationVersion, lists, rows, issuedToken, editingClientId,
                 acked>>

(* syncClientsInBackground(): read, then applied unless a newer mutation   *)
(* began.  A failure is swallowed.                                         *)
SyncRead(v) ==
  /\ sync[v].phase = "asked" /\ sync' = [sync EXCEPT ![v] = [phase |-> "read", time |-> Now]]
  /\ UNCHANGED <<registry, calls, refresh, rows, page, acked>>

\* Mutant: the list of the background refresh is applied to a newer mutation.
SyncReturnAnyVersion(v) ==
  /\ sync[v].phase = "read"
  /\ clients' = Rows(sync[v].time) /\ listed' = sync[v].time
  /\ sync' = [sync EXCEPT ![v] = NoList]
  /\ UNCHANGED <<registry, calls, refresh, page, acked>>

SyncReturn(v) ==
  /\ sync[v].phase = "read" /\ v = mutationVersion
  /\ clients' = Rows(sync[v].time) /\ listed' = sync[v].time
  /\ sync' = [sync EXCEPT ![v] = NoList]
  /\ UNCHANGED <<registry, calls, refresh, page, acked>>

SyncFail(v) ==
  /\ sync[v].phase = "asked" /\ sync' = [sync EXCEPT ![v] = NoList]
  /\ UNCHANGED <<registry, calls, refresh, rows, page, acked>>

\* Mutant: the refresh button is not disabled.
RefreshClientsAlways ==
  /\ refresh.phase = "none"
  /\ clientsBusy' = TRUE /\ refresh' = [phase |-> "asked", time |-> 0]
  /\ UNCHANGED <<registry, calls, sync, rows, error, issuedToken, editingClientId,
                 acked>>

(* The refresh button.  Its answer is applied whatever happened since, and *)
(* its finally block enables the controls unconditionally.                 *)
RefreshClients ==
  /\ ~clientsBusy
  /\ clientsBusy' = TRUE /\ refresh' = [phase |-> "asked", time |-> 0]
  /\ UNCHANGED <<registry, calls, sync, rows, error, issuedToken, editingClientId,
                 acked>>

RefreshRead ==
  /\ refresh.phase = "asked" /\ refresh' = [phase |-> "read", time |-> Now]
  /\ UNCHANGED <<registry, calls, sync, rows, page, acked>>

RefreshReturn ==
  /\ \/ /\ refresh.phase = "read"
        /\ clients' = Rows(refresh.time) /\ listed' = refresh.time /\ UNCHANGED error
     \/ /\ refresh.phase = "asked"
        /\ error' = [by |-> "refresh", call |-> 0] /\ UNCHANGED rows
  /\ refresh' = NoList /\ clientsBusy' = FALSE
  /\ UNCHANGED <<registry, calls, sync, issuedToken, editingClientId, acked>>

(* The controls that call nobody: edit an active client, cancel, "saved    *)
(* it" in the token dialog, and another view.                              *)
EditClientCapabilities(c) ==
  /\ ~clientsBusy /\ \E r \in Shown(c) : r.status = "active"
  /\ editingClientId' = c
  /\ UNCHANGED <<registry, calls, lists, rows, clientsBusy, error, issuedToken, acked>>

CancelCapabilityEdit ==
  /\ ~clientsBusy /\ editingClientId' = None
  /\ UNCHANGED <<registry, calls, lists, rows, clientsBusy, error, issuedToken, acked>>

SavedIt ==
  /\ issuedToken' = 0
  /\ UNCHANGED <<registry, calls, lists, rows, clientsBusy, error, editingClientId,
                 acked>>

SetView ==
  /\ error' = NoError
  /\ UNCHANGED <<registry, calls, lists, rows, clientsBusy, issuedToken,
                 editingClientId, acked>>

(* Another administrator.  The guard leaves the bound room for the calls   *)
(* of this page.                                                           *)
ForeignChange(c) ==
  /\ Now + Cardinality({v \in Call : call[v].phase \in {"none", "sent"}}) < MaxTime
  /\ \E kind \in Mutation :
       /\ Accepts(kind, registry[Now][c])
       /\ registry' = Append(registry, [registry[Now] EXCEPT ![c] = After(kind, @)])
  /\ UNCHANGED <<calls, lists, rows, page, acked>>

Answer == \E v \in Call : Serve(v) \/ Lose(v)
Return == \E v \in Call : Done(v) \/ Refused(v)
Sync == \E v \in Call : SyncRead(v) \/ SyncReturn(v) \/ SyncFail(v)
Control ==
  \/ \E c \in Client : EditClientCapabilities(c) \/ \E kind \in Mutation : Begin(kind, c)
  \/ CancelCapabilityEdit \/ SavedIt \/ SetView \/ RefreshClients
Next == Control \/ Answer \/ Return \/ Sync \/ RefreshRead \/ RefreshReturn
          \/ \E c \in Client : ForeignChange(c)

(* Requests are answered or fail, and settled promises continue.           *)
Spec == Init /\ [][Next]_vars
          /\ WF_vars(Answer) /\ WF_vars(Return) /\ WF_vars(RefreshRead \/ RefreshReturn)

-----------------------------------------------------------------------------
TypeOK ==
  /\ registry \in Seq([Client -> Status \cup {"absent"}]) /\ Now \in Time
  /\ mutationVersion \in 0 .. MaxCall /\ mutationController \in {0, mutationVersion}
  /\ call \in [Call -> CallState]
  /\ sync \in [Call -> List] /\ refresh \in List
  /\ clients \subseteq Row /\ listed \in Time
  /\ clientsBusy \in BOOLEAN /\ issuedToken \in 0 .. MaxCall
  /\ error \in [by : {"none", "mutation", "refresh"}, call : 0 .. MaxCall]
  /\ editingClientId \in Client \cup {None}
  /\ acked \in [Client -> [kind : Mutation \cup {"none"}, time : 0 .. MaxTime]]

(* What the page once showed as done stays on the screen until a list read *)
(* afterwards replaces it: no list that was read before, however late it   *)
(* arrives, brings a deleted or revoked client back, loses a new one or    *)
(* shows the old grants (main.ts:216-220 and 508-513).                     *)
OwnResultStays ==
  \A c \in Client : acked[c].time > listed =>
    IF acked[c].kind = "delete" THEN Shown(c) = {}
    ELSE \E r \in Shown(c) : /\ r.asof = acked[c].time
                             /\ r.status = After(acked[c].kind, "active")

(* The controls are disabled exactly while a mutation or a refresh is on   *)
(* its way: no obsolete finally block enables them under a newer call, and *)
(* none is left disabled (DESIGN.md:499).                                  *)
ControlsFollowCalls ==
  clientsBusy <=> mutationController # 0 \/ refresh.phase # "none"

(* An error is the newest mutation's, never that of an aborted one, and    *)
(* the token in the dialog is never one a later issue of this page that    *)
(* was shown has replaced (DESIGN.md:498-500).                             *)
OutcomeOfNewest ==
  /\ error.by = "mutation" => error.call = mutationVersion /\ ~call[error.call].ok
  /\ issuedToken # 0 =>
       \A w \in Call : w > issuedToken =>
         ~(call[w].phase = "over" /\ call[w].ok /\ IssuesToken(call[w].kind))

(* The controls are enabled again.                                         *)
BusyEnds == clientsBusy ~> ~clientsBusy
=============================================================================
