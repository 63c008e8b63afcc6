----------------------------- MODULE PolicyPanel -----------------------------
(***************************************************************************)
(* The card of the App UI that edits the global operator service policy:   *)
(* every click saves the whole selection, saves are sent one after the     *)
(* other, and only the newest one reports.  The form that evaluates a      *)
(* request shares the card's busy flag.                                    *)
(*                                                                         *)
(* Home Assistant's service catalog, which the server holds a selection    *)
(* against, changes on its own; a request may be refused or lost, also     *)
(* after the browser gave up on it.  One page edits the policy: of two,    *)
(* each saves its own selection and the server keeps the later one.        *)
(***************************************************************************)
EXTENDS Naturals, FiniteSets

CONSTANTS
  Service,  \* services of Home Assistant
  Group,    \* the services of each domain
  MaxSave,  \* bound of the model: saves in a run
  MaxAsk    \* bound of the model: evaluations at a time

ASSUME PolicyPanelAssumption ==
  /\ Group \subseteq SUBSET Service
  /\ MaxSave \in Nat \ {0} /\ MaxAsk \in Nat

VARIABLES
  catalog,            \* the server's service catalog
  stored,             \* the policy on the server, and the save it came from
  services, selected, \* operatorPolicy of the page
  policySaveVersion, policyBusy, error,
  save,               \* each save: its snapshot and how far it got
  evaluating,         \* evaluations on their way
  late                \* history: a save was served after the browser gave up on it

policyVars == <<catalog, stored, services, selected, policySaveVersion, policyBusy,
                save, evaluating, late>>
vars == <<policyVars, error>>
page == <<services, selected, policySaveVersion, policyBusy, error>>

Save == 1 .. MaxSave
NoError == [by |-> "none", call |-> 0]
Alert == [by : {"none", "save", "evaluate"}, call : Nat]
SaveState == [phase : {"none", "queued", "sent", "answered", "over"}, snapshot : SUBSET Service,
              ok : BOOLEAN, lost : BOOLEAN]
NoSave == [phase |-> "none", snapshot |-> {}, ok |-> FALSE, lost |-> FALSE]
\* A promise of the queue is settled once its answer was handled.
Settled(v) == save[v].phase = "over"
InFlight == {v \in Save : save[v].phase \in {"queued", "sent", "answered"}}

ToggleSelection(chosen, service, checked) ==
  IF checked THEN chosen \cup {service} ELSE chosen \ {service}
ToggleGroupSelection(chosen, group, checked) ==
  IF checked THEN chosen \cup group ELSE chosen \ group

-----------------------------------------------------------------------------
(* The page after its bootstrap.  The stored selection may name a service  *)
(* that has left the catalog.                                              *)
Init ==
  /\ catalog \in SUBSET Service /\ services = catalog
  /\ \E s \in SUBSET Service : stored = [by |-> 0, selected |-> s] /\ selected = s
  /\ policySaveVersion = 0 /\ policyBusy = FALSE /\ error = NoError
  /\ save = [v \in Save |-> NoSave] /\ evaluating = 0 /\ late = FALSE

(* queueOperatorPolicySave(): the snapshot joins the queue.                *)
QueueSave(next) ==
  LET v == policySaveVersion + 1 IN
  /\ v <= MaxSave
  /\ selected' = next /\ policySaveVersion' = v /\ policyBusy' = TRUE /\ error' = NoError
  /\ save' = [save EXCEPT ![v] = [NoSave EXCEPT !.phase = "queued", !.snapshot = next]]
  /\ UNCHANGED <<catalog, stored, services, evaluating, late>>

(* A box reports what it shows after the click, which need not be the      *)
(* opposite of selected (see ClientForm).  No control is disabled while a  *)
(* save is on its way.                                                     *)
ToggleOperatorService ==
  \E s \in services, checked \in BOOLEAN :
    QueueSave(ToggleSelection(selected, s, checked))

ToggleOperatorServiceGroup ==
  \E g \in {h \cap services : h \in Group} \ {{}} :
    QueueSave(ToggleGroupSelection(selected, g, g \cap selected = {}))

(* The evaluation of a request: disabled while busy, but its finally block *)
(* clears the flag whoever set it since.                                   *)
EvaluatePolicy ==
  /\ ~policyBusy /\ evaluating < MaxAsk
  /\ policyBusy' = TRUE /\ evaluating' = evaluating + 1
  /\ UNCHANGED <<catalog, stored, services, selected, policySaveVersion, error, save, late>>

EvaluateReturn ==
  /\ evaluating > 0 /\ evaluating' = evaluating - 1 /\ policyBusy' = FALSE
  /\ error' \in {error, [by |-> "evaluate", call |-> 0]}
  /\ UNCHANGED <<catalog, stored, services, selected, policySaveVersion, save, late>>

\* Mutant: a save does not wait for the ones before it.
SendAtOnce(v) ==
  /\ save[v].phase = "queued"
  /\ save' = [save EXCEPT ![v].phase = "sent"]
  /\ UNCHANGED <<catalog, stored, page, evaluating, late>>

(* The queue of promises: a save is sent when the one before has settled,  *)
(* whether it was accepted or not.                                         *)
Send(v) ==
  /\ save[v].phase = "queued" /\ \A u \in 1 .. v - 1 : Settled(u)
  /\ save' = [save EXCEPT ![v].phase = "sent"]
  /\ UNCHANGED <<catalog, stored, page, evaluating, late>>

(* The server refuses a selection that names a service it does not find in *)
(* the catalog; else it stores it.  It may refuse for other reasons, and   *)
(* its answer may be lost.                                                 *)
Accepts(v) == save[v].snapshot \subseteq catalog
StoreSnapshot(v) == stored' = [by |-> v, selected |-> save[v].snapshot]

Serve(v) ==
  /\ save[v].phase = "sent"
  /\ \/ /\ Accepts(v) /\ StoreSnapshot(v)
        /\ \E ok \in BOOLEAN :
             save' = [save EXCEPT ![v].phase = "answered", ![v].ok = ok]
     \/ /\ UNCHANGED stored /\ save' = [save EXCEPT ![v].phase = "answered"]
  /\ UNCHANGED <<catalog, page, evaluating, late>>

\* The connection breaks while the request is on its way to the server ...
Lose(v) ==
  /\ save[v].phase = "sent"
  /\ save' = [save EXCEPT ![v].phase = "answered", ![v].lost = TRUE]
  /\ UNCHANGED <<catalog, stored, page, evaluating, late>>

\* ... which may serve it later, when nobody waits for it.
ServeLate(v) ==
  /\ save[v].lost /\ Accepts(v) /\ StoreSnapshot(v)
  /\ save' = [save EXCEPT ![v].lost = FALSE] /\ late' = TRUE
  /\ UNCHANGED <<catalog, page, evaluating>>

(* The handlers of a save: only the newest one's do anything.              *)
Return(v) ==
  /\ save[v].phase = "answered" /\ save' = [save EXCEPT ![v].phase = "over"]
  /\ IF v = policySaveVersion
       THEN /\ policyBusy' = FALSE
            /\ error' = IF save[v].ok THEN error ELSE [by |-> "save", call |-> v]
       ELSE UNCHANGED <<policyBusy, error>>
  /\ UNCHANGED <<catalog, stored, services, selected, policySaveVersion, evaluating, late>>

(* An integration is loaded or removed.  Only a save on its way reads the  *)
(* catalog, so the changes before one are as good as the changes under it. *)
CatalogChange ==
  /\ \E v \in Save : save[v].phase = "sent" \/ save[v].lost
  /\ catalog' \in SUBSET Service \ {catalog}
  /\ UNCHANGED <<stored, page, save, evaluating, late>>

User == ToggleOperatorService \/ ToggleOperatorServiceGroup \/ EvaluatePolicy
Deliver == EvaluateReturn \/ \E v \in Save : Send(v) \/ Serve(v) \/ Lose(v) \/ Return(v)
Next == User \/ Deliver \/ CatalogChange \/ \E v \in Save : ServeLate(v)

(* The browser settles every request: it is answered or it fails.          *)
Fairness ==
  /\ WF_vars(EvaluateReturn)
  /\ \A v \in Save : WF_vars(Send(v)) /\ WF_vars(Serve(v)) /\ WF_vars(Return(v))

Spec == Init /\ [][Next]_vars /\ Fairness

-----------------------------------------------------------------------------
(* The selection on the screen is the policy in force once the newest save *)
(* was accepted, whatever became of the ones before it: saves arrive in    *)
(* the order of the clicks (operator-policy-service.ts).  A request the    *)
(* browser gave up on is beyond it, and may undo a later one.              *)
LastSaveWins ==
  LET v == policySaveVersion IN
  v > 0 /\ Settled(v) /\ save[v].ok /\ ~late => stored = [by |-> v, selected |-> selected]

(* The alert of a failed save is about the selection on the screen: an     *)
(* older save that fails behind a newer click stays silent (main.ts:523).  *)
SaveErrorIsNewest == error.by = "save" => error.call = policySaveVersion /\ ~save[error.call].ok

\* Every variable of the card in its domain.
TypeOK ==
  /\ catalog \subseteq Service /\ services \subseteq Service /\ selected \subseteq Service
  /\ stored \in [by : 0 .. MaxSave, selected : SUBSET Service]
  /\ policySaveVersion \in 0 .. MaxSave /\ policyBusy \in BOOLEAN
  /\ error \in Alert
  /\ save \in [Save -> SaveState] /\ evaluating \in 0 .. MaxAsk /\ late \in BOOLEAN
=============================================================================
