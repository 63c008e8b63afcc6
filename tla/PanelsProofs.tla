----------------------------- MODULE PanelsProofs -----------------------------
(***************************************************************************)
(* Proofs about the policy card, alone and among the other views, for any  *)
(* set of services and any number of saves.                                *)
(*                                                                         *)
(* What makes the last click win is the queue: a save that has left the    *)
(* page has only settled saves before it, so the server can only move on   *)
(* to a later one, and what it stores is the snapshot of the save it       *)
(* names.  The argument is about the variables of the card alone, so the   *)
(* steps of the other views, which share the alert, do not disturb it.     *)
(***************************************************************************)
EXTENDS Panels, FiniteSetTheorems, TLAPS

-----------------------------------------------------------------------------
CardType ==
  /\ catalog \subseteq Service /\ services \subseteq Service /\ selected \subseteq Service
  /\ stored \in [by : 0 .. MaxSave, selected : SUBSET Service]
  /\ policySaveVersion \in 0 .. MaxSave /\ policyBusy \in BOOLEAN
  /\ save \in [Save -> SaveState] /\ evaluating \in 0 .. MaxAsk /\ late \in BOOLEAN

\* The saves that were asked for are those up to the newest, which holds the selection.
Numbered ==
  /\ \A v \in Save : save[v].phase = "none" <=> v > policySaveVersion
  /\ policySaveVersion > 0 => save[policySaveVersion].snapshot = selected

\* A save leaves the page when every one before it has settled.
InOrder ==
  \A v \in Save : save[v].phase \in {"sent", "answered", "over"} =>
                    \A u \in 1 .. v - 1 : Settled(u)

\* The server holds the snapshot of a save of this page, or what it held before.
StoredIsSnapshot ==
  /\ stored.by <= policySaveVersion
  /\ stored.by > 0 => stored.selected = save[stored.by].snapshot

\* An accepted save was stored, and nothing older since; none is accepted unserved.
AcceptedIsStored ==
  /\ \A v \in Save : save[v].phase \in {"none", "queued", "sent"} => ~save[v].ok
  /\ \A v \in Save : save[v].lost => save[v].phase # "none"
  /\ ~late => \A v \in Save : save[v].ok => stored.by >= v

IInv == CardType /\ Numbered /\ InOrder /\ StoredIsSnapshot /\ AcceptedIsStored

-----------------------------------------------------------------------------
LEMMA NoSaveState == NoSave \in SaveState
  BY DEF NoSave, SaveState

LEMMA InitIInv == Init => IInv
  <1>. SUFFICES ASSUME Init PROVE IInv
    OBVIOUS
  <1>1. 0 \in 0 .. MaxSave /\ 0 \in 0 .. MaxAsk /\ MaxSave \in Nat
    BY PolicyPanelAssumption
  <1>2. save \in [Save -> SaveState] /\ \A v \in Save : save[v] = NoSave
    BY NoSaveState DEF Init
  <1>3. CardType
    <2>1. stored \in [by : 0 .. MaxSave, selected : SUBSET Service] /\ selected \subseteq Service
      BY <1>1 DEF Init
    <2>2. catalog \subseteq Service /\ services \subseteq Service
      BY DEF Init
    <2>. QED  BY <1>1, <1>2, <2>1, <2>2 DEF Init, CardType
  <1>4. Numbered /\ InOrder
    BY <1>2 DEF Init, Numbered, InOrder, NoSave, Save
  <1>5. StoredIsSnapshot /\ AcceptedIsStored
    BY <1>2 DEF Init, StoredIsSnapshot, AcceptedIsStored, NoSave
  <1>. QED  BY <1>3, <1>4, <1>5 DEF IInv

\* A click: the new save is the newest, and the last of the queue.
LEMMA QueueSaveIInv ==
    ASSUME IInv, NEW next \in SUBSET Service, QueueSave(next)
    PROVE  IInv'
  <1>. DEFINE n == policySaveVersion + 1
              new == [NoSave EXCEPT !.phase = "queued", !.snapshot = next]
  <1>1. n \in Save /\ n > policySaveVersion /\ policySaveVersion \in 0 .. MaxSave
    BY PolicyPanelAssumption DEF IInv, CardType, QueueSave, Save
  <1>2. new \in SaveState /\ new.phase = "queued" /\ new.snapshot = next /\ ~new.ok /\ ~new.lost
    BY DEF NoSave, SaveState
  <1>3. save' = [save EXCEPT ![n] = new]
    BY DEF QueueSave
  <1>. HIDE DEF new
  <1>4. /\ save' \in [Save -> SaveState] /\ save'[n] = new
        /\ \A v \in Save \ {n} : save'[v] = save[v]
    BY <1>1, <1>2, <1>3 DEF IInv, CardType
  <1>5. /\ policySaveVersion' = n /\ selected' = next /\ policyBusy' = TRUE
        /\ UNCHANGED <<catalog, stored, services, evaluating, late>>
    BY DEF QueueSave
  <1>6. CardType'
    BY <1>1, <1>4, <1>5 DEF IInv, CardType, Save
  <1>7. Numbered'
    BY <1>1, <1>2, <1>4, <1>5 DEF IInv, Numbered, Save
  <1>8. save[n].phase = "none"
    BY <1>1 DEF IInv, Numbered
  <1>9. InOrder'
    <2>. SUFFICES ASSUME NEW v \in Save, save'[v].phase \in {"sent", "answered", "over"},
                         NEW u \in 1 .. v - 1
                  PROVE  save'[u].phase = "over"
      BY DEF InOrder, Settled
    <2>1. v # n /\ u \in Save
      BY <1>2, <1>4, PolicyPanelAssumption DEF Save
    <2>2. save[u].phase = "over"
      BY <1>4, <2>1 DEF IInv, InOrder, Settled
    <2>. QED  BY <1>4, <1>8, <2>1, <2>2
  <1>10. stored.by \in 0 .. MaxSave /\ stored.by <= policySaveVersion
    BY DEF IInv, CardType, StoredIsSnapshot
  <1>11. StoredIsSnapshot'
    <2>1. stored.by > 0 => stored.by \in Save \ {n}
      BY <1>1, <1>10 DEF Save
    <2>. QED  BY <1>1, <1>4, <1>5, <1>10, <2>1 DEF IInv, StoredIsSnapshot
  <1>12. AcceptedIsStored'
    BY <1>2, <1>4, <1>5 DEF IInv, AcceptedIsStored
  <1>. QED  BY <1>6, <1>7, <1>9, <1>11, <1>12 DEF IInv

\* A step of a save that is already numbered keeps its number, its snapshot
\* and its place in the queue.
LEMMA KeepsPlace ==
    ASSUME IInv, NEW v \in Save, NEW r \in SaveState, save' = [save EXCEPT ![v] = r],
           r.snapshot = save[v].snapshot, save[v].phase # "none", r.phase # "none",
           r.phase # "queued" => \A u \in 1 .. v - 1 : Settled(u),
           save[v].phase = "over" => r.phase = "over",
           UNCHANGED <<catalog, services, selected, policySaveVersion>>
    PROVE  /\ save' \in [Save -> SaveState] /\ save'[v] = r
           /\ \A u \in Save \ {v} : save'[u] = save[u]
           /\ \A u \in Save : save'[u].snapshot = save[u].snapshot
           /\ Numbered' /\ InOrder'
  <1>1. save \in [Save -> SaveState]
    BY DEF IInv, CardType
  <1>2. /\ save' \in [Save -> SaveState] /\ save'[v] = r
        /\ \A u \in Save \ {v} : save'[u] = save[u]
    BY <1>1
  <1>3. \A u \in Save : /\ save'[u].snapshot = save[u].snapshot
                        /\ save'[u].phase = "none" <=> save[u].phase = "none"
                        /\ save[u].phase = "over" => save'[u].phase = "over"
    BY <1>2
  <1>4. Numbered'
    <2>1. policySaveVersion > 0 => policySaveVersion \in Save
      BY PolicyPanelAssumption DEF IInv, CardType, Save
    <2>. QED  BY <1>3, <2>1 DEF IInv, Numbered
  <1>5. InOrder'
    <2>. SUFFICES ASSUME NEW w \in Save, save'[w].phase \in {"sent", "answered", "over"},
                         NEW u \in 1 .. w - 1
                  PROVE  save'[u].phase = "over"
      BY DEF InOrder, Settled
    <2>1. u \in Save
      BY PolicyPanelAssumption DEF Save
    <2>2. save[u].phase = "over"
      <3>1. CASE w = v
        BY <1>2, <3>1 DEF Settled
      <3>2. CASE w # v
        BY <1>2, <3>2 DEF IInv, InOrder, Settled
      <3>. QED  BY <3>1, <3>2
    <2>. QED  BY <1>3, <2>1, <2>2
  <1>. QED  BY <1>2, <1>3, <1>4, <1>5

\* What is stored stays a snapshot of its save while nothing is stored.
LEMMA KeepsStored ==
    ASSUME IInv, save' \in [Save -> SaveState], stored' = stored,
           policySaveVersion' = policySaveVersion,
           \A u \in Save : save'[u].snapshot = save[u].snapshot
    PROVE  StoredIsSnapshot'
  <1>1. stored.by > 0 => stored.by \in Save
    BY PolicyPanelAssumption DEF IInv, CardType, Save
  <1>. QED  BY <1>1 DEF IInv, StoredIsSnapshot

\* Storing the snapshot of a numbered save.
LEMMA StoresSnapshot ==
    ASSUME IInv, NEW v \in Save, save[v].phase # "none", StoreSnapshot(v),
           policySaveVersion' = policySaveVersion,
           \A u \in Save : save'[u].snapshot = save[u].snapshot
    PROVE  /\ stored' \in [by : 0 .. MaxSave, selected : SUBSET Service]
           /\ stored'.by = v /\ StoredIsSnapshot'
  <1>1. stored'.by = v /\ stored'.selected = save[v].snapshot
    BY DEF StoreSnapshot
  <1>2. v <= policySaveVersion
    BY PolicyPanelAssumption DEF IInv, Numbered, CardType, Save
  <1>3. stored' \in [by : 0 .. MaxSave, selected : SUBSET Service]
    <2>1. save[v].snapshot \in SUBSET Service /\ v \in 0 .. MaxSave
      BY PolicyPanelAssumption DEF IInv, CardType, SaveState, Save
    <2>. QED  BY <2>1 DEF StoreSnapshot
  <1>. QED  BY <1>1, <1>2, <1>3 DEF StoredIsSnapshot

LEMMA SendIInv ==
    ASSUME IInv, NEW v \in Save, Send(v)
    PROVE  IInv'
  <1>. DEFINE r == [save[v] EXCEPT !.phase = "sent"]
  <1>1. save[v] \in SaveState /\ save[v].phase = "queued"
    BY DEF IInv, CardType, Send
  <1>2. /\ r \in SaveState /\ r.snapshot = save[v].snapshot /\ r.phase = "sent"
        /\ r.ok = save[v].ok /\ r.lost = save[v].lost
    BY <1>1 DEF SaveState
  <1>3. /\ save' = [save EXCEPT ![v] = r] /\ \A u \in 1 .. v - 1 : Settled(u)
        /\ UNCHANGED <<catalog, stored, services, selected, policySaveVersion, policyBusy,
                       evaluating, late>>
    BY DEF Send, page
  <1>. HIDE DEF r
  <1>4. /\ save' \in [Save -> SaveState] /\ save'[v] = r
        /\ \A u \in Save \ {v} : save'[u] = save[u]
        /\ \A u \in Save : save'[u].snapshot = save[u].snapshot
        /\ Numbered' /\ InOrder'
    BY <1>1, <1>2, <1>3, KeepsPlace
  <1>5. CardType' /\ StoredIsSnapshot'
    BY <1>3, <1>4, KeepsStored DEF IInv, CardType
  <1>6. AcceptedIsStored'
    BY <1>1, <1>2, <1>3, <1>4 DEF IInv, AcceptedIsStored
  <1>. QED  BY <1>4, <1>5, <1>6 DEF IInv

\* The server's answer: of an accepted save, that it is the latest stored.
LEMMA ServeIInv ==
    ASSUME IInv, NEW v \in Save, Serve(v)
    PROVE  IInv'
  <1>1. save[v] \in SaveState /\ save[v].phase = "sent" /\ ~save[v].ok /\ save[v].ok \in BOOLEAN
    BY DEF IInv, CardType, AcceptedIsStored, Serve, SaveState
  <1>2. PICK ok \in BOOLEAN :
          /\ save' = [save EXCEPT ![v] = [save[v] EXCEPT !.phase = "answered", !.ok = ok]]
          /\ StoreSnapshot(v) \/ (stored' = stored /\ ok = save[v].ok)
    <2>1. CASE Accepts(v) /\ StoreSnapshot(v)
               /\ \E ok \in BOOLEAN :
                    save' = [save EXCEPT ![v].phase = "answered", ![v].ok = ok]
      BY <2>1
    <2>2. CASE UNCHANGED stored /\ save' = [save EXCEPT ![v].phase = "answered"]
      <3>1. [save[v] EXCEPT !.phase = "answered"]
              = [save[v] EXCEPT !.phase = "answered", !.ok = save[v].ok]
        BY <1>1 DEF SaveState
      <3>. QED  BY <1>1, <2>2, <3>1
    <2>. QED  BY <2>1, <2>2 DEF Serve
  <1>. DEFINE r == [save[v] EXCEPT !.phase = "answered", !.ok = ok]
  <1>3. /\ r \in SaveState /\ r.snapshot = save[v].snapshot /\ r.phase = "answered"
        /\ r.ok = ok /\ r.lost = save[v].lost
    BY <1>1 DEF SaveState
  <1>4. /\ save' = [save EXCEPT ![v] = r]
        /\ UNCHANGED <<catalog, services, selected, policySaveVersion, policyBusy,
                       evaluating, late>>
    BY <1>2 DEF Serve, page
  <1>. HIDE DEF r
  <1>5. \A u \in 1 .. v - 1 : Settled(u)
    BY <1>1 DEF IInv, InOrder
  <1>6. /\ save' \in [Save -> SaveState] /\ save'[v] = r
        /\ \A u \in Save \ {v} : save'[u] = save[u]
        /\ \A u \in Save : save'[u].snapshot = save[u].snapshot
        /\ Numbered' /\ InOrder'
    BY <1>1, <1>3, <1>4, <1>5, KeepsPlace
  <1>7. \A u \in Save : u > v => ~save[u].ok
    <2>. SUFFICES ASSUME NEW u \in Save, u > v, save[u].ok PROVE FALSE
      OBVIOUS
    <2>1. save[u].phase \in {"answered", "over"}
      BY DEF IInv, CardType, AcceptedIsStored, SaveState
    <2>2. v \in 1 .. u - 1
      BY DEF Save
    <2>. QED  BY <1>1, <2>1, <2>2 DEF IInv, InOrder, Settled
  <1>8. CASE StoreSnapshot(v)
    <2>1. /\ stored' \in [by : 0 .. MaxSave, selected : SUBSET Service]
          /\ stored'.by = v /\ StoredIsSnapshot'
      BY <1>1, <1>4, <1>6, <1>8, StoresSnapshot
    <2>2. CardType'
      BY <1>4, <1>6, <2>1 DEF IInv, CardType
    <2>3. \A u \in Save : save'[u].ok => u <= v
      BY <1>6, <1>7 DEF Save
    <2>4. AcceptedIsStored'
      BY <1>3, <1>4, <1>6, <2>1, <2>3 DEF IInv, AcceptedIsStored
    <2>. QED  BY <1>6, <2>1, <2>2, <2>4 DEF IInv
  <1>9. CASE stored' = stored /\ ok = save[v].ok
    <2>1. CardType' /\ StoredIsSnapshot'
      BY <1>4, <1>6, <1>9, KeepsStored DEF IInv, CardType
    <2>2. AcceptedIsStored'
      BY <1>1, <1>3, <1>4, <1>6, <1>9 DEF IInv, AcceptedIsStored
    <2>. QED  BY <1>6, <2>1, <2>2 DEF IInv
  <1>. QED  BY <1>2, <1>8, <1>9

LEMMA LoseIInv ==
    ASSUME IInv, NEW v \in Save, Lose(v)
    PROVE  IInv'
  <1>. DEFINE r == [save[v] EXCEPT !.phase = "answered", !.lost = TRUE]
  <1>1. save[v] \in SaveState /\ save[v].phase = "sent" /\ ~save[v].ok
    BY DEF IInv, CardType, AcceptedIsStored, Lose
  <1>2. /\ r \in SaveState /\ r.snapshot = save[v].snapshot /\ r.phase = "answered"
        /\ r.ok = save[v].ok
    BY <1>1 DEF SaveState
  <1>3. /\ save' = [save EXCEPT ![v] = r]
        /\ UNCHANGED <<catalog, stored, services, selected, policySaveVersion, policyBusy,
                       evaluating, late>>
    BY DEF Lose, page
  <1>. HIDE DEF r
  <1>4. \A u \in 1 .. v - 1 : Settled(u)
    BY <1>1 DEF IInv, InOrder
  <1>5. /\ save' \in [Save -> SaveState] /\ save'[v] = r
        /\ \A u \in Save \ {v} : save'[u] = save[u]
        /\ \A u \in Save : save'[u].snapshot = save[u].snapshot
        /\ Numbered' /\ InOrder'
    BY <1>1, <1>2, <1>3, <1>4, KeepsPlace
  <1>6. CardType' /\ StoredIsSnapshot'
    BY <1>3, <1>5, KeepsStored DEF IInv, CardType
  <1>7. AcceptedIsStored'
    BY <1>1, <1>2, <1>3, <1>5 DEF IInv, AcceptedIsStored
  <1>. QED  BY <1>5, <1>6, <1>7 DEF IInv

LEMMA ServeLateIInv ==
    ASSUME IInv, NEW v \in Save, ServeLate(v)
    PROVE  IInv'
  <1>. DEFINE r == [save[v] EXCEPT !.lost = FALSE]
  <1>1. save[v] \in SaveState /\ save[v].phase # "none"
    BY DEF IInv, CardType, AcceptedIsStored, ServeLate
  <1>2. /\ r \in SaveState /\ r.snapshot = save[v].snapshot /\ r.phase = save[v].phase
        /\ r.ok = save[v].ok /\ ~r.lost
    BY <1>1 DEF SaveState
  <1>3. /\ save' = [save EXCEPT ![v] = r] /\ late' = TRUE /\ StoreSnapshot(v)
        /\ UNCHANGED <<catalog, services, selected, policySaveVersion, policyBusy, evaluating>>
    BY DEF ServeLate, page
  <1>. HIDE DEF r
  <1>4. r.phase # "queued" => \A u \in 1 .. v - 1 : Settled(u)
    <2>1. save[v].phase # "queued" => save[v].phase \in {"sent", "answered", "over"}
      BY <1>1 DEF SaveState
    <2>. QED  BY <1>2, <2>1 DEF IInv, InOrder
  <1>5. /\ save' \in [Save -> SaveState] /\ save'[v] = r
        /\ \A u \in Save \ {v} : save'[u] = save[u]
        /\ \A u \in Save : save'[u].snapshot = save[u].snapshot
        /\ Numbered' /\ InOrder'
    BY <1>1, <1>2, <1>3, <1>4, KeepsPlace
  <1>6. /\ stored' \in [by : 0 .. MaxSave, selected : SUBSET Service]
        /\ StoredIsSnapshot'
    BY <1>1, <1>3, <1>5, StoresSnapshot
  <1>7. CardType'
    BY <1>3, <1>5, <1>6 DEF IInv, CardType
  <1>8. AcceptedIsStored'
    BY <1>2, <1>3, <1>5 DEF IInv, AcceptedIsStored
  <1>. QED  BY <1>5, <1>6, <1>7, <1>8 DEF IInv

LEMMA ReturnIInv ==
    ASSUME IInv, NEW v \in Save, Return(v)
    PROVE  IInv'
  <1>. DEFINE r == [save[v] EXCEPT !.phase = "over"]
  <1>1. save[v] \in SaveState /\ save[v].phase = "answered"
    BY DEF IInv, CardType, Return
  <1>2. /\ r \in SaveState /\ r.snapshot = save[v].snapshot /\ r.phase = "over"
        /\ r.ok = save[v].ok /\ r.lost = save[v].lost
    BY <1>1 DEF SaveState
  <1>3. /\ save' = [save EXCEPT ![v] = r] /\ policyBusy' \in {FALSE, policyBusy}
        /\ UNCHANGED <<catalog, stored, services, selected, policySaveVersion,
                       evaluating, late>>
    BY DEF Return
  <1>. HIDE DEF r
  <1>4. \A u \in 1 .. v - 1 : Settled(u)
    BY <1>1 DEF IInv, InOrder
  <1>5. /\ save' \in [Save -> SaveState] /\ save'[v] = r
        /\ \A u \in Save \ {v} : save'[u] = save[u]
        /\ \A u \in Save : save'[u].snapshot = save[u].snapshot
        /\ Numbered' /\ InOrder'
    BY <1>1, <1>2, <1>3, <1>4, KeepsPlace
  <1>6. policyBusy' \in BOOLEAN
    BY <1>3, Zenon DEF IInv, CardType
  <1>7. CardType' /\ StoredIsSnapshot'
    BY <1>3, <1>5, <1>6, KeepsStored DEF IInv, CardType
  <1>8. AcceptedIsStored'
    BY <1>1, <1>2, <1>3, <1>5 DEF IInv, AcceptedIsStored
  <1>. QED  BY <1>5, <1>7, <1>8 DEF IInv

\* The steps that leave every save and what is stored alone.
LEMMA OtherIInv ==
    ASSUME IInv, EvaluatePolicy \/ EvaluateReturn \/ CatalogChange \/ UNCHANGED policyVars
    PROVE  IInv'
  <1>1. /\ UNCHANGED <<stored, services, selected, policySaveVersion, save, late>>
        /\ catalog' \subseteq Service /\ policyBusy' \in BOOLEAN
        /\ evaluating' \in 0 .. MaxAsk
    <2>1. CASE EvaluatePolicy
      BY <2>1, PolicyPanelAssumption DEF EvaluatePolicy, IInv, CardType
    <2>2. CASE EvaluateReturn
      <3>1. /\ evaluating > 0 /\ evaluating' = evaluating - 1 /\ policyBusy' = FALSE
            /\ UNCHANGED <<catalog, stored, services, selected, policySaveVersion, save, late>>
        BY <2>2 DEF EvaluateReturn
      <3>2. evaluating' \in 0 .. MaxAsk
        BY <3>1, PolicyPanelAssumption DEF IInv, CardType
      <3>. QED  BY <3>1, <3>2 DEF IInv, CardType
    <2>3. CASE CatalogChange
      BY <2>3 DEF CatalogChange, page, IInv, CardType
    <2>4. CASE UNCHANGED policyVars
      BY <2>4 DEF policyVars, IInv, CardType
    <2>. QED  BY <2>1, <2>2, <2>3, <2>4
  <1>. QED  BY <1>1 DEF IInv, CardType, Numbered, InOrder, StoredIsSnapshot,
                        AcceptedIsStored, Settled

LEMMA UserIInv == IInv /\ User => IInv'
  <1>. SUFFICES ASSUME IInv, User PROVE IInv'
    OBVIOUS
  <1>1. selected \subseteq Service /\ services \subseteq Service
    BY DEF IInv, CardType
  <1>2. CASE ToggleOperatorService
    <2>1. PICK s \in services, checked \in BOOLEAN :
            QueueSave(ToggleSelection(selected, s, checked))
      BY <1>2 DEF ToggleOperatorService
    <2>2. ToggleSelection(selected, s, checked) \in SUBSET Service
      BY <1>1 DEF ToggleSelection
    <2>. QED  BY <2>1, <2>2, QueueSaveIInv
  <1>3. CASE ToggleOperatorServiceGroup
    <2>1. PICK g \in {h \cap services : h \in Group} \ {{}} :
            QueueSave(ToggleGroupSelection(selected, g, g \cap selected = {}))
      BY <1>3 DEF ToggleOperatorServiceGroup
    <2>2. ToggleGroupSelection(selected, g, g \cap selected = {}) \in SUBSET Service
      BY <1>1 DEF ToggleGroupSelection
    <2>. QED  BY <2>1, <2>2, QueueSaveIInv
  <1>4. CASE EvaluatePolicy
    BY <1>4, OtherIInv
  <1>. QED  BY <1>2, <1>3, <1>4 DEF User

LEMMA StepIInv == IInv /\ (Next \/ UNCHANGED policyVars) => IInv'
  <1>. SUFFICES ASSUME IInv, Next \/ UNCHANGED policyVars PROVE IInv'
    OBVIOUS
  <1>1. ASSUME NEW v \in Save, Send(v) \/ Serve(v) \/ Lose(v) \/ ServeLate(v) \/ Return(v)
        PROVE  IInv'
    BY <1>1, SendIInv, ServeIInv, LoseIInv, ServeLateIInv, ReturnIInv
  <1>2. CASE EvaluateReturn \/ CatalogChange \/ UNCHANGED policyVars
    BY <1>2, OtherIInv
  <1>. QED  BY <1>1, <1>2, UserIInv DEF Next, Deliver

-----------------------------------------------------------------------------
\* In an accepted state of the newest save, the server holds the selection.
LEMMA AcceptedIsInForce == IInv => LastSaveWins
  <1>. SUFFICES ASSUME IInv, policySaveVersion > 0, save[policySaveVersion].ok, ~late
                PROVE  stored = [by |-> policySaveVersion, selected |-> selected]
    BY DEF LastSaveWins
  <1>1. policySaveVersion \in Save
    BY PolicyPanelAssumption DEF IInv, CardType, Save
  <1>2. /\ stored \in [by : 0 .. MaxSave, selected : SUBSET Service]
        /\ stored.by = policySaveVersion
    BY <1>1 DEF IInv, CardType, AcceptedIsStored, StoredIsSnapshot, Save
  <1>3. stored.selected = selected
    BY <1>1, <1>2 DEF IInv, StoredIsSnapshot, Numbered
  <1>. QED  BY <1>2, <1>3

\* Alone, the card's alert of a failed save is the newest one's.
ErrorInv ==
  /\ error \in Alert
  /\ error.by = "save" => /\ error.call = policySaveVersion /\ error.call \in Save
                          /\ save[error.call].phase = "over" /\ ~save[error.call].ok

LEMMA StepErrorInv == IInv /\ ErrorInv /\ [Next]_vars => ErrorInv'
  <1>. SUFFICES ASSUME IInv, ErrorInv, [Next]_vars PROVE ErrorInv'
    OBVIOUS
  <1>. DEFINE Blank(e) == e \in Alert /\ e.by # "save"
  <1>1. Blank(NoError) /\ Blank([by |-> "evaluate", call |-> 0])
    BY DEF NoError, Alert
  <1>2. CASE Blank(error')
    BY <1>2 DEF ErrorInv
  <1>3. CASE error' = error /\ UNCHANGED <<policySaveVersion, save>>
    BY <1>3 DEF ErrorInv
  <1>4. ASSUME NEW v \in Save, Send(v) \/ Serve(v) \/ Lose(v) \/ ServeLate(v) PROVE ErrorInv'
    <2>1. /\ error' = error /\ policySaveVersion' = policySaveVersion
          /\ save \in [Save -> SaveState]
      BY <1>4 DEF Send, Serve, Lose, ServeLate, page, IInv, CardType
    <2>2. ASSUME NEW u \in Save, save[u].phase = "over"
          PROVE  save'[u].phase = "over" /\ save'[u].ok = save[u].ok
      <3>1. CASE u # v
        <4>1. PICK r : save' = [save EXCEPT ![v] = r]
          BY <1>4 DEF Send, Serve, Lose, ServeLate
        <4>. QED  BY <2>1, <2>2, <3>1, <4>1
      <3>2. CASE u = v
        <4>1. ServeLate(v) /\ save[v] \in SaveState
          BY <1>4, <2>1, <2>2, <3>2 DEF Send, Serve, Lose
        <4>. QED  BY <2>1, <2>2, <3>2, <4>1 DEF ServeLate, SaveState
      <3>. QED  BY <3>1, <3>2
    <2>. QED  BY <2>1, <2>2 DEF ErrorInv
  <1>5. ASSUME NEW v \in Save, Return(v) PROVE ErrorInv'
    <2>1. save \in [Save -> SaveState] /\ save[v] \in SaveState /\ save[v].phase = "answered"
      BY <1>5 DEF IInv, CardType, Return
    <2>2. /\ save'[v].phase = "over" /\ save'[v].ok = save[v].ok
          /\ \A u \in Save \ {v} : save'[u] = save[u]
          /\ policySaveVersion' = policySaveVersion
      BY <1>5, <2>1 DEF Return, SaveState
    <2>3. CASE error' = error
      BY <2>1, <2>2, <2>3 DEF ErrorInv
    <2>4. CASE v = policySaveVersion /\ ~save[v].ok /\ error' = [by |-> "save", call |-> v]
      <3>1. v \in Nat
        BY DEF Save
      <3>. QED  BY <2>1, <2>2, <2>4, <3>1 DEF ErrorInv, Alert
    <2>. QED  BY <1>5, <2>3, <2>4, Zenon DEF Return
  <1>6. ASSUME NEW next, QueueSave(next) PROVE ErrorInv'
    BY <1>1, <1>2, <1>6 DEF QueueSave
  <1>7. CASE EvaluatePolicy \/ CatalogChange \/ UNCHANGED vars
    BY <1>3, <1>7 DEF EvaluatePolicy, CatalogChange, vars, policyVars, page
  <1>8. CASE EvaluateReturn
    BY <1>1, <1>2, <1>3, <1>8, Zenon DEF EvaluateReturn
  <1>. QED  BY <1>4, <1>5, <1>6, <1>7, <1>8
            DEF Next, User, Deliver, ToggleOperatorService, ToggleOperatorServiceGroup

LEMMA CardInvariant == Spec => [](IInv /\ ErrorInv)
  <1>1. Init => IInv /\ ErrorInv
    BY InitIInv DEF Init, ErrorInv, NoError, Alert
  <1>2. IInv /\ ErrorInv /\ [Next]_vars => IInv' /\ ErrorInv'
    <2>1. [Next]_vars => Next \/ UNCHANGED policyVars
      BY DEF vars
    <2>. QED  BY <2>1, StepIInv, StepErrorInv
  <1>. QED  BY <1>1, <1>2, PTL DEF Spec

\* Every variable of the card keeps its domain.
THEOREM CardTypeCorrect == Spec => []TypeOK
  <1>. IInv /\ ErrorInv => TypeOK
    BY DEF IInv, CardType, ErrorInv, TypeOK
  <1>. QED  BY CardInvariant, PTL

\* A save that fails is only named while its selection is on the screen.
THEOREM SaveErrors == Spec => []SaveErrorIsNewest
  <1>. IInv /\ ErrorInv => SaveErrorIsNewest
    BY DEF ErrorInv, SaveErrorIsNewest
  <1>. QED  BY CardInvariant, PTL

-----------------------------------------------------------------------------
\* Whatever another view does, the card takes a step of its own or none.
LEMMA CardStep == [PanelsNext]_panels => Next \/ UNCHANGED policyVars
  <1>1. CASE Use
    BY <1>1 DEF Use, Policy, Development, Asking, Next
  <1>2. CASE SetView
    BY <1>2 DEF SetView
  <1>3. CASE SaveStep
    BY <1>3 DEF SaveStep, Policy, Next, Deliver
  <1>4. CASE Evaluated
    BY <1>4 DEF Evaluated, Policy, Next, Deliver
  <1>5. CASE WatchStep
    BY <1>5 DEF WatchStep, Development
  <1>6. CASE Answered
    BY <1>6 DEF Answered, Asking
  <1>7. CASE Elsewhere
    BY <1>7 DEF Elsewhere, Policy, Development, Next, Deliver
  <1>8. CASE UNCHANGED panels
    BY <1>8 DEF panels, vars
  <1>. QED  BY <1>1, <1>2, <1>3, <1>4, <1>5, <1>6, <1>7, <1>8 DEF PanelsNext

\* Among all the views: once the newest save was accepted, and unless a request
\* the browser gave up on is served late, the policy in force is the one shown.
THEOREM LastClickWins == PanelsSpec => []LastSaveWins
  <1>1. PanelsInit => IInv
    BY InitIInv DEF PanelsInit
  <1>2. IInv /\ [PanelsNext]_panels => IInv'
    BY CardStep, StepIInv
  <1>. QED  BY <1>1, <1>2, AcceptedIsInForce, PTL DEF PanelsSpec

-----------------------------------------------------------------------------
(***************************************************************************)
(* The console's progress is written by the poll of any run and by a start *)
(* of another, so nothing ties it to one run.  What holds is about all of  *)
(* them: whoever leaves the progress on a job that goes on is itself a run *)
(* that goes on, and a run only goes past its watch by writing an end.     *)
(***************************************************************************)
RunState == [phase : Console!Phase, age : Nat, list : SUBSET Console!Run]
PastWatch == {"finished", "listing", "over"}
Ends == {"completed", "warning", "error"}

ConsoleInv ==
  /\ run \in [Console!Run -> RunState]
  /\ Console!Started # {} /\ (\A r \in Console!Started : run[r].phase \in PastWatch)
       => developmentProgress.status \in Ends

LEMMA InitConsoleInv == Console!Init => ConsoleInv
  <1>. SUFFICES ASSUME Console!Init PROVE ConsoleInv
    OBVIOUS
  <1>. DEFINE none == [phase |-> "none", age |-> 0, list |-> {}]
  <1>1. run = [r \in Console!Run |-> none] /\ none \in RunState
    BY DEF Console!Init, RunState, Console!Phase
  <1>2. Console!Started = {}
    BY <1>1 DEF Console!Started
  <1>. QED  BY <1>1, <1>2 DEF ConsoleInv

\* A run that is not past its watch says that nothing is claimed of the progress.
LEMMA OnItsWay ==
    ASSUME run \in [Console!Run -> RunState], NEW r \in Console!Run, NEW rec \in RunState,
           run' = [run EXCEPT ![r] = rec], rec.phase \notin PastWatch, rec.phase # "none"
    PROVE  ConsoleInv'
  <1>1. run' \in [Console!Run -> RunState] /\ run'[r] = rec
    OBVIOUS
  <1>2. r \in Console!Started'
    BY <1>1 DEF Console!Started
  <1>. QED  BY <1>1, <1>2 DEF ConsoleInv

\* A run that was past its watch and stays there leaves the others as they were.
LEMMA StaysPast ==
    ASSUME ConsoleInv, NEW r \in Console!Run, NEW rec \in RunState,
           run[r].phase \in PastWatch, rec.phase \in PastWatch,
           run' = [run EXCEPT ![r] = rec], developmentProgress' = developmentProgress
    PROVE  ConsoleInv'
  <1>1. run \in [Console!Run -> RunState]
    BY DEF ConsoleInv
  <1>2. /\ run' \in [Console!Run -> RunState] /\ run'[r] = rec
        /\ \A u \in Console!Run \ {r} : run'[u] = run[u]
    BY <1>1
  <1>3. r \in Console!Started /\ Console!Started' = Console!Started
    BY <1>2 DEF Console!Started, PastWatch
  <1>4. (\A u \in Console!Started : run'[u].phase \in PastWatch)
          => \A u \in Console!Started : run[u].phase \in PastWatch
    BY <1>2 DEF Console!Started
  <1>. QED  BY <1>2, <1>3, <1>4 DEF ConsoleInv

\* The instance brings its own name of the operator of FiniteSets.
LEMMA SameCardinality == ASSUME NEW S PROVE Console!Cardinality(S) = Cardinality(S)
  BY DEF Console!Cardinality, Cardinality

\* A start puts the next run on its way.
LEMMA StartsOne ==
    ASSUME Console!User
    PROVE  \E r \in Console!Run : run' = [run EXCEPT ![r] = [run[r] EXCEPT !.phase = "posting"]]
  <1>. DEFINE r == Console!Cardinality(Console!Started) + 1
  <1>1. Console!Start
    BY DEF Console!User, Console!RunDevelopment, Console!RetryDevelopment
  <1>2. r \in Console!Run
    <2>1. IsFiniteSet(Console!Started)
      <3>1. Console!Started \subseteq 1 .. MaxRun /\ 1 \in Int /\ MaxRun \in Int
        BY PanelsAssumption DEF Console!Started, Console!Run
      <3>. QED  BY <3>1, FS_Interval, FS_Subset
    <2>2. Console!Cardinality(Console!Started) \in Nat
      BY <2>1, FS_CardinalityType, SameCardinality
    <2>3. r <= MaxRun
      BY <1>1 DEF Console!Start
    <2>. QED  BY <2>2, <2>3, PanelsAssumption DEF Console!Run
  <1>3. run' = [run EXCEPT ![r] = [run[r] EXCEPT !.phase = "posting"]]
    BY <1>1 DEF Console!Start
  <1>. QED  BY <1>2, <1>3

LEMMA StartConsoleInv == ConsoleInv /\ Console!User => ConsoleInv'
  <1>. SUFFICES ASSUME ConsoleInv, Console!User PROVE ConsoleInv'
    OBVIOUS
  <1>1. PICK r \in Console!Run : run' = [run EXCEPT ![r] = [run[r] EXCEPT !.phase = "posting"]]
    BY StartsOne
  <1>. DEFINE rec == [run[r] EXCEPT !.phase = "posting"]
  <1>2. run \in [Console!Run -> RunState] /\ run' = [run EXCEPT ![r] = rec]
    BY <1>1 DEF ConsoleInv
  <1>3. rec \in RunState /\ rec.phase = "posting"
    BY <1>2 DEF RunState, Console!Phase
  <1>. HIDE DEF rec
  <1>. QED  BY <1>2, <1>3, OnItsWay DEF PastWatch

LEMMA FailConsoleInv ==
    ASSUME ConsoleInv, NEW r \in Console!Run, Console!Fail(r)
    PROVE  ConsoleInv'
  <1>. DEFINE rec == [run[r] EXCEPT !.phase = "failed", !.age = 0]
  <1>1. run \in [Console!Run -> RunState] /\ run' = [run EXCEPT ![r] = rec]
    BY DEF ConsoleInv, Console!Fail
  <1>2. rec \in RunState /\ rec.phase = "failed"
    BY <1>1 DEF RunState, Console!Phase
  <1>. HIDE DEF rec
  <1>. QED  BY <1>1, <1>2, OnItsWay DEF PastWatch

\* The first poll that sees an end writes it; any other leaves its run waiting.
LEMMA PollConsoleInv ==
    ASSUME ConsoleInv, NEW r \in Console!Run, Console!Poll(r)
    PROVE  ConsoleInv'
  <1>1. CASE Console!Fail(r)
    BY <1>1, FailConsoleInv
  <1>2. CASE ~Console!Fail(r)
    <2>. DEFINE rec == [run[r] EXCEPT !.phase = IF Console!EndsWatch(job[r].status)
                                                THEN "finished" ELSE "waiting"]
    <2>1. /\ run \in [Console!Run -> RunState] /\ run' = [run EXCEPT ![r] = rec]
          /\ developmentProgress' = [status |-> job[r].status, job |-> r]
      BY <1>2 DEF ConsoleInv, Console!Poll
    <2>2. rec \in RunState
      BY <2>1 DEF RunState, Console!Phase
    <2>3. rec.phase = IF Console!EndsWatch(job[r].status) THEN "finished" ELSE "waiting"
      BY <2>1 DEF RunState
    <2>. HIDE DEF rec
    <2>4. CASE Console!EndsWatch(job[r].status)
      <3>1. developmentProgress'.status \in Ends
        BY <2>1, <2>4 DEF Console!EndsWatch, Ends
      <3>2. run' \in [Console!Run -> RunState]
        BY <2>1, <2>2
      <3>. QED  BY <3>1, <3>2 DEF ConsoleInv
    <2>5. CASE ~Console!EndsWatch(job[r].status)
      BY <2>1, <2>2, <2>3, <2>5, OnItsWay DEF PastWatch
    <2>. QED  BY <2>4, <2>5
  <1>. QED  BY <1>1, <1>2

LEMMA WatchConsoleInv ==
    ASSUME ConsoleInv, serverReports \subseteq Console!Run, NEW r \in Console!Run,
           Console!Watch(r)
    PROVE  ConsoleInv'
  <1>0. run \in [Console!Run -> RunState] /\ run[r] \in RunState
    BY DEF ConsoleInv
  <1>1. CASE Console!Fail(r)
    BY <1>1, FailConsoleInv
  <1>2. CASE Console!Queue(r) /\ ~Console!Fail(r)
    <2>. DEFINE rec == [run[r] EXCEPT !.phase = "asking"]
    <2>1. run' = [run EXCEPT ![r] = rec]
      BY <1>2 DEF Console!Queue
    <2>2. rec \in RunState /\ rec.phase = "asking"
      BY <1>0 DEF RunState, Console!Phase
    <2>. HIDE DEF rec
    <2>. QED  BY <1>0, <2>1, <2>2, OnItsWay DEF PastWatch
  <1>3. CASE Console!Poll(r)
    BY <1>3, PollConsoleInv
  <1>4. CASE Console!Wait(r) /\ ~Console!Fail(r)
    <2>. DEFINE age == run[r].age + 1
                rec == [run[r] EXCEPT !.phase = "asking", !.age = age]
    <2>1. run' = [run EXCEPT ![r] = rec]
      BY <1>4 DEF Console!Wait
    <2>2. age \in Nat
      BY <1>0 DEF RunState
    <2>. HIDE DEF age
    <2>3. rec \in RunState /\ rec.phase = "asking"
      BY <1>0, <2>2 DEF RunState, Console!Phase
    <2>. HIDE DEF rec
    <2>. QED  BY <1>0, <2>1, <2>3, OnItsWay DEF PastWatch
  <1>5. CASE Console!ListReports(r)
    <2>. DEFINE rec == [run[r] EXCEPT !.phase = "listing", !.list = serverReports]
    <2>1. /\ run' = [run EXCEPT ![r] = rec] /\ run[r].phase \in PastWatch
          /\ developmentProgress' = developmentProgress
      BY <1>5 DEF Console!ListReports, Console!evidence, PastWatch
    <2>2. rec \in RunState /\ rec.phase = "listing"
      BY <1>0, serverReports \subseteq Console!Run DEF RunState, Console!Phase
    <2>. HIDE DEF rec
    <2>. QED  BY <2>1, <2>2, StaysPast DEF PastWatch
  <1>6. CASE Console!Finish(r)
    <2>. DEFINE rec == [run[r] EXCEPT !.phase = "over", !.age = 0, !.list = {}]
    <2>1. /\ run' = [run EXCEPT ![r] = rec] /\ run[r].phase \in PastWatch
          /\ developmentProgress' = developmentProgress
      BY <1>6 DEF Console!Finish, Console!evidence, PastWatch
    <2>2. rec \in RunState /\ rec.phase = "over"
      BY <1>0 DEF RunState, Console!Phase
    <2>. HIDE DEF rec
    <2>. QED  BY <2>1, <2>2, StaysPast DEF PastWatch
  <1>. QED  BY <1>1, <1>2, <1>3, <1>4, <1>5, <1>6 DEF Console!Watch

\* What the server keeps is a report of a job of the console.
ReportsInv == serverReports \subseteq Console!Run /\ ConsoleInv

\* The step of another view, or of the server, disturbs no run.
LEMMA ElsewhereConsoleInv ==
    ASSUME ConsoleInv, UNCHANGED <<run, developmentProgress>>
    PROVE  ConsoleInv'
  BY DEF ConsoleInv, Console!Started

LEMMA ConsoleStep ==
    ASSUME ReportsInv, Console!Next \/ UNCHANGED console
    PROVE  ReportsInv'
  <1>1. CASE Console!User
    <2>1. serverReports' = serverReports
      BY <1>1 DEF Console!User, Console!RunDevelopment, Console!RetryDevelopment,
                  Console!Start, Console!server
    <2>. QED  BY <1>1, <2>1, StartConsoleInv DEF ReportsInv
  <1>2. ASSUME NEW r \in Console!Run, Console!Watch(r) PROVE ReportsInv'
    <2>1. serverReports' = serverReports
      BY <1>2 DEF Console!Watch, Console!Queue, Console!Poll, Console!Wait,
                  Console!ListReports, Console!Finish, Console!server
    <2>. QED  BY <1>2, <2>1, WatchConsoleInv DEF ReportsInv
  <1>3. ASSUME NEW r \in Console!Run, Console!JobStep(r) PROVE ReportsInv'
    <2>1. serverReports' \in {serverReports, serverReports \cup {r}}
      BY <1>3, Zenon DEF Console!JobStep
    <2>2. UNCHANGED <<run, developmentProgress>>
      BY <1>3 DEF Console!JobStep, Console!evidence
    <2>. QED  BY <2>1, <2>2, ElsewhereConsoleInv DEF ReportsInv
  <1>4. CASE UNCHANGED console
    BY <1>4, ElsewhereConsoleInv DEF console, ReportsInv
  <1>. QED  BY <1>1, <1>2, <1>3, <1>4 DEF Console!Next

\* Whatever another view does, the console takes a step of its own or none.
LEMMA PanelsConsoleStep == [PanelsNext]_panels => Console!Next \/ UNCHANGED console
  <1>1. CASE Use
    BY <1>1 DEF Use, Policy, Development, Asking, Console!Next
  <1>2. CASE SetView
    BY <1>2 DEF SetView
  <1>3. CASE SaveStep \/ Evaluated
    BY <1>3 DEF SaveStep, Evaluated, Policy
  <1>4. CASE WatchStep
    BY <1>4 DEF WatchStep, Development, Console!Next
  <1>5. CASE Answered
    BY <1>5 DEF Answered, Asking
  <1>6. CASE Elsewhere
    BY <1>6 DEF Elsewhere, Policy, Development, Console!Next
  <1>7. CASE UNCHANGED panels
    BY <1>7 DEF panels
  <1>. QED  BY <1>1, <1>2, <1>3, <1>4, <1>5, <1>6, <1>7 DEF PanelsNext

\* However the runs of several clicks and the other views interleave: once every
\* run is over and none failed, the console shows the end of a job.
THEOREM ConsoleComesToAnEnd == PanelsSpec => []NoGhostProgress
  <1>1. PanelsInit => ReportsInv
    <2>1. PanelsInit => Console!Init
      BY DEF PanelsInit
    <2>. QED  BY <2>1, InitConsoleInv DEF Console!Init, ReportsInv
  <1>2. ReportsInv /\ [PanelsNext]_panels => ReportsInv'
    BY PanelsConsoleStep, ConsoleStep
  <1>3. ReportsInv => NoGhostProgress
    BY DEF ReportsInv, ConsoleInv, NoGhostProgress, Console!NoGhostProgress, PastWatch, Ends
  <1>. QED  BY <1>1, <1>2, <1>3, PTL DEF PanelsSpec

-----------------------------------------------------------------------------
(***************************************************************************)
(* The flags.  A finally block clears the flag of its panel whoever set it *)
(* since, so a flag may go out too early; it never stays on by itself.     *)
(* For the card that rests on the order of the saves: the handler of an    *)
(* older one leaves the flag alone, because the newest is still to come.   *)
(***************************************************************************)
CardFlag ==
  policyBusy => \/ evaluating > 0
                \/ policySaveVersion > 0 /\ save[policySaveVersion].phase # "over"

ConsoleFlag == developmentBusy => Console!Running # {}

\* A call that is not of the audit log holds the flag of its panel, alone.
InquiriesFlags ==
  /\ busy \in [Asks!Panel -> BOOLEAN] /\ \A a \in asked : a.panel \in Asks!Panel
  /\ \A p \in Asks!Panel : busy[p] => \E a \in asked : a.panel = p
  /\ \A a \in asked : a.panel # "audit" => busy[a.panel]
  /\ \A a, b \in asked : a.panel = b.panel /\ a.panel # "audit" => a = b

LEMMA CardFlagStep ==
    ASSUME IInv, CardFlag, Next \/ UNCHANGED policyVars
    PROVE  CardFlag'
  <1>1. save \in [Save -> SaveState] /\ policySaveVersion \in Nat /\ evaluating \in Nat
    BY PolicyPanelAssumption DEF IInv, CardType
  <1>2. CASE UNCHANGED <<policyBusy, evaluating, policySaveVersion, save>>
    BY <1>2 DEF CardFlag
  <1>3. ASSUME NEW next, QueueSave(next) PROVE CardFlag'
    <2>. DEFINE n == policySaveVersion + 1
                new == [NoSave EXCEPT !.phase = "queued", !.snapshot = next]
    <2>1. n \in Save /\ save' = [save EXCEPT ![n] = new] /\ policySaveVersion' = n
      BY <1>1, <1>3, PolicyPanelAssumption DEF QueueSave, Save
    <2>2. new.phase = "queued"
      BY DEF NoSave
    <2>. HIDE DEF new
    <2>3. save'[n].phase = "queued"
      BY <1>1, <2>1, <2>2
    <2>. QED  BY <1>1, <2>1, <2>3 DEF CardFlag
  <1>4. CASE EvaluatePolicy
    BY <1>1, <1>4 DEF EvaluatePolicy, CardFlag
  <1>5. CASE EvaluateReturn
    BY <1>5 DEF EvaluateReturn, CardFlag
  <1>6. CASE CatalogChange
    BY <1>2, <1>6 DEF CatalogChange, page
  <1>7. ASSUME NEW v \in Save, Send(v) \/ Serve(v) \/ Lose(v) \/ ServeLate(v) PROVE CardFlag'
    <2>1. UNCHANGED <<policyBusy, evaluating, policySaveVersion>>
      BY <1>7 DEF Send, Serve, Lose, ServeLate, page
    <2>2. PICK r : save' = [save EXCEPT ![v] = r] /\ (save[v].phase # "over" => r.phase # "over")
      <3>1. save[v] \in SaveState
        BY <1>1
      <3>2. CASE Send(v)
        <4>1. save' = [save EXCEPT ![v] = [save[v] EXCEPT !.phase = "sent"]]
          BY <3>2 DEF Send
        <4>2. [save[v] EXCEPT !.phase = "sent"].phase = "sent"
          BY <3>1 DEF SaveState
        <4>. QED  BY <4>1, <4>2
      <3>3. CASE Serve(v)
        <4>1. \/ \E ok \in BOOLEAN :
                   save' = [save EXCEPT ![v] = [save[v] EXCEPT !.phase = "answered", !.ok = ok]]
              \/ save' = [save EXCEPT ![v] = [save[v] EXCEPT !.phase = "answered"]]
          BY <3>3 DEF Serve
        <4>2. /\ [save[v] EXCEPT !.phase = "answered"].phase = "answered"
              /\ \A ok : [save[v] EXCEPT !.phase = "answered", !.ok = ok].phase = "answered"
          BY <3>1 DEF SaveState
        <4>. QED  BY <4>1, <4>2
      <3>4. CASE Lose(v)
        <4>1. save' = [save EXCEPT ![v] = [save[v] EXCEPT !.phase = "answered", !.lost = TRUE]]
          BY <3>4 DEF Lose
        <4>2. [save[v] EXCEPT !.phase = "answered", !.lost = TRUE].phase = "answered"
          BY <3>1 DEF SaveState
        <4>. QED  BY <4>1, <4>2
      <3>5. CASE ServeLate(v)
        <4>1. save' = [save EXCEPT ![v] = [save[v] EXCEPT !.lost = FALSE]]
          BY <3>5 DEF ServeLate
        <4>2. [save[v] EXCEPT !.lost = FALSE].phase = save[v].phase
          BY <3>1 DEF SaveState
        <4>. QED  BY <4>1, <4>2
      <3>. QED  BY <1>7, <3>2, <3>3, <3>4, <3>5
    <2>3. \A u \in Save : save[u].phase # "over" => save'[u].phase # "over"
      BY <1>1, <2>2
    <2>4. policySaveVersion > 0 => policySaveVersion \in Save
      BY PolicyPanelAssumption DEF IInv, CardType, Save
    <2>. QED  BY <2>1, <2>3, <2>4 DEF CardFlag
  <1>8. ASSUME NEW v \in Save, Return(v) PROVE CardFlag'
    <2>1. CASE v = policySaveVersion
      BY <1>8, <2>1 DEF Return, CardFlag
    <2>2. CASE v # policySaveVersion
      <3>1. /\ UNCHANGED <<policyBusy, evaluating, policySaveVersion>>
            /\ \A u \in Save \ {v} : save'[u] = save[u]
        BY <1>1, <1>8, <2>2 DEF Return
      <3>2. policySaveVersion > 0 => policySaveVersion \in Save
        BY PolicyPanelAssumption DEF IInv, CardType, Save
      <3>. QED  BY <2>2, <3>1, <3>2 DEF CardFlag
    <2>. QED  BY <2>1, <2>2
  <1>. QED  BY <1>2, <1>3, <1>4, <1>5, <1>6, <1>7, <1>8
            DEF Next, User, Deliver, ToggleOperatorService, ToggleOperatorServiceGroup, policyVars

\* A run that was on its way either stays there or clears the flag.
LEMMA ConsoleFlagStep ==
    ASSUME ConsoleInv, ConsoleFlag, Console!Next \/ UNCHANGED console
    PROVE  ConsoleFlag'
  <1>1. run \in [Console!Run -> RunState]
    BY DEF ConsoleInv
  <1>2. ASSUME NEW r \in Console!Run, NEW rec, run' = [run EXCEPT ![r] = rec],
               rec.phase \notin {"none", "over", "failed"}
        PROVE  ConsoleFlag'
    <2>1. run'[r] = rec
      BY <1>1, <1>2
    <2>2. r \in Console!Running'
      BY <1>2, <2>1 DEF Console!Running, Console!Started
    <2>. QED  BY <2>2 DEF ConsoleFlag
  <1>3. CASE developmentBusy' = FALSE
    BY <1>3 DEF ConsoleFlag
  <1>4. CASE UNCHANGED <<run, developmentBusy>>
    BY <1>4 DEF ConsoleFlag, Console!Running, Console!Started
  <1>5. CASE Console!User
    <2>1. PICK r \in Console!Run : run' = [run EXCEPT ![r] = [run[r] EXCEPT !.phase = "posting"]]
      BY <1>5, StartsOne
    <2>2. [run[r] EXCEPT !.phase = "posting"].phase = "posting"
      BY <1>1 DEF RunState
    <2>. QED  BY <1>2, <2>1, <2>2
  <1>6. ASSUME NEW r \in Console!Run, Console!Watch(r) PROVE ConsoleFlag'
    <2>1. run[r] \in RunState
      BY <1>1
    <2>2. CASE Console!Fail(r) \/ Console!Finish(r)
      BY <1>3, <2>2 DEF Console!Fail, Console!Finish
    <2>3. CASE Console!Queue(r) /\ ~Console!Fail(r)
      BY <1>2, <2>1, <2>3 DEF Console!Queue, RunState
    <2>4. CASE Console!Poll(r) /\ ~Console!Fail(r)
      BY <1>2, <2>1, <2>4 DEF Console!Poll, RunState
    <2>5. CASE Console!Wait(r) /\ ~Console!Fail(r)
      <3>1. run' = [run EXCEPT ![r] = [run[r] EXCEPT !.phase = "asking", !.age = run[r].age + 1]]
        BY <2>5 DEF Console!Wait
      <3>. QED  BY <1>2, <2>1, <3>1 DEF RunState
    <2>6. CASE Console!ListReports(r)
      BY <1>2, <2>1, <2>6 DEF Console!ListReports, RunState
    <2>. QED  BY <1>6, <2>2, <2>3, <2>4, <2>5, <2>6
              DEF Console!Watch, Console!Queue, Console!Poll, Console!Wait
  <1>7. ASSUME NEW r \in Console!Run, Console!JobStep(r) PROVE ConsoleFlag'
    BY <1>4, <1>7 DEF Console!JobStep
  <1>8. CASE UNCHANGED console
    BY <1>4, <1>8 DEF console
  <1>. QED  BY <1>5, <1>6, <1>7, <1>8 DEF Console!Next

LEMMA InquiriesFlagsStep ==
    ASSUME InquiriesFlags, Asks!Next \/ UNCHANGED <<asked, busy>>
    PROVE  InquiriesFlags'
  <1>1. ASSUME NEW p \in Asks!Panel, NEW i, Asks!Ask(p, i), p = "audit" \/ ~busy[p]
        PROVE  InquiriesFlags'
    <2>1. PICK a : a.panel = p /\ asked' = asked \cup {a}
      BY <1>1 DEF Asks!Ask
    <2>2. /\ busy' \in [Asks!Panel -> BOOLEAN] /\ busy'[p] = TRUE
          /\ \A q \in Asks!Panel \ {p} : busy'[q] = busy[q]
      BY <1>1 DEF Asks!Ask, InquiriesFlags
    <2>3. \A b \in asked : b.panel = p => p = "audit"
      BY <1>1 DEF InquiriesFlags
    <2>. QED  BY <2>1, <2>2, <2>3 DEF InquiriesFlags
  <1>2. CASE Asks!User
    <2>1. Asks!Panel = {"audit", "discovery", "probe"}
      BY PanelsAssumption DEF Asks!Panel
    <2>. QED  BY <1>1, <1>2, <2>1
              DEF Asks!User, Asks!LoadAudit, Asks!LoadDiscovery, Asks!ProbeCapabilities
  <1>3. ASSUME NEW a \in asked, Asks!Return(a) PROVE InquiriesFlags'
    <2>1. asked' = asked \ {a} /\ busy' = [busy EXCEPT ![a.panel] = FALSE]
      BY <1>3 DEF Asks!Return
    <2>2. /\ busy' \in [Asks!Panel -> BOOLEAN] /\ ~busy'[a.panel]
          /\ \A q \in Asks!Panel \ {a.panel} : busy'[q] = busy[q]
      BY <2>1 DEF InquiriesFlags
    <2>3. \A b \in asked' : b.panel # "audit" => b.panel # a.panel
      BY <2>1 DEF InquiriesFlags
    <2>. QED  BY <2>1, <2>2, <2>3 DEF InquiriesFlags
  <1>4. CASE UNCHANGED <<asked, busy>>
    BY <1>4 DEF InquiriesFlags
  <1>. QED  BY <1>2, <1>3, <1>4 DEF Asks!Next, Asks!Deliver

\* Whatever another view does, the inquiries take a step of their own or none.
LEMMA PanelsAsksStep == [PanelsNext]_panels => Asks!Next \/ UNCHANGED <<asked, busy>>
  <1>1. CASE Use
    BY <1>1 DEF Use, Policy, Development, Asking, inquiries, Asks!Next, Asks!User
  <1>2. CASE SetView
    BY <1>2 DEF SetView
  <1>3. CASE SaveStep \/ Evaluated
    BY <1>3 DEF SaveStep, Evaluated, Policy, inquiries
  <1>4. CASE WatchStep
    BY <1>4 DEF WatchStep, Development, inquiries
  <1>5. CASE Answered
    BY <1>5 DEF Answered, Asking, Asks!Next
  <1>6. CASE Elsewhere
    BY <1>6 DEF Elsewhere, Policy, Development, inquiries
  <1>7. CASE UNCHANGED panels
    BY <1>7 DEF panels, inquiries
  <1>. QED  BY <1>1, <1>2, <1>3, <1>4, <1>5, <1>6, <1>7 DEF PanelsNext

-----------------------------------------------------------------------------
(* A flag that <main aria-busy> shows, or the probe's, has a call of its   *)
(* panel on its way: what is lost, refused or overtaken never leaves the   *)
(* page busy with nothing to wait for, whatever the finally blocks of      *)
(* overlapping calls do to each other (main.ts:298, 394, 413, 519-540).   *)
NoFlagLeftBehind ==
  /\ policyBusy => evaluating > 0 \/ \E v \in Save : save[v].phase \in {"queued", "sent", "answered"}
  /\ developmentBusy => Console!Running # {}
  /\ \A p \in Asks!Panel : busy[p] => \E a \in asked : a.panel = p

(* Of a token's discovery and of a probe there is one call at a time, so   *)
(* what they show is the answer to what was asked last; only the audit     *)
(* log's answers can overtake each other (main.ts:519).                    *)
OneInquiryAtATime ==
  \A a, b \in asked : a.panel = b.panel /\ a.panel # "audit" => a = b

FlagsInv == IInv /\ ReportsInv /\ CardFlag /\ ConsoleFlag /\ InquiriesFlags

LEMMA FlagsInvariant == PanelsSpec => []FlagsInv
  <1>1. PanelsInit => FlagsInv
    <2>. SUFFICES ASSUME PanelsInit PROVE FlagsInv
      OBVIOUS
    <2>1. Init /\ Console!Init /\ Asks!Init
      BY DEF PanelsInit
    <2>2. IInv /\ ReportsInv
      BY <2>1, InitIInv, InitConsoleInv DEF Console!Init, ReportsInv
    <2>3. CardFlag /\ ConsoleFlag
      BY <2>1 DEF Init, Console!Init, CardFlag, ConsoleFlag
    <2>4. InquiriesFlags
      BY <2>1 DEF Asks!Init, InquiriesFlags
    <2>. QED  BY <2>2, <2>3, <2>4 DEF FlagsInv
  <1>2. FlagsInv /\ [PanelsNext]_panels => FlagsInv'
    <2>. SUFFICES ASSUME FlagsInv, [PanelsNext]_panels PROVE FlagsInv'
      OBVIOUS
    <2>1. IInv' /\ CardFlag'
      BY CardStep, StepIInv, CardFlagStep DEF FlagsInv
    <2>2. ReportsInv' /\ ConsoleFlag'
      BY PanelsConsoleStep, ConsoleStep, ConsoleFlagStep DEF FlagsInv, ReportsInv
    <2>3. InquiriesFlags'
      BY PanelsAsksStep, InquiriesFlagsStep DEF FlagsInv
    <2>. QED  BY <2>1, <2>2, <2>3 DEF FlagsInv
  <1>. QED  BY <1>1, <1>2, PTL DEF PanelsSpec

\* NoFlagLeftBehind holds in every state of the views together.
THEOREM FlagsHaveACall == PanelsSpec => []NoFlagLeftBehind
  <1>1. FlagsInv => NoFlagLeftBehind
    <2>. SUFFICES ASSUME FlagsInv PROVE NoFlagLeftBehind
      OBVIOUS
    <2>1. policyBusy =>
            evaluating > 0 \/ \E v \in Save : save[v].phase \in {"queued", "sent", "answered"}
      <3>. SUFFICES ASSUME policyBusy, ~(evaluating > 0)
                    PROVE  \E v \in Save : save[v].phase \in {"queued", "sent", "answered"}
        OBVIOUS
      <3>1. policySaveVersion > 0 /\ save[policySaveVersion].phase # "over"
        BY DEF FlagsInv, CardFlag
      <3>2. policySaveVersion \in Save
        BY <3>1, PolicyPanelAssumption DEF FlagsInv, IInv, CardType, Save
      <3>3. save[policySaveVersion].phase # "none" /\ save[policySaveVersion] \in SaveState
        BY <3>2, PolicyPanelAssumption DEF FlagsInv, IInv, Numbered, CardType, Save
      <3>. QED  BY <3>1, <3>2, <3>3 DEF SaveState
    <2>. QED  BY <2>1 DEF FlagsInv, ConsoleFlag, InquiriesFlags, NoFlagLeftBehind
  <1>. QED  BY FlagsInvariant, <1>1, PTL

\* OneInquiryAtATime holds in every state of the views together.
THEOREM InquiriesAlone == PanelsSpec => []OneInquiryAtATime
  <1>1. FlagsInv => OneInquiryAtATime
    BY DEF FlagsInv, InquiriesFlags, OneInquiryAtATime
  <1>. QED  BY FlagsInvariant, <1>1, PTL
=============================================================================
