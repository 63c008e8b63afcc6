--------------------------- MODULE ClientFormProofs ---------------------------
(***************************************************************************)
(* Proofs about ClientForm for any capabilities, services and clients, and *)
(* any number of clicks.                                                   *)
(*                                                                         *)
(* The page tests a capability in three places that do not know of each    *)
(* other: a box when it is clicked, the group buttons, the change of the   *)
(* profile.  The invariant follows what the card holds to the request that *)
(* saves it, and from there to the row.                                    *)
(***************************************************************************)
EXTENDS ClientForm, TLAPS

-----------------------------------------------------------------------------
\* While a save is under way the card stays open, on the client it is for.
SavingFits ==
  request.kind = "save" =>
    /\ editingClientId \in Client
    /\ request.capabilities \subseteq
         Permitted(editingClientProfile) \cup clients[editingClientId].capabilities

\* The card's profile is the client's: no answer changes a profile.
CardFits ==
  /\ clients \in [Client -> Grants]
  /\ editingClientId \in Client \cup {None}
  /\ editingClientId # None => editingClientProfile = clients[editingClientId].profile

IInv == NoForbiddenGrant /\ SavingFits /\ CardFits

\* What CanGrant lets through is permitted: its test and Permitted are stated
\* each on their own.
LEMMA GrantablePermitted ==
  ASSUME NEW profile, NEW c \in Capability, CanGrant(profile, c)
  PROVE  c \in Permitted(profile)
BY DEF CanGrant, Permitted, Capability

LEMMA OperatorPermittedMost ==
  ASSUME NEW profile
  PROVE  Permitted(profile) \subseteq Permitted("operator")
BY DEF Permitted

LEMMA ObserverDropsTheRest ==
  ASSUME NEW profile, NEW selected, selected \subseteq Permitted(profile)
  PROVE  CapabilitiesAfterProfileChange("observer", selected) \subseteq Permitted("observer")
BY DEF CapabilitiesAfterProfileChange, Permitted, IsWriteCapability

\* A toggle adds what may be granted or only takes away.
LEMMA ToggleFits ==
  ASSUME NEW profile, NEW selected, NEW c \in Capability, NEW on \in BOOLEAN
  PROVE  ToggleCapability(profile, selected, c, on, CanGrant(profile, c))
           \subseteq selected \cup Permitted(profile)
<1>1. CASE CanGrant(profile, c)
  BY <1>1, GrantablePermitted DEF ToggleCapability
<1>2. CASE ~CanGrant(profile, c)
  BY <1>2 DEF ToggleCapability, CanSelectCapability
<1>3. QED
  BY <1>1, <1>2

\* What a click or a group button may do to the two drafts of capabilities.
DraftsGrow ==
  /\ selectedCapabilities' \subseteq selectedCapabilities \cup Permitted(clientProfile)
  /\ editingCapabilities' \subseteq editingCapabilities \cup Permitted(editingClientProfile)
  /\ UNCHANGED <<operatorEnabled, clients, clientProfile, editingClientId, editingClientProfile,
                 request, issuedToken>>

LEMMA ClickGrows ==
  ASSUME NEW b \in Box, Click(b)
  PROVE  DraftsGrow
<1> DEFINE on == ~Checked(b)
<1>0. on \in BOOLEAN
  BY DEF Checked
<1>1. b[1] \in {"create", "edit"} => b[2] \in Capability
  BY DEF Box
<1>2. UNCHANGED <<operatorEnabled, clients, clientProfile, editingClientId, editingClientProfile,
                  request, issuedToken>>
  BY DEF Click, Update
<1>3. selectedCapabilities' \subseteq selectedCapabilities \cup Permitted(clientProfile)
  <2>1. CASE b[1] = "create"
    <3>1. selectedCapabilities' =
            ToggleCapability(clientProfile, selectedCapabilities, b[2], on, CanGrant(clientProfile, b[2]))
      BY <2>1 DEF Click, Update, Draft, DraftProfile
    <3>2. QED
      BY <1>0, <1>1, <2>1, <3>1, ToggleFits
  <2>2. CASE b[1] # "create"
    BY <2>2 DEF Click, Update
  <2>3. QED
    BY <2>1, <2>2
<1>4. editingCapabilities' \subseteq editingCapabilities \cup Permitted(editingClientProfile)
  <2>1. CASE b[1] = "edit"
    <3>1. editingCapabilities' =
            ToggleCapability(editingClientProfile, editingCapabilities, b[2], on,
                             CanGrant(editingClientProfile, b[2]))
      BY <2>1 DEF Click, Update, Draft, DraftProfile
    <3>2. QED
      BY <1>0, <1>1, <2>1, <3>1, ToggleFits
  <2>2. CASE b[1] # "edit"
    BY <2>2 DEF Click, Update
  <2>3. QED
    BY <2>1, <2>2
<1>5. QED
  BY <1>2, <1>3, <1>4 DEF DraftsGrow

LEMMA GroupButtonsGrow ==
  ASSUME NEW card \in {"create", "edit", "services"}, SelectAll(card) \/ Clear(card)
  PROVE  DraftsGrow
<1>1. CASE SelectAll(card)
  <2>1. \A profile : {c \in Capability : CanGrant(profile, c)} \subseteq Permitted(profile)
    BY GrantablePermitted
  <2>2. QED
    BY <1>1, <2>1 DEF SelectAll, Update, DraftProfile, DraftsGrow
<1>2. CASE Clear(card)
  BY <1>2 DEF Clear, Update, DraftsGrow
<1>3. QED
  BY <1>1, <1>2

LEMMA DraftsGrowKeeps ==
  ASSUME IInv, DraftsGrow
  PROVE  IInv'
BY DEF IInv, DraftsGrow, NoForbiddenGrant, SavingFits, CardFits, Permitted

-----------------------------------------------------------------------------
LEMMA InvInit == Init => IInv
<1> SUFFICES ASSUME Init PROVE IInv
  OBVIOUS
<1>1. {Diagnostics} \subseteq Permitted(clientProfile)
  BY ClientFormAssumption DEF Permitted
<1>2. QED
  BY <1>1, ClientFormAssumption DEF Init, IInv, NoForbiddenGrant, SavingFits, CardFits, NoRequest

LEMMA InvStep == IInv /\ [Next]_vars => IInv'
<1> SUFFICES ASSUME IInv, [Next]_vars PROVE IInv'
  OBVIOUS
<1>1. ASSUME NEW b \in Box, Click(b) PROVE IInv'
  BY <1>1, ClickGrows, DraftsGrowKeeps
<1>2. ASSUME NEW card \in {"create", "edit", "services"}, SelectAll(card) \/ Clear(card) PROVE IInv'
  BY <1>2, GroupButtonsGrow, DraftsGrowKeeps
<1>3. ASSUME NEW profile \in Profile, SetClientProfile(profile) PROVE IInv'
  <2>1. CapabilitiesAfterProfileChange(profile, selectedCapabilities) \subseteq Permitted(profile)
    <3>1. CASE profile = "observer"
      BY <3>1, ObserverDropsTheRest DEF IInv, NoForbiddenGrant
    <3>2. CASE profile = "operator"
      BY <3>2, OperatorPermittedMost DEF IInv, NoForbiddenGrant, CapabilitiesAfterProfileChange
    <3>3. QED
      BY <3>1, <3>2 DEF Profile
  <2>2. Permitted(profile)' = Permitted(profile) /\ Permitted(editingClientProfile)' = Permitted(editingClientProfile)
    BY <1>3 DEF SetClientProfile, Permitted, edit
  <2>3. NoForbiddenGrant'
    BY <1>3, <2>1, <2>2 DEF SetClientProfile, IInv, NoForbiddenGrant, edit
  <2>4. QED
    BY <1>3, <2>2, <2>3 DEF SetClientProfile, IInv, SavingFits, CardFits, edit
<1>4. ASSUME NEW c \in Client, EditClientCapabilities(c) PROVE IInv'
  BY <1>4 DEF EditClientCapabilities, IInv, NoForbiddenGrant, SavingFits, CardFits, Permitted, create
<1>5. CASE Fill \/ SetPermissionTab \/ SavedIt
  BY <1>5 DEF Fill, SetPermissionTab, SavedIt, IInv, NoForbiddenGrant, SavingFits, CardFits,
     Permitted, create, edit
<1>6. CASE SetView
  <2>1. request'.kind = request.kind /\ (request.kind = "save" => request' = request)
    BY <1>6 DEF SetView
  <2>2. QED
    BY <1>6, <2>1 DEF SetView, IInv, NoForbiddenGrant, SavingFits, CardFits, Permitted, create, edit
<1>7. CASE CancelCapabilityEdit
  BY <1>7 DEF CancelCapabilityEdit, CloseEditor, IInv, NoForbiddenGrant, SavingFits, CardFits,
     Permitted, create
<1>8. CASE SaveClientCapabilities
  <2>1. /\ editingClientId # None /\ request'.capabilities = editingCapabilities
        /\ UNCHANGED <<operatorEnabled, clients, create, edit>>
    BY <1>8 DEF SaveClientCapabilities, Mounted, NoRequest
  <2>2. QED
    BY <2>1 DEF IInv, NoForbiddenGrant, SavingFits, CardFits, Permitted, create, edit
<1>9. CASE CreateClient
  <2>1. request'.kind = "create" /\ UNCHANGED <<operatorEnabled, clients, create, edit>>
    BY <1>9 DEF CreateClient, NoRequest
  <2>2. QED
    BY <2>1 DEF IInv, NoForbiddenGrant, SavingFits, CardFits, Permitted, create, edit
<1>10. CASE Created
  <2>1. {Diagnostics} \subseteq Permitted(clientProfile)'
    BY ClientFormAssumption DEF Permitted
  <2>2. /\ selectedCapabilities' = {Diagnostics} /\ request'.kind = "none"
        /\ UNCHANGED <<operatorEnabled, clients, edit>>
    BY <1>10 DEF Created, NoRequest
  <2>3. QED
    BY <2>1, <2>2 DEF IInv, NoForbiddenGrant, SavingFits, CardFits, Permitted, edit
<1>11. CASE Saved
  <2>1. /\ editingClientId' = None /\ request'.kind = "none" /\ UNCHANGED <<operatorEnabled, create>>
        /\ clients' = [clients EXCEPT ![editingClientId].capabilities = request.capabilities]
    BY <1>11 DEF Saved, CloseEditor, NoRequest
  <2>2. editingClientId \in Client /\ request.capabilities \subseteq Capability
    <3>1. Permitted(editingClientProfile) \subseteq Capability
      BY DEF Permitted, Capability
    <3>2. QED
      BY <1>11, <3>1 DEF Saved, IInv, SavingFits, CardFits, Grants
  <2>3. clients' \in [Client -> Grants]
    <3>1. [clients[editingClientId] EXCEPT !.capabilities = request.capabilities] \in Grants
      BY <2>2 DEF IInv, CardFits, Grants
    <3>2. QED
      BY <2>1, <2>2, <3>1 DEF IInv, CardFits
  <2>4. QED
    BY <2>1, <2>3 DEF IInv, NoForbiddenGrant, SavingFits, CardFits, Permitted, create
<1>12. CASE Refused
  BY <1>12 DEF Refused, NoRequest, IInv, NoForbiddenGrant, SavingFits, CardFits, Permitted, create, edit
<1>13. CASE UNCHANGED vars
  BY <1>13 DEF vars, IInv, NoForbiddenGrant, SavingFits, CardFits, Permitted, create, edit
<1>14. QED
  BY <1>1, <1>2, <1>3, <1>4, <1>5, <1>6, <1>7, <1>8, <1>9, <1>10, <1>11, <1>12, <1>13 DEF Next

LEMMA InvHolds == Spec => []IInv
BY InvInit, InvStep, PTL DEF Spec

-----------------------------------------------------------------------------
\* No click, group button or change of profile puts a capability in a draft
\* that its profile does not permit, except what the edited client has already.
THEOREM NothingForbiddenInDrafts == Spec => []NoForbiddenGrant
<1>1. IInv => NoForbiddenGrant
  BY DEF IInv
<1>2. QED
  BY <1>1, InvHolds, PTL

\* The card grants a legacy capability again only by reading the client again.
CardGains ==
  editingClientId # None /\ editingClientId' = editingClientId =>
    \/ editingCapabilities' \subseteq editingCapabilities \cup Permitted(editingClientProfile)
    \/ editingCapabilities' = clients[editingClientId].capabilities

\* What was removed in the card stays removed until the client is opened again.
THEOREM RemovedForGood == Spec => RemovedStaysRemoved
<1>1. [Next]_vars => [CardGains]_vars
  <2> SUFFICES ASSUME Next, editingClientId # None, editingClientId' = editingClientId
               PROVE  \/ editingCapabilities' \subseteq
                           editingCapabilities \cup Permitted(editingClientProfile)
                      \/ editingCapabilities' = clients[editingClientId].capabilities
    BY DEF CardGains
  <2>1. DraftsGrow => editingCapabilities' \subseteq editingCapabilities \cup Permitted(editingClientProfile)
    BY DEF DraftsGrow
  <2>2. ASSUME NEW c \in Client, EditClientCapabilities(c)
        PROVE  editingCapabilities' = clients[editingClientId].capabilities
    BY <2>2 DEF EditClientCapabilities
  <2>3. ASSUME CancelCapabilityEdit \/ Saved PROVE FALSE
    BY <2>3 DEF CancelCapabilityEdit, Saved, CloseEditor
  <2>4. \/ \E b \in Box : Click(b)
        \/ \E card \in {"create", "edit", "services"} : SelectAll(card) \/ Clear(card)
        \/ \E c \in Client : EditClientCapabilities(c)
        \/ CancelCapabilityEdit \/ Saved
        \/ editingCapabilities' = editingCapabilities
    BY DEF Next, SetClientProfile, Fill, SetPermissionTab, SetView, SaveClientCapabilities,
       CreateClient, Created, Refused, SavedIt, edit
  <2>5. QED
    BY <2>1, <2>2, <2>3, <2>4, ClickGrows, GroupButtonsGrow
<1>2. QED
  BY <1>1, PTL DEF Spec, RemovedStaysRemoved, CardGains

\* A row gains no capability from this page but those its profile permits: a
\* legacy grant that was saved away does not come back, whatever cards are
\* opened, cancelled or left while a save is under way.
LegacyGrantsShrink ==
  [][\A c \in Client : clients'[c].capabilities \subseteq
                         clients[c].capabilities \cup Permitted(clients[c].profile)]_vars

\* The rows keep to LegacyGrantsShrink (saveClientCapabilities and its answer).
THEOREM LegacyGrantsOnlyShrink == Spec => LegacyGrantsShrink
<1>1. IInv /\ [Next]_vars =>
        [\A c \in Client : clients'[c].capabilities \subseteq
                             clients[c].capabilities \cup Permitted(clients[c].profile)]_vars
  <2> SUFFICES ASSUME IInv, Next, NEW c \in Client
               PROVE  clients'[c].capabilities \subseteq
                        clients[c].capabilities \cup Permitted(clients[c].profile)
    OBVIOUS
  <2>1. CASE Saved
    <3>1. /\ editingClientId \in Client /\ editingClientProfile = clients[editingClientId].profile
          /\ request.capabilities \subseteq
               Permitted(editingClientProfile) \cup clients[editingClientId].capabilities
      BY <2>1, ClientFormAssumption DEF Saved, IInv, SavingFits, CardFits
    <3>2. clients' = [clients EXCEPT ![editingClientId] =
                        [clients[editingClientId] EXCEPT !.capabilities = request.capabilities]]
      BY <2>1 DEF Saved
    <3>3. c # editingClientId => clients'[c] = clients[c]
      BY <3>2 DEF IInv, CardFits
    <3>4. clients'[editingClientId].capabilities = request.capabilities
      BY <3>1, <3>2 DEF IInv, CardFits, Grants
    <3>5. QED
      BY <3>1, <3>3, <3>4
  <2>2. CASE ~Saved
    <3>1. clients' = clients
      BY <2>2 DEF Next, Click, SelectAll, Clear, Update, SetClientProfile, EditClientCapabilities,
         Fill, SetPermissionTab, SetView, CancelCapabilityEdit, SaveClientCapabilities,
         CreateClient, Created, Refused, SavedIt
    <3>2. QED
      BY <3>1
  <2>3. QED
    BY <2>1, <2>2
<1>2. QED
  BY <1>1, InvHolds, PTL DEF Spec, LegacyGrantsShrink

-----------------------------------------------------------------------------
StartedOver ==
  issuedToken' /\ ~issuedToken /\ request.form = "mounted" =>
    /\ profileSelect' = clientProfile' /\ selectedCapabilities' = {Diagnostics} /\ ~named'
    /\ \A b \in Box : b[1] # "edit" => (Checked(b)' <=> b[2] \in Draft(b[1])')

\* A form that issued a client shows the fresh draft, whatever was clicked.
THEOREM FormStartsOver == Spec => CreateStartsOver
<1>1. [Next]_vars => [StartedOver]_vars
  <2> SUFFICES ASSUME Next, issuedToken', ~issuedToken, request.form = "mounted"
               PROVE  /\ profileSelect' = clientProfile' /\ selectedCapabilities' = {Diagnostics}
                      /\ ~named'
                      /\ \A b \in Box : b[1] # "edit" => (Checked(b)' <=> b[2] \in Draft(b[1])')
    BY DEF StartedOver
  <2>1. Created
    BY DEF Next, Click, SelectAll, Clear, Update, SetClientProfile, EditClientCapabilities,
       Fill, SetPermissionTab, SetView, CancelCapabilityEdit, SaveClientCapabilities,
       CreateClient, Saved, Refused, SavedIt
  <2>2. /\ profileSelect' = "observer" /\ clientProfile' = "observer" /\ named' = FALSE
        /\ selectedCapabilities' = {Diagnostics} /\ clicked' = FormUnclicked
    BY <2>1 DEF Created
  <2>3. \A b \in Box : b[1] # "edit" => clicked'[b] = "no"
    BY <2>2 DEF FormUnclicked
  <2>4. \A b \in Box : b[1] # "edit" => (Checked(b)' <=> b[2] \in Draft(b[1])')
    BY <2>3 DEF Checked
  <2>5. QED
    BY <2>2, <2>4
<1>2. QED
  BY <1>1, PTL DEF Spec, CreateStartsOver, StartedOver

=============================================================================
