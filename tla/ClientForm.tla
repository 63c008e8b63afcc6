----------------------------- MODULE ClientForm -----------------------------
(***************************************************************************)
(* The form that issues a client and the card that edits the capabilities  *)
(* of one: two drafts over the same checkbox group, the permission tabs,   *)
(* the profile, and what the browser's own controls show of them.          *)
(*                                                                         *)
(* The templates write a checkbox's attribute (?checked) and do not write  *)
(* the profile's value at all.  A browser lets a box follow its attribute  *)
(* until the user clicks it and again after form.reset() or when the       *)
(* element is made anew, and a new select shows its first option.          *)
(***************************************************************************)
EXTENDS Naturals, Sequences, FiniteSets

CONSTANTS
  Read, Write, Planned,  \* capabilities: ha.read.*, ha.write.*, and not implemented
  Diagnostics,           \* ha.read.diagnostics, the draft's default
  Service,               \* the services the global policy selects
  Client, None,          \* registered clients, and null
  Registered,            \* their profile and capabilities at the start
  MaxClicked             \* bound of the model: clicked boxes at a time

Profile == {"observer", "operator"}
Capability == Read \cup Write \cup Planned
Grants == [profile : Profile, capabilities : SUBSET Capability]

ASSUME ClientFormAssumption ==
  /\ Diagnostics \in Read /\ Read \cap (Write \cup Planned) = {} /\ Write \cap Planned = {}
  /\ None \notin Client /\ Registered \in [Client -> Grants]
  /\ MaxClicked \in Nat

VARIABLES
  operatorEnabled,       \* from /operator/status
  clients,               \* the rows the card edits
  view, permissionTab,
  clientProfile, selectedCapabilities, selectedOperatorServices,
  editingClientId, editingClientProfile, editingCapabilities,
  clicked,               \* the boxes that no longer follow their attribute, and what they show
  profileSelect,         \* what the profile's <select> shows
  named,                 \* whether both text fields of the form are filled in
  request, issuedToken

create == <<clientProfile, selectedCapabilities, selectedOperatorServices>>
edit == <<editingClientId, editingClientProfile, editingCapabilities>>
browser == <<clicked, profileSelect, named>>
vars == <<operatorEnabled, clients, view, permissionTab, create, edit, browser,
          request, issuedToken>>

Tab == <<"capabilities", "operator-services">>
Box == ({"create", "edit"} \X Capability) \cup ({"services"} \X Service)
Unclicked(card) == [b \in Box |-> IF b[1] = card THEN "no" ELSE clicked[b]]
\* Mutant: the form is not reset.
FormUnclickedNever == clicked

FormUnclicked == [b \in Box |-> IF b[1] = "edit" THEN clicked[b] ELSE "no"]
NoRequest == [kind |-> "none", form |-> "none", accepted |-> FALSE, capabilities |-> {}]

IsWriteCapability(c) == c \in Write \cup Planned

CanSelectCapability(profile, c, implemented) ==
  implemented /\ (profile = "operator" \/ ~IsWriteCapability(c))

\* Mutant: whether the capability is implemented is not looked at.
CanGrantPlanned(profile, c) == c \in Read \/ (operatorEnabled /\ profile = "operator")

\* Mutant: whether operators are enabled is not looked at.
CanGrantDisabled(profile, c) == c \notin Planned /\ (c \in Read \/ profile = "operator")

CanGrant(profile, c) ==
  c \notin Planned /\ (c \in Read \/ (operatorEnabled /\ profile = "operator"))

ToggleCapability(profile, selected, c, checked, implemented) ==
  IF checked /\ ~CanSelectCapability(profile, c, implemented) THEN selected
  ELSE IF checked THEN selected \cup {c} ELSE selected \ {c}

CapabilitiesAfterProfileChange(profile, selected) ==
  IF profile = "observer" THEN {c \in selected : ~IsWriteCapability(c)} ELSE selected

Draft(card) == IF card = "create" THEN selectedCapabilities
               ELSE IF card = "edit" THEN editingCapabilities ELSE selectedOperatorServices
DraftProfile(card) == IF card = "edit" THEN editingClientProfile ELSE clientProfile

(* What a box shows, and whether it and its card are there to be used.     *)
Checked(b) == IF clicked[b] = "no" THEN b[2] \in Draft(b[1]) ELSE clicked[b] = "on"
Mounted(card) ==
  /\ view = "clients"
  /\ CASE card = "create" -> permissionTab = "capabilities"
       [] card = "services" -> permissionTab = "operator-services"
       [] OTHER -> editingClientId # None
Enabled(b) ==
  IF b[1] = "services" THEN operatorEnabled
  ELSE \/ CanGrant(DraftProfile(b[1]), b[2])
       \/ b[1] = "edit" /\ b[2] \in editingCapabilities

-----------------------------------------------------------------------------
Init ==
  /\ operatorEnabled \in BOOLEAN
  /\ clients = Registered /\ view = "clients" /\ permissionTab = Tab[1]
  /\ clientProfile = "observer"
  /\ selectedCapabilities = {Diagnostics} /\ selectedOperatorServices = {}
  /\ editingClientId = None /\ editingClientProfile = "observer" /\ editingCapabilities = {}
  /\ clicked = [b \in Box |-> "no"] /\ profileSelect = "observer" /\ named = FALSE
  /\ request = NoRequest /\ issuedToken = FALSE

Update(card, next) ==
  /\ selectedCapabilities' = IF card = "create" THEN next ELSE selectedCapabilities
  /\ editingCapabilities' = IF card = "edit" THEN next ELSE editingCapabilities
  /\ selectedOperatorServices' = IF card = "services" THEN next ELSE selectedOperatorServices
  /\ UNCHANGED <<operatorEnabled, clients, view, permissionTab, clientProfile,
                 editingClientId, editingClientProfile, profileSelect, named, request,
                 issuedToken>>

(* A click on a box: the browser turns it over, then its handler runs.     *)
Click(b) ==
  LET on == ~Checked(b) IN
  /\ Mounted(b[1]) /\ Enabled(b)
  /\ clicked' = [clicked EXCEPT ![b] = IF on THEN "on" ELSE "off"]
  /\ Cardinality({x \in Box : clicked'[x] # "no"}) <= MaxClicked
  /\ Update(b[1],
            IF b[1] = "services"
              THEN IF on THEN Draft(b[1]) \cup {b[2]} ELSE Draft(b[1]) \ {b[2]}
              ELSE ToggleCapability(DraftProfile(b[1]), Draft(b[1]), b[2], on,
                                    CanGrant(DraftProfile(b[1]), b[2])))

(* "Select all" and "clear" of a group: they write the draft, and the      *)
(* attributes with it, but click no box.                                   *)
SelectAll(card) ==
  /\ Mounted(card) /\ UNCHANGED clicked
  /\ Update(card, IF card = "services" THEN Service
                  ELSE {c \in Capability : CanGrant(DraftProfile(card), c)})

Clear(card) == Mounted(card) /\ UNCHANGED clicked /\ Update(card, {})

(* setClientProfile(), from the select.                                    *)
SetClientProfile(profile) ==
  /\ view = "clients" /\ profile # profileSelect /\ (profile = "observer" \/ operatorEnabled)
  /\ profileSelect' = profile /\ clientProfile' = profile
  /\ selectedCapabilities' = CapabilitiesAfterProfileChange(profile, selectedCapabilities)
  /\ selectedOperatorServices' = IF profile = "operator" THEN selectedOperatorServices ELSE {}
  /\ UNCHANGED <<operatorEnabled, clients, view, permissionTab, edit, clicked, named, request,
                 issuedToken>>

(* The client's id and its name, both required: the browser submits no     *)
(* form without them, and no render writes over what was typed.            *)
Fill ==
  /\ view = "clients" /\ named' = ~named
  /\ UNCHANGED <<operatorEnabled, clients, view, permissionTab, create, edit, clicked,
                 profileSelect, request, issuedToken>>

(* The tab bar: a click, or an arrow that wraps around, Home and End.  The *)
(* panel of the other tab is made anew.                                    *)
NextTab(index, key) ==
  CASE key = "Home" -> 1 [] key = "End" -> Len(Tab)
    [] key = "ArrowRight" -> (index % Len(Tab)) + 1
    [] key = "ArrowLeft" -> ((index + Len(Tab) - 2) % Len(Tab)) + 1

SetPermissionTab ==
  /\ view = "clients"
  /\ \E index \in DOMAIN Tab, key \in {"Home", "End", "ArrowLeft", "ArrowRight"} :
       /\ Tab[index] = permissionTab
       /\ permissionTab' = Tab[NextTab(index, key)]
       /\ clicked' = IF permissionTab' = permissionTab THEN clicked ELSE FormUnclicked
  /\ UNCHANGED <<operatorEnabled, clients, view, create, edit, profileSelect, named, request,
                 issuedToken>>

(* Leaving the view removes the form and the card; the drafts stay.        *)
SetView ==
  /\ view' = IF view = "clients" THEN "policy" ELSE "clients"
  /\ clicked' = [b \in Box |-> "no"] /\ profileSelect' = "observer" /\ named' = FALSE
  /\ request' = IF request.kind = "create" THEN [request EXCEPT !.form = "gone"] ELSE request
  /\ UNCHANGED <<operatorEnabled, clients, permissionTab, create, edit, issuedToken>>

(* The rows' edit button: a card that is already there is used again for   *)
(* another client, clicked boxes and all.                                  *)
EditClientCapabilities(c) ==
  /\ view = "clients" /\ request.kind = "none"
  /\ editingClientId' = c /\ editingClientProfile' = clients[c].profile
  /\ editingCapabilities' = clients[c].capabilities
  /\ UNCHANGED <<operatorEnabled, clients, view, permissionTab, create, browser, request, issuedToken>>

CloseEditor ==
  /\ editingClientId' = None /\ editingClientProfile' = "observer" /\ editingCapabilities' = {}

CancelCapabilityEdit ==
  /\ Mounted("edit") /\ request.kind = "none" /\ CloseEditor /\ clicked' = Unclicked("edit")
  /\ UNCHANGED <<operatorEnabled, clients, view, permissionTab, create, profileSelect,
                 named, request, issuedToken>>

(* The rules of IssueClient and UpdateClientCapabilities on the server,    *)
(* whose setting does not change while the page is open.                   *)
ServerAccepts(profile, capabilities, services) ==
  /\ profile = "operator" => operatorEnabled
  /\ profile = "observer" =>
       services = {} /\ \A c \in capabilities : ~IsWriteCapability(c)

SaveClientCapabilities ==
  /\ Mounted("edit") /\ request.kind = "none"
  /\ request' = [NoRequest EXCEPT
                    !.kind = "save", !.capabilities = editingCapabilities,
                    !.accepted = ServerAccepts(editingClientProfile, editingCapabilities, {})]
  /\ UNCHANGED <<operatorEnabled, clients, view, permissionTab, create, edit, browser, issuedToken>>

(* The form's profile comes from the select, the rest from the drafts.  Of *)
(* what is sent only the server's verdict matters to this page.            *)
CreateClient ==
  /\ view = "clients" /\ request.kind = "none" /\ named
  /\ request' = [NoRequest EXCEPT
                    !.kind = "create", !.form = "mounted",
                    !.accepted = ServerAccepts(profileSelect, selectedCapabilities,
                                               selectedOperatorServices)]
  /\ UNCHANGED <<operatorEnabled, clients, view, permissionTab, create, edit, browser, issuedToken>>

(* The answer.  form.reset() reaches the form that was submitted, which is *)
(* gone if the view was left in between.                                   *)
Created ==
  /\ request.kind = "create" /\ request.accepted
  /\ issuedToken' = TRUE /\ request' = NoRequest
  /\ clientProfile' = "observer" /\ selectedCapabilities' = {Diagnostics}
  /\ selectedOperatorServices' = {} /\ permissionTab' = Tab[1]
  /\ IF request.form = "gone"
       THEN /\ UNCHANGED <<profileSelect, named>>
            /\ clicked' = IF permissionTab = Tab[1] THEN clicked ELSE FormUnclicked
       ELSE profileSelect' = "observer" /\ named' = FALSE /\ clicked' = FormUnclicked
  /\ UNCHANGED <<operatorEnabled, clients, view, edit>>

Saved ==
  /\ request.kind = "save" /\ request.accepted
  /\ clients' = [clients EXCEPT ![editingClientId].capabilities = request.capabilities]
  /\ CloseEditor /\ clicked' = Unclicked("edit") /\ request' = NoRequest
  /\ UNCHANGED <<operatorEnabled, view, permissionTab, create, profileSelect, named,
                 issuedToken>>

Refused ==
  /\ request.kind # "none" /\ request' = NoRequest
  /\ UNCHANGED <<operatorEnabled, clients, view, permissionTab, create, edit, browser, issuedToken>>

SavedIt ==
  /\ issuedToken' = FALSE
  /\ UNCHANGED <<operatorEnabled, clients, view, permissionTab, create, edit, browser, request>>

Next ==
  \/ \E b \in Box : Click(b)
  \/ \E card \in {"create", "edit", "services"} : SelectAll(card) \/ Clear(card)
  \/ \E profile \in Profile : SetClientProfile(profile)
  \/ \E c \in Client : EditClientCapabilities(c)
  \/ Fill \/ SetPermissionTab \/ SetView \/ CancelCapabilityEdit \/ SaveClientCapabilities
  \/ CreateClient \/ Created \/ Saved \/ Refused \/ SavedIt

Spec == Init /\ [][Next]_vars

-----------------------------------------------------------------------------
(* What the profile and the installation permit, stated apart from the     *)
(* code's own tests.                                                       *)
Permitted(profile) == Read \cup (IF operatorEnabled /\ profile = "operator" THEN Write ELSE {})

(* However the boxes, the group buttons and the profile are used, neither  *)
(* draft holds a capability its profile does not permit, except grants the *)
(* edited client already has (capability-policy.ts:5-29, main.ts:244 and   *)
(* 319-338; docs/frontend-ui-catalog.md:71).                               *)
NoForbiddenGrant ==
  /\ selectedCapabilities \subseteq Permitted(clientProfile)
  /\ editingClientId # None =>
       editingCapabilities \subseteq
         Permitted(editingClientProfile) \cup clients[editingClientId].capabilities

(* A legacy grant that was removed in the card comes back only by opening  *)
(* the client again ("Once removed they cannot be granted again",          *)
(* docs/frontend-ui-catalog.md:71).                                        *)
RemovedStaysRemoved ==
  [][editingClientId # None /\ editingClientId' = editingClientId =>
       \/ editingCapabilities' \subseteq editingCapabilities \cup Permitted(editingClientProfile)
       \/ editingCapabilities' = clients[editingClientId].capabilities]_vars

(* After a client was issued the form it was issued from shows the fresh   *)
(* draft, whatever was clicked before (main.ts:235).                       *)
CreateStartsOver ==
  [][issuedToken' /\ ~issuedToken /\ request.form = "mounted" =>
       /\ profileSelect' = clientProfile' /\ selectedCapabilities' = {Diagnostics} /\ ~named'
       /\ \A b \in Box : b[1] # "edit" => (Checked(b)' <=> b[2] \in Draft(b[1])')]_vars
=============================================================================
