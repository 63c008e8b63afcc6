------------------------------ MODULE Inquiries ------------------------------
(***************************************************************************)
(* The calls of the App UI that only ask: the audit log under a filter,    *)
(* what a token discovers over MCP, and the probe of a client's            *)
(* capabilities.  None has a version and none is aborted; each answer is   *)
(* shown when it arrives, and each finally block clears its panel's flag.  *)
(***************************************************************************)
EXTENDS Naturals

CONSTANTS
  Input,   \* of "audit", "discovery" and "probe", what they ask for: a filter, a token, a client
  All,     \* the filter that lets every event through
  MaxAsk   \* bound of the model: calls in a run

VARIABLES
  asked,        \* the calls on their way
  count,        \* calls so far
  busy,         \* auditBusy, discoveryBusy, capabilityProbeBusy
  shown,        \* audit, discovery, capabilityProbe: the input they answer, if any
  auditFilter,  \* what the audit view's <select> shows
  error

inquiryVars == <<asked, count, busy, shown, auditFilter>>
vars == <<inquiryVars, error>>

NoError == [by |-> "none", call |-> 0]
Panel == DOMAIN Input
Answers(p) == {<<>>} \cup {<<i>> : i \in Input[p]}

\* The bootstrap loads the audit log unfiltered.
Init ==
  /\ asked = {} /\ count = 0 /\ busy = [p \in Panel |-> FALSE]
  /\ shown = [p \in Panel |-> IF p = "audit" THEN <<All>> ELSE <<>>]
  /\ auditFilter = All /\ error = NoError

Ask(p, i) ==
  /\ count < MaxAsk /\ count' = count + 1
  /\ asked' = asked \cup {[nr |-> count', panel |-> p, input |-> i]}
  /\ busy' = [busy EXCEPT ![p] = TRUE]
  /\ UNCHANGED shown

\* The select of the audit view is never disabled and clears no alert.
LoadAudit(f) ==
  /\ f \in Input["audit"] \ {auditFilter}
  /\ Ask("audit", f) /\ auditFilter' = f /\ UNCHANGED error

\* The submit button of the token's form.
LoadDiscovery(token) ==
  /\ token \in Input["discovery"] /\ ~busy["discovery"]
  /\ Ask("discovery", token) /\ error' = NoError /\ UNCHANGED auditFilter

\* The probe button of a client's row.
ProbeCapabilities(client) ==
  /\ client \in Input["probe"] /\ ~busy["probe"]
  /\ Ask("probe", client) /\ error' = NoError /\ UNCHANGED auditFilter

(* An answer, in whatever order they come, or a failure.                   *)
Return(a) ==
  /\ a \in asked /\ asked' = asked \ {a}
  /\ \/ shown' = [shown EXCEPT ![a.panel] = <<a.input>>] /\ UNCHANGED error
     \/ error' = [by |-> a.panel, call |-> a.nr] /\ UNCHANGED shown
  /\ busy' = [busy EXCEPT ![a.panel] = FALSE]
  /\ UNCHANGED <<count, auditFilter>>

User ==
  \/ \E f \in Input["audit"] : LoadAudit(f)
  \/ \E t \in Input["discovery"] : LoadDiscovery(t)
  \/ \E c \in Input["probe"] : ProbeCapabilities(c)
Deliver == \E a \in asked : Return(a)
Next == User \/ Deliver

\* The browser settles every request.
Fairness == WF_vars(Deliver)

Spec == Init /\ [][Next]_vars /\ Fairness

\* Every variable in its domain.
TypeOK ==
  /\ asked \subseteq [nr : 1 .. MaxAsk, panel : Panel, input : UNION {Input[p] : p \in Panel}]
  /\ \A a \in asked : a.input \in Input[a.panel]
  /\ count \in 0 .. MaxAsk /\ auditFilter \in Input["audit"]
  /\ busy \in [Panel -> BOOLEAN] /\ \A p \in Panel : shown[p] \in Answers(p)
  /\ error \in [by : {"none"} \cup Panel, call : Nat]
=============================================================================
