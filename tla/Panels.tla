-------------------------------- MODULE Panels --------------------------------
(***************************************************************************)
(* The views of the App UI together: the policy card, the development      *)
(* console and the calls that only ask run side by side, whichever view is *)
(* on the screen, over one alert.  The controls of a view can only be used *)
(* while it is shown; what they started goes on behind another one.        *)
(***************************************************************************)
EXTENDS PolicyPanel

CONSTANTS
  Outcome, MaxRun, Patience,          \* of DevelopmentConsole
  Input, All, MaxQuestion,            \* of Inquiries
  MaxCall                             \* bound of the model: calls of a run, of any kind

ASSUME PanelsAssumption ==
  /\ Outcome \subseteq {"ok", "warning", "error", "unavailable"}
  /\ MaxRun \in Nat \ {0} /\ Patience \in Nat \ {0}
  /\ DOMAIN Input = {"audit", "discovery", "probe"} /\ All \in Input["audit"]
  /\ MaxQuestion \in Nat /\ MaxCall \in Nat

VARIABLES
  view,
  job, serverReports, run, developmentBusy, developmentProgress, developmentResults,
  developmentReports,
  asked, count, busy, shown, auditFilter

Console == INSTANCE DevelopmentConsole WITH stored <- serverReports
Asks == INSTANCE Inquiries WITH MaxAsk <- MaxQuestion

console == <<job, serverReports, run, developmentBusy, developmentProgress,
             developmentResults, developmentReports>>
inquiries == <<asked, count, busy, shown, auditFilter>>
panels == <<vars, console, inquiries, view>>

Views == {"policy", "development", "audit", "mcp", "clients"}
Calls == policySaveVersion + evaluating + Cardinality(Console!Started) + count

PanelsInit == Init /\ Console!Init /\ Asks!Init /\ view \in Views

(* setView() clears the alert.  A view that comes back is made anew: the   *)
(* select of the audit view shows its first option again.                  *)
SetView ==
  /\ view' \in Views \ {view} /\ error' = NoError
  /\ auditFilter' = All
  /\ UNCHANGED <<policyVars, console, asked, count, busy, shown>>

Policy(A) == A /\ UNCHANGED <<console, inquiries, view>>
Development(A) == A /\ UNCHANGED <<policyVars, inquiries, view>>
Asking(A) == A /\ UNCHANGED <<policyVars, console, view>>

\* The controls of the view on the screen.
Use ==
  /\ Calls < MaxCall
  /\ \/ view = "policy" /\ Policy(User)
     \/ view = "development" /\ Development(Console!User)
     \/ view = "audit" /\ \E f \in Input["audit"] : Asking(Asks!LoadAudit(f))
     \/ view = "mcp" /\ \E t \in Input["discovery"] : Asking(Asks!LoadDiscovery(t))
     \/ view = "clients" /\ \E c \in Input["probe"] : Asking(Asks!ProbeCapabilities(c))

SaveStep == \E v \in Save : Policy(Send(v) \/ Serve(v) \/ Return(v))
Evaluated == Policy(EvaluateReturn)
WatchStep == \E r \in Console!Run : Development(Console!Watch(r))
Answered == Asking(Asks!Deliver)
Elsewhere ==
  \/ Policy(CatalogChange) \/ \E v \in Save : Policy(Lose(v) \/ ServeLate(v))
  \/ \E r \in Console!Run : Development(Console!JobStep(r))

PanelsNext == Use \/ SetView \/ SaveStep \/ Evaluated \/ WatchStep \/ Answered \/ Elsewhere

(* The browser settles every request and fires every timer.  Nobody has to *)
(* click, no job has to end, and no request has to be lost.                *)
PanelsFairness ==
  /\ WF_panels(SaveStep) /\ WF_panels(Evaluated)
  /\ WF_panels(WatchStep) /\ WF_panels(Answered)

PanelsSpec == PanelsInit /\ [][PanelsNext]_panels /\ PanelsFairness

-----------------------------------------------------------------------------
NoGhostProgress == Console!NoGhostProgress

\* The busy flags of these views that <main aria-busy> shows, and the probe's.
AnyBusy == policyBusy \/ developmentBusy \/ \E p \in DOMAIN busy : busy[p]

(* Whatever is lost, refused, cancelled elsewhere or forgotten by the      *)
(* server, the page comes to rest again: a save behind a failed one is     *)
(* sent, and a watch on a job that never ends gives up (main.ts:479).      *)
QuietAgain == []<>~AnyBusy
=============================================================================
