---------------------------- MODULE JobLifecycle ----------------------------
(***************************************************************************)
(* What the development console promises about a job, whoever runs it: it  *)
(* is queued, it may begin once, it ends for good, and only then may the   *)
(* console forget it.  At most MaxActive jobs are queued or running.       *)
(***************************************************************************)
EXTENDS Naturals, FiniteSets

CONSTANTS Jobs, MaxActive

VARIABLE phase

Phase == {"unborn", "queued", "running", "ended", "forgotten"}
Live == {j \in Jobs : phase[j] \in {"queued", "running"}}

Init == phase = [j \in Jobs |-> "unborn"]

\* The console may forget any of its ended jobs, F, as it accepts a new one.
Forgetting(F) == [j \in Jobs |-> IF j \in F THEN "forgotten" ELSE phase[j]]
Ended == {j \in Jobs : phase[j] = "ended"}

Accept(j) ==
    /\ phase[j] = "unborn"
    /\ Cardinality(Live) < MaxActive
    /\ \E F \in SUBSET Ended : phase' = [Forgetting(F) EXCEPT ![j] = "queued"]

Begin(j) ==
    /\ phase[j] = "queued"
    /\ phase' = [phase EXCEPT ![j] = "running"]

End(j) ==
    /\ phase[j] \in {"queued", "running"}
    /\ phase' = [phase EXCEPT ![j] = "ended"]

Forget == \E F \in SUBSET Ended : phase' = Forgetting(F)

Next == Forget \/ \E j \in Jobs : Accept(j) \/ Begin(j) \/ End(j)

Spec == Init /\ [][Next]_phase
=============================================================================
